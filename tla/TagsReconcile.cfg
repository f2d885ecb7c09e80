CONSTANTS
  gcr = gcr
  us = us
  old = old
  new = new
  newer = newer
  latest = latest
  r1 = r1
  r2 = r2
  r3 = r3
  r4 = r4
  NoDigest = NoDigest
  Files <- MCFiles
  Runs = {r1, r2, r3, r4}
  DryRun = {r3}
  Together <- MCTogether
  Repos = {gcr, us}
  Digests = {old, new, newer}
  TagNames = {latest}
  Deletable <- NewInBase

SPECIFICATION Spec
CHECK_DEADLOCK FALSE
INVARIANTS
  TypeOK
  SuccessReconciles
PROPERTIES
  SecondRunChangesNothing
  BaseComesLast
  ImplementsDesiredTags
