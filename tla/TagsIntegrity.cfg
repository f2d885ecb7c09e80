CONSTANTS
  gcr = gcr
  old = old
  new = new
  newer = newer
  latest = latest
  stable = stable
  NoDigest = NoDigest
  Projects <- TwoProjects
  Repos = {gcr}
  Digests = {old, new, newer}
  TagNames = {latest, stable}
  Deletable <- Deletions

SPECIFICATION TestSpec
CHECK_DEADLOCK FALSE
INVARIANTS
  VerdictMeans
  TestTypeOK
