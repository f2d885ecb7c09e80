CONSTANTS
  a = a
  b = b
  c = c
  f1 = f1
  f2 = f2
  java = java
  t1 = t1
  t2 = t2
  p1 = p1
  p2 = p2
  p3 = p3
  None = None
  NoTarget = NoTarget
  EmptyTarget = EmptyTarget
  OtherTarget = OtherTarget
  Prefixed = Prefixed
  Names = {a, b, c}
  Files = {f1, f2}
  Projects = {java}
  Templates = {t1, t2}
  Output <- MCOutput
  Publishers = {p1, p2, p3}
  Candidates <- MCCandidates
  Configs <- MCConfigs
  Together <- MCTogether
  Deletable = {f1}

SPECIFICATION Spec
CHECK_DEADLOCK FALSE
INVARIANTS
  VerdictCorrect
  PublishedSound
PROPERTIES
  VerificationEnds
