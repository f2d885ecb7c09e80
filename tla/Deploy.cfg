CONSTANTS
  gae = gae
  gke = gke
  given = given
  relative = relative
  both = both
  c1 = c1
  c2 = c2
  app = app
  legacy = legacy
  i1 = i1
  i2 = i2
  b1 = b1
  Own = Own
  None = None
  Drivers = {gae, gke, given, relative}
  Checks = {both, c1, c2}
  Dirs = {app, legacy}
  Absolute = {app}
  WithDockerfile = {legacy}
  Images = {i1, i2}
  Builders = {b1}
  UrlAttempts = 2
  IpAttempts = 2
  ProbeAttempts = 1
  StopAttempts = 2
  Args <- MCArgs
  Flows <- MCFlows
  Sessions <- MCSessions

SPECIFICATION Spec
CHECK_DEADLOCK FALSE
INVARIANTS
  TypeOK
  NothingLeftBehind
  DeploysWhatItWasGiven
  FlagRestored
PROPERTIES
  EveryProgramEnds
