CONSTANTS
  click = click
  flask = flask
  six = six
  b1 = b1
  b2 = b2
  b3 = b3
  b4 = b4
  b5 = b5
  b6 = b6
  b7 = b7
  py2 = py2
  py3 = py3
  appRepo = appRepo
  globalRepo = globalRepo
  Interp = Interp
  BaseLayer = BaseLayer
  AppLayer = AppLayer
  NoLayer = NoLayer
  NoImage = NoImage
  Config <- PoolConfig
  Together <- PoolGroups
  Builds = {b1, b2, b3, b4, b5}
  Deps = {click, flask, six}
  Envs = {py2, py3}
  Repos = {appRepo, globalRepo}
  GlobalRepo = globalRepo
  Threads = 2
  TTL = 1
  TicksPerHour = 2
  MaxTime = 0
  MaxFaults <- PoolFaults

SPECIFICATION FairSpec
CHECK_DEADLOCK FALSE
INVARIANTS
  TypeOK
  StoredComplete
  CacheSound
  QuietAfterJoin
  FailsOnlyOnFault
  FinishedLayersCached
PROPERTIES
  ImplementsImageBuild
  EveryBuildEnds
