CONSTANTS
  click = click
  flask = flask
  six = six
  b1 = b1
  b2 = b2
  b3 = b3
  b4 = b4
  b5 = b5
  b6 = b6
  b7 = b7
  py2 = py2
  py3 = py3
  appRepo = appRepo
  globalRepo = globalRepo
  Interp = Interp
  BaseLayer = BaseLayer
  AppLayer = AppLayer
  NoLayer = NoLayer
  NoImage = NoImage
  Config <- ClockConfig
  Together <- ClockGroups
  Builds = {b1, b2, b3, b4, b5, b6, b7}
  Deps = {click}
  Envs = {py3}
  Repos = {appRepo, globalRepo}
  GlobalRepo = globalRepo
  Threads = 1
  TTL = 2
  TicksPerHour = 2
  MaxTime = 4
  MaxFaults <- ClockFaults

SPECIFICATION Spec
CHECK_DEADLOCK FALSE
PROPERTIES
  NoStaleLayer
  NoNeedlessRebuild
