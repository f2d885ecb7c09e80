CONSTANTS
  click = click
  flask = flask
  six = six
  base = base
  dev = dev
  b1 = b1
  b2 = b2
  b3 = b3
  b4 = b4
  b5 = b5
  b6 = b6
  b7 = b7
  b8 = b8
  b9 = b9
  b10 = b10
  pip1 = pip1
  py3 = py3
  appRepo = appRepo
  globalRepo = globalRepo
  Builds = {b1, b2, b3, b4, b5, b6, b7, b8, b9, b10}
  Config <- MCConfig
  Together <- Groups
  MaxFaults <- MCFaults
  Packages = {click, flask, six}
  FileNames = {base, dev}
  Pipfiles = {pip1}
  Absent = Absent
  Empty = Empty
  NoName = NoName
  Interp = Interp
  BaseLayer = BaseLayer
  AppLayer = AppLayer
  NoImage = NoImage
  NoLayer = NoLayer
  Envs = {py3}
  Repos = {appRepo, globalRepo}
  GlobalRepo = globalRepo
  Threads = 2
  TTL = 1
  TicksPerHour = 1

SPECIFICATION Spec
CHECK_DEADLOCK FALSE
INVARIANTS
  TypeOK
  CachedWhole
PROPERTIES
  ImplementsImageBuild
