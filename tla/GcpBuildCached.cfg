CONSTANTS
  left = left
  right = right
  mirror = mirror
  py3 = py3
  appRepo = appRepo
  bare = bare
  copied = copied
  locked = locked
  stale = stale
  outdated = outdated
  private = private
  yarned = yarned
  empty = empty
  phpBare = phpBare
  phpLocked = phpLocked
  script = script
  cloned = cloned
  b1 = b1
  b2 = b2
  b3 = b3
  b4 = b4
  b5 = b5
  b6 = b6
  b7 = b7
  b8 = b8
  b9 = b9
  b10 = b10
  b11 = b11
  b12 = b12
  b13 = b13
  b14 = b14
  Absent = Absent
  Empty = Empty
  NoModules = NoModules
  PartModules = PartModules
  BaseLayer = BaseLayer
  NoImage = NoImage
  NoPart = NoPart
  NoLayer = NoLayer
  Given <- Projects
  Used = {copied, empty}
  Workspaces = {bare, copied, locked, stale, outdated, private, yarned, empty, phpBare, phpLocked, script, cloned}
  Needs = {left, right}
  Npmrcs = {mirror}
  Envs = {py3}
  GlobalRepo = appRepo
  Repos = {appRepo}
  TTL = 1
  TicksPerHour = 1
  Builds = {b1, b2}
  Config <- TwiceConfig
  Together <- Alone
  MaxRelease = 0
  MaxFaults <- NoFaults
  MaxTime = 0

SPECIFICATION Spec
CHECK_DEADLOCK FALSE
INVARIANTS
  GcpOutputDelivered
