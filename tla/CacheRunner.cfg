CONSTANTS
  click = click
  flask = flask
  r1 = r1
  r2 = r2
  r3 = r3
  py2 = py2
  py3 = py3
  None = None
  Runs = {r1, r2, r3}
  Args <- MCArgs
  Env <- MCEnv
  Packages = {click, flask}
  Envs = {py2, py3}
  OldMapping <- MCOldMapping
  MaxFaults <- MCFaults

SPECIFICATION Spec
CHECK_DEADLOCK FALSE
INVARIANTS
  TypeOK
  SuccessPopulates
  MappingTruthful
PROPERTIES
  MappingRemembers
