SPECIFICATION Spec
CONSTANTS
  b1 = b1
  b2 = b2
  c1 = c1
  c2 = c2
  c2b = c2b
  Kinds = {"kubernetes"}
  Configs = {c1, c2}
  Bundle <- MCBundle
  RoleSelections = {roles}
  Callers = {caller}
  UnitFiles <- MCUnitFiles
  MaxExecutions = 5
  None = None
INVARIANT ActivationNeedsRestore
CHECK_DEADLOCK FALSE
