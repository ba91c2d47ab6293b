SPECIFICATION MCSpec
CONSTANTS
  b1 = b1
  b2 = b2
  c1 = c1
  c2 = c2
  c2b = c2b
  Kinds = {"linux", "kubernetes"}
  Configs = {c1, c2, c2b}
  Bundle <- MCBundle
  RoleSelections = {roles}
  Callers = {caller}
  UnitFiles <- MCUnitFiles
  MaxExecutions = 4
  None = None
  Restores = {r1, r2}
  ObjectCount = 2
  MaxApplies = 3
  MaxCleanups = 3
  Other = Other
  Nothing = Nothing
SYMMETRY MCSymmetry
INVARIANTS
  SettledIsTrue
  RollbackIsSafe
  ResumeIsOffered
  CleanupIsComplete
CHECK_DEADLOCK FALSE
