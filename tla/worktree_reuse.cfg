SPECIFICATION Spec
CONSTANTS
  Paths <- ThreePaths
  Contents = {x, y}
  None = None
  Intent = Intent
INVARIANTS HeadPathPreserved
CHECK_DEADLOCK FALSE
