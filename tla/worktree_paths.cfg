SPECIFICATION Spec
CONSTANTS
  Paths <- ThreePaths
  Contents = {x, y}
  None = None
  Intent = Intent
INVARIANTS HeadPathOfNewNames EachChangeOnce
CHECK_DEADLOCK FALSE
