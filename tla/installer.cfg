SPECIFICATION MCSpec
CONSTANTS
  Installers = {1, 2, 3}
  Versions = {"old", "new", "other"}
  Source <- MCSource
  Alone = FALSE
  RemoveFails = FALSE
INVARIANT DestWhole
PROPERTIES NeverLost RerunsEndWell
CHECK_DEADLOCK FALSE
