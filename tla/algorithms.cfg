SPECIFICATION AlgorithmsSpec
CONSTANTS
  Others = {1, 2, 3}
  MaxFiles = 3
  Unit = 12
  Share <- MCShare
  Decayed <- MCDecayed
  Horizon = 2
  Jobs = {1, 2, 3, 4}
  Changes <- MCChanges
  MaxCommits = 3
INVARIANTS
  ScoringIsOne
  DiffIsRight
  LogIsRead
  PathsAreUnderstood
CHECK_DEADLOCK FALSE
