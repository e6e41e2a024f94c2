SPECIFICATION CommandsSpec
CONSTANTS
  MediumPairs = 2
  HighPairs = 3
  SeedFactor = 1
  SeedFloor = 3
  Logs <- MCLogs
  TestCommits = 2
  MaxFiles = 3
  Top = 1
  Minimums <- MCMinimums
  DiffFiles <- MCFiles
  Histories <- MCHistories
  Diffs <- MCDiffs
  Exclusions <- MCExclusions
  DiffEvidence = 2
  Paths <- MCPaths
  MaxCommits = 2
  PairEvidence = 1
  MaxLog = 3
INVARIANTS
  EvalMeasuresAudit
  EvalSeesNoFuture
  DiffIsWhole
  DiffEvidenceIsNewest
  ExplainIsEvidence
CHECK_DEADLOCK FALSE
