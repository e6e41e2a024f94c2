SPECIFICATION Spec
CONSTANTS
  MediumPairs = 2
  HighPairs = 3
  SeedFactor = 1
  SeedFloor = 2
  NoThreshold = NoThreshold
  Failed = Failed
  Inputs <- MCInputs
  Worlds <- MCWorlds
INVARIANT CoverageDescribesAudit
