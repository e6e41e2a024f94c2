SPECIFICATION ReadersSpec
CONSTANTS
  Printed <- MCPrinted
  Seeds <- MCSeeds
  Jobs = 4
  Repos <- MCRepos
  Targets <- MCTargets
  HashChunk = 2
  FollowJobs = 2
  Histories <- MCHistories
  Queries <- MCQueries
  PerJob = 1
  LeastBatch = 2
INVARIANTS
  OkIsSerial
  FollowedIsEach
  GixIsReference
PROPERTIES
  EveryReaderAnswers
CHECK_DEADLOCK FALSE
