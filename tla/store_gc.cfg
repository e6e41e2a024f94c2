SPECIFICATION Spec
CONSTANTS
  a = a
  b = b
  c = c
  Garbage = Garbage
  None = None
  Failed = Failed
  NotTree = NotTree
  Ids <- MCIds
  Packs <- MCPacks
  Offsets <- MCOffsets
  Kind <- MCKind
  Size <- MCSize
  Repositories <- ChangingRepositories
  MaxDeltaDepth = 2
  MaxObjects = 2
  MaxObjectBytes = 5
  MaxCommits = 1
  MaxTrees = 1
  MaxTreeBytes = 7
  MaxAsks = 2
  MaxChanges = 2
INVARIANTS ReadableIsFound CachesBounded
