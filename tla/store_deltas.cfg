SPECIFICATION Spec
CONSTANTS
  a = a
  b = b
  c = c
  Garbage = Garbage
  None = None
  Failed = Failed
  NotTree = NotTree
  Ids <- MCIds
  Packs <- MCPacks
  Offsets <- MCOffsets
  Kind <- MCKind
  Size <- MCSize
  Repositories <- AnyRepositories
  MaxDeltaDepth = 2
  MaxObjects = 2
  MaxObjectBytes = 3
  MaxCommits = 1
  MaxTrees = 1
  MaxTreeBytes = 3
  MaxAsks = 2
  MaxChanges = 0
INVARIANTS StoreInv StackBounded ReadableIsFound
PROPERTY Answered
