SPECIFICATION MCSpec
CONSTANTS
  Commits <- MCCommits
  t = t
  s = s
  u = u
  x = x
  y = y
  Paths = {t, s, u}
  Entries = {x, y}
  Absent = Absent
  MaxRenameEntries = 2
  Repositories <- AllRepositories
  Queries <- AllQueries
  ScanDefault = 3
  MinScan = 2
  MinTarget = 2
  Stall = 2
SYMMETRY Blobs
INVARIANTS
  WalkInv
  SkewIndependent
  BoundedKeepsNewest
  FollowsLineage
  CompanionsAreHistory
  NoEarlyGiveUp
