SPECIFICATION RecordsSpec
CONSTANTS
  a = a  x = x  crlf = crlf
  Absent = Absent  Empty = Empty  None = None  Cut = Cut
  Paths = {p1}
  Sums = {c1, c2}
  Workers = {w1, w2}
  PoolSize = 2
  MaxAttempts = 2
  MaxFaults = 2
  MaxReindex = 1
  MaxFetches = 3
  Sources <- MCSources
  Parts = {1, 2}
  Good = {a}
  Bad = {x}
  Editions = {g1, g2}
  Bodies = {x, crlf}
  Entities = {ent}
  AsRead <- MCAsRead
  Programs = {a, x}
  Files <- MCFiles
  Reindexers = {r1}
  Indexers = {w1}
  Keys = {1, 2}
  Edition = ed
  MaxAgain = 2
  MaxChanges = 2
  Failures = 1
INVARIANTS
  IndexSafe LoadsSafe DumpSafe MigrationsSafe LinksSafe
PROPERTIES
  IndexFetchedIsIndexed LoadsCatchUp DumpCatchesUp EveryoneEnds
CHECK_DEADLOCK FALSE
