SPECIFICATION PipelineSpec
CONSTANTS
  e1 = e1  p1 = p1  c1 = c1  c2 = c2  r1 = r1  r2 = r2  w1 = w1  w2 = w2
  Absent = Absent
  Editions = {e1}
  Paths = {p1}
  PathOf <- MCPathOf
  Sums = {c1, c2}
  Runs = {r1}
  Workers = {w1}
  PoolSize = 2
  MaxAttempts = 2
  MaxFaults = 1
  MaxReindex = 0
  KeepsBucket = TRUE
  Backfills = {}
  Periods = {}
  Lookback = 2
  MaxRevisions = 1
INVARIANTS ActsMatchChecksum
