SPECIFICATION TopicSpec
CONSTANTS
  e1 = e1  p1 = p1  c1 = c1  c2 = c2  r1 = r1  r2 = r2  w1 = w1  w2 = w2
  s1 = s1  s2 = s2  g1 = g1  m1 = m1  m2 = m2  d1 = d1  d2 = d2  b1 = b1  b2 = b2
  Absent = Absent
  Editions = {e1}
  Paths = {p1}
  PathOf <- MCPathOf
  Sums = {c1, c2}
  Runs = {r1}
  Workers = {w1, w2}
  PoolSize = 2
  MaxAttempts = 2
  MaxFaults = 1
  MaxReindex = 0
  KeepsBucket = TRUE
  Backfills = {}
  Periods = {}
  Lookback = 2
  MaxRevisions = 1
  NoHits = NoHits  NoBody = NoBody  NoOne = NoOne
  Subs = {s1, s2}
  Gazettes = {g1}
  Messages = {m1}
  Deliveries = {d1, d2}
  Bodies = {b1, b2}
  BrokenFilters = {s2}
  EventOf <- MCEventOf
  Matches <- MCMatches
  AlertAttempts = 2
  Reindexations = 1
INVARIANTS MarkedIsInHand OneHolder
PROPERTIES EveryEditionSettles AlertArrives
CHECK_DEADLOCK FALSE
