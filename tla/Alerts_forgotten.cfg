SPECIFICATION Spec
CONSTANTS
  s1 = s1  s2 = s2  g1 = g1  m1 = m1  m2 = m2  d1 = d1  d2 = d2  b1 = b1  b2 = b2
  NoHits = NoHits  NoBody = NoBody  NoOne = NoOne
  Subs = {s1}
  Gazettes = {g1}
  Messages = {m1, m2}
  Deliveries = {d1, d2}
  Bodies = {b1, b2}
  BrokenFilters = {}
  EventOf <- MCEventOf
  Matches <- MCMatches
  SlowHolders = FALSE
  MaxAttempts = 1
  MaxFaults = 1
  MaxReindex = 1
  MaxForgets = 1
INVARIANTS AtMostOneAlert
CHECK_DEADLOCK FALSE
