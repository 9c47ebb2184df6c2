SPECIFICATION Spec
CONSTANTS
  s1 = s1  s2 = s2  g1 = g1  m1 = m1  m2 = m2  d1 = d1  d2 = d2  b1 = b1  b2 = b2
  NoHits = NoHits  NoBody = NoBody  NoOne = NoOne
  Subs = {s1}
  Gazettes = {g1}
  Messages = {m1, m2}
  Deliveries = {d1, d2}
  Bodies = {b1, b2}
  BrokenFilters = {}
  EventOf <- MCEventOf
  Matches <- MCMatches
  SlowHolders = TRUE
  MaxAttempts = 3
  MaxFaults = 2
  MaxReindex = 1
  MaxForgets = 1
SYMMETRY DeliverySymmetry
INVARIANTS TypeOK OneEmailPerKeyLife SentWasAccepted AckLeavesNoAlertBehind
PROPERTIES SentIsFinal ImplementsPromise
CHECK_DEADLOCK FALSE
