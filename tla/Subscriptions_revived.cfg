SPECIFICATION Spec
CONSTANTS
  Subs = {s1}
  Requests = {q1, q2}
  MaxFaults = 0
PROPERTIES CancelledIsFinal
CHECK_DEADLOCK FALSE
