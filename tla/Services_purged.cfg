SPECIFICATION ServicesSpec
CONSTANTS
  q1 = q1  q2 = q2  c1 = c1  c2 = c2  d1 = d1  d2 = d2  k1 = k1  k2 = k2
  own = own  none = none  None = None  a = a  b = b
  Subs = {s1, s2}  Requests = {q1, q2}  MaxFaults = 2
  Clients = {c1, c2}  Codes = {d1, d2}  Keys = {k1, k2}
  Uris <- MCUris  Registered <- MCRegistered  Verifiers = {verifier}
  Resources = {none, own, other}  Resource = own  NoResource = none
  Callers = {p1, p2}  PerClient = 2  Total = 3  Window = 2  MaxTime = 5
  Rows = {d1, d2}  Instances = {q1, q2}  MaxXid = 2
  Pages = {1, 2}  Pdfs = {a, b}  Scanned <- MCScanned  Readers = {q1, q2}
  Registers <- MCRegisters  Listed = {a, b}  RegisterOf <- MCRegisterOf  EndsAt <- MCEndsAt
  MaxDay = 3  Failures = 1
SYMMETRY MCSymmetry
INVARIANTS ExchangedClientStays
CHECK_DEADLOCK FALSE
