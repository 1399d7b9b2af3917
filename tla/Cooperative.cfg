SPECIFICATION CoopSpec
CONSTANTS
  None = None
  Conn = {c1, c2}
  Pid = {p1, p2}
  SessionId = {s1, s2}
  Profile = {f1}
  ReservationId = {r1, r2}
  Path = {a}
  Ttl = {1}
  TwoTo63 = 8
  MaxSeconds = 3
  MaxTime = 1
SYMMETRY Symmetry
INVARIANTS
  AgentsTypeOK
  NoTwoEditors
  LeaseWithinReservation
  SessionsAreOwn
PROPERTIES
  LocksAreKept
CHECK_DEADLOCK FALSE
