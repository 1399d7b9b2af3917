SPECIFICATION Spec
CONSTANTS
  None = None
  Conn = {c1}
  Pid = {p1}
  SessionId = {s1}
  Profile = {f1}
  ReservationId = {r1}
  Path = {a}
  Ttl = {1}
  TwoTo63 = 8
  MaxSeconds = 3
  MaxTime = 1
INVARIANT ReservationsDieWithSession
