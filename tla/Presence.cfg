SPECIFICATION Spec
CONSTANTS
  Pid = {p1, p2}
  SessionId = {s1, s2}
  Profile <- MCProfile
  Token <- MCToken
  Path <- MCPath
  Branch = {main}
  MaxTime = 2
  None = None
SYMMETRY Symmetry
INVARIANTS
  TypeOK
  SnapshotWithinSession
  DiscoveryMissesNobody
