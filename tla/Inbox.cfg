SPECIFICATION Spec
CONSTANTS
  Conn = {c1, c2}
  Pid = {p1}
  SessionId = {s1}
  Profile = {prof}
  None = None
  Broadcast = Broadcast
  Limit = {0, 1}
  MaxPosts = 2
INVARIANTS
  TypeOK
  PolledInOrder
PROPERTIES
  QueueOnlyGrows
  NoMessageStaysBehind
