SPECIFICATION Spec
CONSTANTS
  Conn = {c1, c2, c3}
  MaxCalls = 3
  None = None
CHECK_DEADLOCK FALSE
INVARIANTS
  TypeOK
  ReplyMatchesCall
PROPERTIES
  CallsRunAtMostOnce
  CallsEnd
