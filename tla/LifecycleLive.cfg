SPECIFICATION Spec
CONSTANTS
  Proc = {d1, d2}
  Pid = {p1, p2}
  Stop = {c1}
  None = None
CHECK_DEADLOCK FALSE
PROPERTIES
  SignalsEndDaemons
  StartsSettle
