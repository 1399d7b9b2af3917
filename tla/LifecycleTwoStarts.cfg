SPECIFICATION Spec
CONSTANTS
  Proc = {d1, d2}
  Pid = {p1, p2}
  Stop = {}
  None = None
CHECK_DEADLOCK FALSE
INVARIANT OneDaemon
