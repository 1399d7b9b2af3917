SPECIFICATION SerialSpec
CONSTANTS
  Proc = {d1, d2, d3}
  Pid = {p1, p2, p3}
  Stop = {c1, c2}
  None = None
CHECK_DEADLOCK FALSE
SYMMETRY Symmetry
INVARIANTS
  TypeOK
  OneDaemon
  FilesNameTheDaemon
  LeftoversAreNeverFatal
