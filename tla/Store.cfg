SPECIFICATION Spec
CONSTANTS
  None = None
  s1 = s1
  s2 = s2
  p1 = p1
  m1 = m1
  m2 = m2
  h1 = h1
  SessionId = {s1, s2}
  Pid = {p1}
  ReservationId = {r1}
  MessageId = {m1, m2}
  ThreadId = {h1}
  Custom = {"codex"}
  Registered <- MCRegistered
  PidOf <- MCPidOf
  Recipient <- MCRecipient
  ThreadOf <- MCThreadOf
INVARIANTS
  TypeOK
  ReferencesResolve
  NoOpenTransaction
  TextIsExact
PROPERTIES
  AnswersAreCommitted
  ChangesAreWhole
