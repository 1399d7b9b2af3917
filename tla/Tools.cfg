SPECIFICATION Spec
CONSTANTS
  Bridge = bridge
  Cli = cli
  Agent = agent
  SessionId = {s1}
  ReservationId = {r1}
  MessageId = {m1}
  Variant <- MCVariant
  Together <- MCTogether
  None = None
INVARIANTS
  AdvertisedToolsWork
