SPECIFICATION FairSpec
CONSTANTS
  Initiator = initiator
  Responder = responder
  Stranger = stranger
  RotateAt = 4
  M_PONG_MISSING = 1
  PingPolls = 2
  PongSizes = {0, 1}
  MaxOther <- MCMaxOther
  MaxPing <- MCMaxPing
  PingInitiator = 1
  PingResponder = 0
  OtherInitiator = 1
  OtherResponder = 1
  MaxFaults = 1
CHECK_DEADLOCK FALSE
INVARIANTS Authenticated InOrder NonceOnce RotatesTogether InitFirst
PROPERTIES DeadPeerNoticed
