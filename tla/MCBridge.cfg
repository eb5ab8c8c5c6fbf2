\* The bridge may stop: the packets run out, and it may fail or be destroyed.
CONSTANTS
  Inbound <- MCInbound
  PktPayload <- MCPktPayload
  Ctxs = 2
  MaxMessageSize = 3
  NoMessage = NoMessage
SPECIFICATION Spec
INVARIANTS ForwardedInOrder EveryMessageHasItsFate PutTogetherOnOneBus
CHECK_DEADLOCK FALSE
