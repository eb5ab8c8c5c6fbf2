CONSTANTS
  Messages <- MCMessages
  Mistagged = {}
  NoMessage = NoMessage
  PktPayload = 1
  BTU = 1
  Toggles = TRUE
  MaxRegister = 1
  TxResults = {"ok", "EBUSY", "error"}
  Ctxs = 2
  MaxMessageSize = 4
  MaxLost = 1
SPECIFICATION TransferSpec
INVARIANTS LossIsContained
PROPERTIES ImplementsChannel EventuallyDelivered
CHECK_DEADLOCK FALSE
