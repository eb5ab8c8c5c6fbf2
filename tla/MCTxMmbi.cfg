CONSTANTS
  Messages <- MCMessages
  Mistagged <- MCMistagged
  NoMessage = NoMessage
  PktPayload = 2
  BTU = 1
  TxResults = {"ok", "error"}
  Toggles = FALSE
  MaxRegister = 2
SPECIFICATION LiveSpec
PROPERTIES PendingIsReleased
CHECK_DEADLOCK FALSE
