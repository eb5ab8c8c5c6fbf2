CONSTANTS
  Messages <- MCMessages
  Mistagged <- MCMistagged
  NoMessage = NoMessage
  PktPayload = 2
  BTU = 1
  TxResults = {"ok", "EBUSY", "error"}
  Toggles = TRUE
  MaxRegister = 2
SPECIFICATION LiveSpec
INVARIANTS TypeOK Accounted WireOrder EndMeansWhole PositionMatchesWire
PROPERTIES PendingIsReleased
CHECK_DEADLOCK FALSE
