\* Both applications send, the BMC's callback answers, and either process may exit.
\* The system may stop: the applications end.
CONSTANTS
  Packets = 2
  Capacity <- RoomForTheBmc
  MaxSends <- BothSend
  MaxMessages = 4
  Answering = {"bmc"}
  Exits = {"host", "bmc"}
SPECIFICATION PipeSpec
INVARIANTS TypeOK PollInOrder BusyOnlyAfterFailure
PROPERTIES SendReturns EverythingPolled
CHECK_DEADLOCK FALSE
