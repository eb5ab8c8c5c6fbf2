\* Both applications send messages that are larger than the pipes.
CONSTANTS
  Packets = 3
  Capacity <- LittleRoom
  MaxSends <- BothSend
  MaxMessages = 2
  Answering = {}
  Exits = {}
SPECIFICATION PipeSpec
PROPERTIES SendReturns
CHECK_DEADLOCK FALSE
