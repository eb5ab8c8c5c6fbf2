\* The run ends when all packets are sent and read.
CONSTANTS
  Sizes <- MCSizes
  RingSize = 4
  PktSize = 3
  HdrSize = 1
  MaxAttempts = 3
SPECIFICATION Spec
INVARIANTS OutcomeIsTrue HandedOnce
PROPERTIES WholeIfAlone
CHECK_DEADLOCK FALSE
