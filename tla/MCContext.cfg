\* Three calls of an init function, more attempts than instances of the device, and
\* fewer instances than calls.  The process may stop: its contexts are all destroyed.
CONSTANTS
  Contexts = {1, 2, 3}
  MaxOpens = 3
  MaxInstances = 2
  MaxPackets = 2
SPECIFICATION ContextSpec
INVARIANTS ReadyIsUsable OnlyTheseAreLeft
PROPERTIES InitReturns
CHECK_DEADLOCK FALSE
