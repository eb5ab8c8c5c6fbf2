CONSTANTS
  Ctxs = 2
  Packets <- MCPackets
  Eids = {8, 12, 5}
  MessageSizes = {2, 3}
SPECIFICATION Spec
INVARIANTS TypeOK OneContextPerKey ContextsWellFormed DeliveredWellFormed
PROPERTIES ContextsAreNotStolen OnlyOwnContext
