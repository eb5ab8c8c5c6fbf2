CONSTANTS
  RING_BUFFER_SIZE = 3
  Byte = {1, 2}
  Writes <- MCWrites
  Lengths = {1, 4}
SPECIFICATION Spec
INVARIANTS TypeOK IndicesAgree
PROPERTIES RingsAreFifos
