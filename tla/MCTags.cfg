CONSTANTS
  NumSlots = 3
  NumTags = 2
  TagTimeout = 2
  Locals = {8, 9}
  Remotes = {0, 20}
  MaxTime = 5
SPECIFICATION TagsSpec
INVARIANTS TagTypes WaitingTagsUnique
PROPERTIES WaitingTagsKept LastTagNotReused
