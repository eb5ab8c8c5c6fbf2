\* The conversation may end: the requests, the clock and the links run out.
CONSTANTS
  NumSlots = 2
  NumTags = 2
  TagTimeout = 1
  MaxTime = 2
  Types = {0, 1, 2}
  MaxTypes = 2
  InitialEid = 9
  RequesterEid = 8
  Requests <- MCRequests
  MaxCalls = 2
SPECIFICATION Spec
INVARIANTS TypesAreSupported AnswersAreTrue
PROPERTIES ReleasedByOwnAnswer AnswerReleasesTag
CHECK_DEADLOCK FALSE
