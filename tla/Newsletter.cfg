CONSTANTS
  Properties = {p1, p2}
  Addresses = {a1}
  RentedOut = {p1}
  Filters = {"rent", "both"}
  threshold = 1
  MaxTime = 2
  MaxTokens = 2
SPECIFICATION Spec
INVARIANTS
  RepeatsOnlyByOverlap
  NothingSkipped
  CanUnsubscribe
CHECK_DEADLOCK FALSE
