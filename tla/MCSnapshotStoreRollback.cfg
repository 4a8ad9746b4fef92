SPECIFICATION Spec
CONSTANTS
  s1 = s1
  n1 = n1
  n2 = n2
  q1 = q1
  Sandboxes = {s1}
  Names = {n1, n2}
  Requests = {q1}
  NumFiles = 2
  Bytes <- OneByte
  Drafts <- Renamed
  Pruner = FALSE
  MaxTaken = 2
  MaxCrashes = 0
INVARIANTS
  RollbackFetchesTheSnapshot
CHECK_DEADLOCK FALSE
