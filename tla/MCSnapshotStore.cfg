SPECIFICATION Spec
CONSTANTS
  s1 = s1
  n1 = n1
  q1 = q1
  q2 = q2
  Sandboxes = {s1}
  Names = {n1}
  Requests = {q1, q2}
  NumFiles = 2
  Bytes <- OneByte
  Drafts <- RenamedOrTwo
  Pruner = TRUE
  MaxTaken = 2
  MaxCrashes = 1
SYMMETRY Symmetry
INVARIANTS
  TypeOK
  AddressIsTrue
  PointerIsBacked
CHECK_DEADLOCK FALSE
