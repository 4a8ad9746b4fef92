SPECIFICATION FairSpec
CONSTANTS
  Kinds = {"run", "stream"}
  Background = {TRUE}
  Stalling = {TRUE}
  MaxOutput = 3
  ChunkSize = 2
  PipeSize = 3
  MaxBytes = 4
INVARIANTS
  TypeOK
  BudgetKept
  TruncatedIsExact
PROPERTIES
  RequestEnds
CHECK_DEADLOCK FALSE
