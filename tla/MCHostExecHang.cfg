SPECIFICATION FairSpec
CONSTANTS
  Kinds = {"run", "stream"}
  Background = {TRUE}
  Stalling = {FALSE}
  MaxOutput = 2
  ChunkSize = 2
  PipeSize = 2
  MaxBytes = 2
PROPERTIES
  EveryRequestEnds
CHECK_DEADLOCK FALSE
