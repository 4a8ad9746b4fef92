SPECIFICATION FairSpec
CONSTANTS
  r1 = r1
  r2 = r2
  s1 = s1
  c1 = c1
  c2 = c2
  NoRun = NoRun
  Runs = {r1, r2}
  Sandboxes = {s1}
  Closers = {c1, c2}
  Outcomes = {"CANCELLED", "FAILED"}
  MaxCrashes = 1
INVARIANTS
  TypeOK
  CompletedOnce
PROPERTIES
  ImplementsRunRecord
  RunsEnd
CHECK_DEADLOCK FALSE
