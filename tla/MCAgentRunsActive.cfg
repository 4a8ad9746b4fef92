SPECIFICATION Spec
CONSTANTS
  r1 = r1
  r2 = r2
  s1 = s1
  c1 = c1
  NoRun = NoRun
  Runs = {r1, r2}
  Sandboxes = {s1}
  Closers = {c1}
  Outcomes = {"CANCELLED"}
  MaxCrashes = 0
SYMMETRY Symmetry
INVARIANTS
  OneActiveRun
CHECK_DEADLOCK FALSE
