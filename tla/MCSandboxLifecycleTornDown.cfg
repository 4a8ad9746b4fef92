SPECIFICATION Spec
CONSTANTS
  s1 = s1
  h1 = h1
  h2 = h2
  NoSandbox = NoSandbox
  Sandboxes = {s1}
  Handlers = {h1, h2}
  Ops = {"create", "exec", "delete"}
  Modes = {"compat", "host"}
  MaxCrashes = 0
  MaxVanish = 0
SYMMETRY Symmetry
INVARIANTS
  DestroyedEventMeansTornDown
CHECK_DEADLOCK FALSE
