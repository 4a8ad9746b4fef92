SPECIFICATION Spec
CONSTANTS
  s1 = s1
  h1 = h1
  NoSandbox = NoSandbox
  Sandboxes = {s1}
  Handlers = {h1}
  Ops = {"create", "exec", "delete"}
  Modes = {"compat", "host"}
  MaxCrashes = 1
  MaxVanish = 0
SYMMETRY Symmetry
INVARIANTS
  OrphansCollected
CHECK_DEADLOCK FALSE
