SPECIFICATION FairSpec
CONSTANTS
  s1 = s1
  h1 = h1
  h2 = h2
  NoSandbox = NoSandbox
  Sandboxes = {s1}
  Handlers = {h1, h2}
  Ops = {"create", "exec", "delete"}
  Modes = {"compat"}
  MaxCrashes = 1
  MaxVanish = 1
PROPERTIES
  BusyEnds
CHECK_DEADLOCK FALSE
