SPECIFICATION Spec
CONSTANTS
  s1 = s1
  s2 = s2
  h1 = h1
  h2 = h2
  NoSandbox = NoSandbox
  Sandboxes = {s1, s2}
  Handlers = {h1, h2}
  Ops = {"create", "exec", "shell", "delete"}
  Modes = {"compat", "host"}
  MaxCrashes = 2
  MaxVanish = 1
SYMMETRY Symmetry
INVARIANTS
  TypeOK
  BusyHasOwner
  DestroyedEventIsFinal
  WarmIsBackedAtStartup
PROPERTIES
  NoResurrection
  DestroyedNeverRevives
  ImplementsRecord
CHECK_DEADLOCK FALSE
