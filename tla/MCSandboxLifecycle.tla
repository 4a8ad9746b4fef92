--------------------------- MODULE MCSandboxLifecycle ---------------------------
(* A small instance of SandboxLifecycle: the symmetry of its model values.    *)
EXTENDS SandboxLifecycle, TLC

Symmetry == Permutations(Sandboxes) \union Permutations(Handlers)
=============================================================================
