----------------------------- MODULE MCAgentRuns -----------------------------
(* A small instance of AgentRuns: the symmetry of its model values.           *)
EXTENDS AgentRuns, TLC

Symmetry == Permutations(Runs) \union Permutations(Closers)
=============================================================================
