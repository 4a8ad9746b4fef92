--------------------------- MODULE MCSnapshotStore ---------------------------
(* Small instances of SnapshotStore: every file a command writes holds "a".   *)
EXTENDS SnapshotStore, TLC

OneByte == {<<"a">>}

\* The same bytes under one name or the other: two trees of one digest.
Renamed == {[f \in {1} |-> <<"a">>], [f \in {2} |-> <<"a">>]}

\* And a tree of two files.
RenamedOrTwo == Renamed \union {[f \in {1, 2} |-> <<"a">>]}

Symmetry == Permutations(Requests)
=============================================================================
