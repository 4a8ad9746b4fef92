------------------------------- MODULE MCParts -------------------------------
(***************************************************************************)
(* A small instance of every part.                                         *)
(***************************************************************************)
EXTENDS Parts, TLC

Symmetry == Permutations(Actors)

\* Two daemons besides the one whose contexts change, each with an active
\* context of its own; one definition that Validate refuses.
MCDaemons == {"d1", "d2", "d3"}
There == [to |-> "d2", transport |-> "http", auth |-> "bearer-token", env |-> TRUE]
Bad == [to |-> "d2", transport |-> "http", auth |-> "none", env |-> FALSE]
Far == [to |-> "d3", transport |-> "ssh", auth |-> "ssh-agent", env |-> FALSE]
MCContextDefinitions == {There, Bad, Far}
MCElsewhere == [d \in {"d2", "d3"} |->
  [active |-> "a", contexts |-> [n \in {"a"} |-> IF d = "d2" THEN Far ELSE There]]]

\* One bundle that can be imported and one whose template has problems.
MCBundles == {[digests |-> "match", type |-> "template", layers |-> {d}] : d \in {"own", "odd"}}

\* One ID that is registered for either of two hosts; the third host is on
\* the default deny list and among the sandbox's extra hosts.
MCProxyHosts == {"git", "sub.git", "meta"}
MCWithin == {<<h, h>> : h \in MCProxyHosts} \union {<<"sub.git", "git">>}
MCConfig == [s \in {"s1"} |-> [mode |-> "restricted", allow |-> {"meta"}]]
MCRegistrations == {[id |-> "c1", hosts |-> {"git"}, value |-> "v1"],
                    [id |-> "c1", hosts |-> {"sub.git"}, value |-> "v2"]}

\* The remote has one of the two files, and the other is an output.
MCFilePaths == {"src", "dist"}
MCRemote == [p \in MCFilePaths |-> IF p = "src" THEN "c1" ELSE "absent"]

MCGuestPaths == {"a/x", "y"}
MCBase == [p \in MCGuestPaths |-> IF p = "y" THEN "y" ELSE "x"]
MCTemplate == [p \in MCGuestPaths |-> IF p = "y" THEN "2" ELSE "absent"]

\* One client at a time; requests it gave up run beside its next command.
MCBoxIds == {"b1", "b2"}
MCBoxStates == [i \in MCBoxIds |-> IF i = "b1" THEN "here" ELSE "new"]
=============================================================================
