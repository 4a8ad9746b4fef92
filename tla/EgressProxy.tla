----------------------------- MODULE EgressProxy -----------------------------
(***************************************************************************)
(* The daemon's egress proxy (pkg/network/proxy_server.go) with what it    *)
(* asks: the policy of a sandbox (scope.go, policy.go, daemon.go), the     *)
(* credentials (pkg/secrets/rules.go, pkg/network/credentials.go), which   *)
(* POST /v1/credentials registers, and the egress log of the sandbox       *)
(* (pkg/logs/egress.go), which records the denials.                        *)
(*                                                                         *)
(* The credential store locks each of its steps: registering is two steps, *)
(* and so is the look-up of a value for a host.                            *)
(***************************************************************************)
EXTENDS Naturals, FiniteSets, Sequences

CONSTANTS
  Sandboxes,
  Hosts,
  Within,           \* <<host, domain>>: the host is the domain or below it
  DefaultAllowlist,
  DefaultDeny,
  Config,           \* the network mode and extra hosts each sandbox was made with
  Ids,              \* credential IDs
  Registrations,    \* what clients register: [id, hosts, value]
  Requests,         \* proxied requests in flight
  Clients,          \* registrations in flight
  MaxDenied,        \* bound: lines of a sandbox's egress log
  MaxCrashes        \* bound: failed appends and daemon crashes

NoValue == "none"
CutLine == "cut"        \* an unfinished line at the end of a log
MergedLine == "merged"  \* a cut line and the next one, which nobody can parse
Modes == {"none", "restricted", "open"}

HostAssumption ==
  /\ Sandboxes # {} /\ Hosts # {} /\ IsFiniteSet(Requests)
  /\ {CutLine, MergedLine} \cap Hosts = {}
  /\ Within \subseteq Hosts \X Hosts /\ \A h \in Hosts : <<h, h>> \in Within
  /\ DefaultAllowlist \subseteq Hosts /\ DefaultDeny \subseteq Hosts
  /\ \A s \in Sandboxes : Config[s].mode \in Modes /\ Config[s].allow \subseteq Hosts
RegistrationAssumption ==
  /\ Ids # {}
  /\ \A r \in Registrations : r.id \in Ids /\ r.hosts \subseteq Hosts /\ r.value # NoValue
  /\ \A r, x \in Registrations : r.value = x.value => r = x
  /\ MaxDenied \in Nat /\ MaxCrashes \in Nat

Values == {r.value : r \in Registrations}

VARIABLES
  registered, \* sandboxes the store knows
  hosts,      \* CredentialStore.credentials: the hosts of each ID's rule
  value,      \* CredentialStore.values
  adding,     \* registrations between Add and the setting of the value
  preq,       \* what each proxied request is doing
  egress,     \* egress.jsonl: the hosts denied, oldest first
  answered,   \* history: denials the sandbox was told of, but for those lost with a cut line
  mixed,      \* history: IDs two clients registered at once
  faults

vars == <<registered, hosts, value, adding, preq, egress, answered, mixed, faults>>
creds == <<hosts, value, adding, mixed>>

NoRegistration == [id |-> CHOOSE i \in Ids : TRUE, hosts |-> {}, value |-> NoValue]
Idle == [at |-> "idle", box |-> CHOOSE s \in Sandboxes : TRUE,
         host |-> CHOOSE h \in Hosts : TRUE, ids |-> {}, header |-> NoValue,
         moved |-> FALSE]

TypeOK ==
  /\ registered \subseteq Sandboxes
  /\ hosts \in [Ids -> SUBSET Hosts] /\ value \in [Ids -> Values \union {NoValue}]
  /\ adding \in [Clients -> Registrations \union {NoRegistration}]
  /\ preq \in [Requests ->
       [at : {"idle", "policy", "denied", "look", "resolve", "sent"},
        box : Sandboxes, host : Hosts, ids : SUBSET Ids,
        header : Values \union {NoValue}, moved : BOOLEAN]]
  /\ \A s \in Sandboxes : egress[s] \in Seq(Hosts \union {CutLine, MergedLine})
  /\ answered \in [Sandboxes -> [Hosts -> 0..MaxDenied]]
  /\ mixed \subseteq Ids
  /\ faults \in 0..MaxCrashes

Init ==
  /\ registered = Sandboxes
  /\ hosts = [i \in Ids |-> {}] /\ value = [i \in Ids |-> NoValue]
  /\ adding = [c \in Clients |-> NoRegistration]
  /\ preq = [q \in Requests |-> Idle]
  /\ egress = [s \in Sandboxes |-> <<>>]
  /\ answered = [s \in Sandboxes |-> [h \in Hosts |-> 0]]
  /\ mixed = {} /\ faults = 0

-----------------------------------------------------------------------------
(* The policy of a sandbox.                                                *)

\* DomainList.Contains: the host is listed, or below a listed domain.
Contains(list, h) == \E d \in list : <<h, d>> \in Within

\* PolicyFor: the extra hosts only widen the list of the restricted mode.
PolicyFor(config) ==
  [mode |-> config.mode,
   allow |-> IF config.mode = "restricted" THEN DefaultAllowlist \union config.allow ELSE {}]

\* Policy.IsAllowed: default deny comes first, in every mode.
IsAllowed(p, h) ==
  /\ ~Contains(DefaultDeny, h)
  /\ p.mode = "open" \/ (p.mode = "restricted" /\ Contains(p.allow, h))

-----------------------------------------------------------------------------
(* Registering a credential.                                               *)

Being(i) == {c \in Clients : adding[c] # NoRegistration /\ adding[c].id = i}

\* Requests that hold this ID from a look-up and have not resolved it.
Move(i) == [q \in Requests |->
              IF i \in preq[q].ids THEN [preq[q] EXCEPT !.moved = TRUE] ELSE preq[q]]

\* AddWithValue: Add sets the rule, ...
AddRule(c, r) ==
  /\ adding[c] = NoRegistration
  /\ adding' = [adding EXCEPT ![c] = r]
  /\ hosts' = [hosts EXCEPT ![r.id] = r.hosts]
  /\ mixed' = mixed \union {i \in {r.id} : Being(i) # {}}
  /\ preq' = Move(r.id)
  /\ UNCHANGED <<registered, value, egress, answered, faults>>

\* ... and under another lock the value follows.
SetValue(c) ==
  /\ adding[c] # NoRegistration
  /\ value' = [value EXCEPT ![adding[c].id] = adding[c].value]
  /\ adding' = [adding EXCEPT ![c] = NoRegistration]
  /\ preq' = Move(adding[c].id)
  /\ UNCHANGED <<registered, hosts, egress, answered, mixed, faults>>

-----------------------------------------------------------------------------
(* ProxyServer.ServeHTTP.                                                  *)

Goto(q, step) == preq' = [preq EXCEPT ![q].at = step]

InFlight(s) == {x \in Requests : preq[x] # Idle /\ preq[x].box = s}

\* A request with a sandbox's identity arrives; without one it is 407.
Connect(q, s, h) ==
  /\ preq[q] = Idle
  /\ Len(egress[s]) + Cardinality(InFlight(s)) < MaxDenied
  /\ preq' = [preq EXCEPT ![q] = [Idle EXCEPT !.at = "policy", !.box = s, !.host = h]]
  /\ UNCHANGED <<registered, creds, egress, answered, faults>>

\* Store.Get decides whether there is a policy: none for a deleted sandbox.
Decide(q) ==
  /\ preq[q].at = "policy"
  /\ Goto(q, IF preq[q].box \in registered
                /\ IsAllowed(PolicyFor(Config[preq[q].box]), preq[q].host)
             THEN "look" ELSE "denied")
  /\ UNCHANGED <<registered, creds, egress, answered, faults>>

EndsCut(log) == log # <<>> /\ log[Len(log)] = CutLine

\* A line with its newline is one append.  After a cut one it only completes
\* that line, which EgressEvents then skips.
Appended(log, line) ==
  IF EndsCut(log)
  THEN [log EXCEPT ![Len(log)] = IF line = CutLine THEN CutLine ELSE MergedLine]
  ELSE Append(log, line)

DenySilently(q) ==  \* as if only the daemon's own log were written
  /\ preq[q].at = "denied"
  /\ answered' = [answered EXCEPT ![preq[q].box][preq[q].host] = @ + 1]
  /\ preq' = [preq EXCEPT ![q] = Idle]
  /\ UNCHANGED <<registered, creds, egress, faults>>

\* egressDecisionSink and RecordEgress, then the answer 403.
Deny(q) ==
  LET s == preq[q].box  h == preq[q].host IN
  /\ preq[q].at = "denied"
  /\ egress' = [egress EXCEPT ![s] = Appended(@, h)]
  /\ answered' = IF s \notin registered \/ EndsCut(egress[s]) THEN answered
                 ELSE [answered EXCEPT ![s][h] = @ + 1]
  /\ preq' = [preq EXCEPT ![q] = Idle]
  /\ UNCHANGED <<registered, creds, faults>>

\* The log cannot be opened, or a full disk cuts the line; the error is logged
\* and the answer is 403.
DenyUnrecorded(q) ==
  /\ preq[q].at = "denied"
  /\ faults < MaxCrashes
  /\ faults' = faults + 1
  /\ egress' \in {egress, [egress EXCEPT ![preq[q].box] = Appended(@, CutLine)]}
  /\ preq' = [preq EXCEPT ![q] = Idle]
  /\ UNCHANGED <<registered, creds, answered>>

\* forward: GetForHost.  A tunnel carries what its ends encrypt, and gets no
\* credential.
EveryRule(h) == {i \in Ids : hosts[i] # {}}  \* as if the hosts did not matter
RulesFor(h) == {i \in Ids : h \in hosts[i]}

Look(q) ==
  /\ preq[q].at = "look"
  /\ LET found == RulesFor(preq[q].host) IN
       \/ preq' = [preq EXCEPT ![q].at = "resolve", ![q].ids = found,
                               ![q].moved = \E i \in found : Being(i) # {}]
       \/ Goto(q, "sent")
  /\ UNCHANGED <<registered, creds, egress, answered, faults>>

\* Resolve, for each rule found; the last header set is the one sent.
Resolve(q) ==
  /\ preq[q].at = "resolve"
  /\ IF preq[q].ids = {} THEN Goto(q, "sent")
     ELSE \E i \in preq[q].ids :
       preq' = [preq EXCEPT ![q].ids = @ \ {i},
                            ![q].header = IF value[i] = NoValue THEN @ ELSE value[i]]
  /\ UNCHANGED <<registered, creds, egress, answered, faults>>

Finish(q) ==
  /\ preq[q].at = "sent"
  /\ preq' = [preq EXCEPT ![q] = Idle]
  /\ UNCHANGED <<registered, creds, egress, answered, faults>>

\* DELETE of the sandbox takes its egress log along.
Delete(s) ==
  /\ s \in registered
  /\ registered' = registered \ {s}
  /\ egress' = [egress EXCEPT ![s] = <<>>]
  /\ answered' = [answered EXCEPT ![s] = [h \in Hosts |-> 0]]
  /\ UNCHANGED <<creds, preq, faults>>

\* The credentials are in memory only: a restart forgets them.
Restart ==
  /\ faults < MaxCrashes
  /\ faults' = faults + 1
  /\ hosts' = [i \in Ids |-> {}] /\ value' = [i \in Ids |-> NoValue]
  /\ adding' = [c \in Clients |-> NoRegistration]
  /\ mixed' = {}
  /\ preq' = [q \in Requests |-> Idle]
  /\ UNCHANGED <<registered, egress, answered>>

Step(q) == Decide(q) \/ Deny(q) \/ DenyUnrecorded(q) \/ Look(q) \/ Resolve(q) \/ Finish(q)

Next ==
  \/ \E c \in Clients : SetValue(c) \/ \E r \in Registrations : AddRule(c, r)
  \/ \E q \in Requests : Step(q) \/ \E s \in Sandboxes, h \in Hosts : Connect(q, s, h)
  \/ \E s \in Sandboxes : Delete(s)
  \/ Restart

Spec == Init /\ [][Next]_vars

-----------------------------------------------------------------------------
(* Properties.                                                             *)

\* A value is sent only to hosts it was registered for, however requests,
\* registrations and restarts interleave, unless its ID was registered again
\* while the request looked it up, or by two clients at once.
SentWhereRegistered ==
  \A q \in Requests : preq[q].at = "sent" /\ preq[q].header # NoValue =>
    \/ preq[q].moved \/ mixed # {}
    \/ \E r \in Registrations : r.value = preq[q].header /\ preq[q].host \in r.hosts

\* ADR-006: nothing that was configured for a sandbox, no mode and no extra
\* host, lets a request through to a host of the default deny list or, in
\* mode none, to any.
NoWayAroundDeny ==
  \A q \in Requests : preq[q].at \in {"look", "resolve", "sent"} =>
    /\ \A d \in DefaultDeny : <<preq[q].host, d>> \notin Within
    /\ Config[preq[q].box].mode # "none"

\* The lines of a log that name the host.
Naming(log, h) == {i \in DOMAIN log : log[i] = h}

\* The egress log answers for the denials: each one the sandbox was told of
\* has its line, save one whose own line or the line just before it was cut.
DenialsAreListed ==
  \A s \in Sandboxes, h \in Hosts : answered[s][h] <= Cardinality(Naming(egress[s], h))
=============================================================================
