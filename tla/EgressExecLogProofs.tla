------------------------- MODULE EgressExecLogProofs --------------------------
(****************************************************************************)
(* Proofs about two parts of Parts: EgressProxy with its log, for every set *)
(* of sandboxes, hosts, lists, registrations and requests and any number of *)
(* restarts; and ExecLog, for every finite set of execs and any number of   *)
(* crashes. Names of a part's proof begin with Eg or with Log.              *)
(*                                                                          *)
(* The argument for the credentials: while no ID is registered by two       *)
(* clients at once, rule and value of an ID that nobody is registering come *)
(* from one registration (EgOneRegistration); a request that found a rule   *)
(* resolves its value before anybody registers the ID again, or is marked   *)
(* moved.                                                                   *)
(*                                                                          *)
(* The argument for the egress log: the line is appended before the denial  *)
(* is answered, so each answer that counts has one of its own; with those   *)
(* in flight the lines fit the bound (EgRoomForLines).                      *)
(*                                                                          *)
(* The argument for the exec logs: the .stdout files that are there have    *)
(* the numbers 1 to n, so n + 1 is a number no file has (LogNoGaps); an     *)
(* exec that shares its number with no other is alone in writing its files  *)
(* (LogOwnFiles).                                                           *)
(****************************************************************************)
EXTENDS Parts, SequenceTheorems, FiniteSetTheorems, TLAPS

-----------------------------------------------------------------------------
(* The egress proxy.                                                        *)

EgAssumptions == Eg!HostAssumption /\ Eg!RegistrationAssumption

EgReqRecords == [at : {"idle", "policy", "denied", "look", "resolve", "sent"},
                 box : Sandboxes, host : ProxyHosts, ids : SUBSET CredentialIds,
                 header : Eg!Values \union {Eg!NoValue}, moved : BOOLEAN]

\* The types of what the proofs are about.
EgCredsType ==
  /\ egHosts \in [CredentialIds -> SUBSET ProxyHosts] /\ egValue \in [CredentialIds -> Eg!Values \union {Eg!NoValue}]
  /\ egAdding \in [Actors -> Registrations \union {Eg!NoRegistration}]
  /\ egReq \in [Actors -> EgReqRecords]

\* Nobody is registering i.
EgSettled(i) == \A c \in Actors : egAdding[c] # Eg!NoRegistration => egAdding[c].id # i

EgOneRegistration ==
  egMixed = {} =>
    /\ \A c, d \in Actors :
         egAdding[c] # Eg!NoRegistration /\ egAdding[d] # Eg!NoRegistration /\ egAdding[c].id = egAdding[d].id
           => c = d
    /\ \A c \in Actors : egAdding[c] # Eg!NoRegistration => egHosts[egAdding[c].id] = egAdding[c].hosts
    /\ \A i \in CredentialIds : EgSettled(i) /\ egValue[i] # Eg!NoValue =>
         \E r \in Registrations : r.value = egValue[i] /\ r.hosts = egHosts[i]

\* A request that is not moved has rules that nobody is registering, and the
\* value of one that is for its host.
EgGood(q) ==
  egMixed = {} /\ ~egReq[q].moved =>
    /\ \A i \in egReq[q].ids : EgSettled(i) /\ egReq[q].host \in egHosts[i]
    /\ egReq[q].header # Eg!NoValue =>
         \E r \in Registrations : r.value = egReq[q].header /\ egReq[q].host \in r.hosts

EgPermitted(q) ==
  egReq[q].at \in {"look", "resolve", "sent"} => Eg!IsAllowed(Eg!PolicyFor(Config[egReq[q].box]), egReq[q].host)

\* Before its look-up a request carries no value.
EgBare(q) == egReq[q].at \in {"policy", "look"} => egReq[q].header = Eg!NoValue

EgIInv == EgCredsType /\ EgOneRegistration /\ \A q \in Actors : EgGood(q) /\ EgPermitted(q) /\ EgBare(q)

-----------------------------------------------------------------------------
LEMMA EgIdleIsRecord ==
  ASSUME EgAssumptions
  PROVE  Eg!Idle \in EgReqRecords /\ Eg!Idle.at = "idle" /\ Eg!Idle.ids = {} /\ Eg!Idle.header = Eg!NoValue
         /\ Eg!Idle.moved = FALSE
<1>1. (CHOOSE s \in Sandboxes : TRUE) \in Sandboxes /\ (CHOOSE h \in ProxyHosts : TRUE) \in ProxyHosts
  BY DEF EgAssumptions, Eg!HostAssumption
<1> QED BY <1>1 DEF Eg!Idle, EgReqRecords

LEMMA EgNoRegistrationIsNone == ASSUME EgAssumptions PROVE Eg!NoRegistration \notin Registrations
BY DEF EgAssumptions, Eg!RegistrationAssumption, Eg!NoRegistration

\* A step of a request alone, to a record that is good and permitted.
LEMMA EgRequestKeeps ==
  ASSUME EgIInv, NEW q \in Actors, NEW rec \in EgReqRecords, egReq' = [egReq EXCEPT ![q] = rec],
         UNCHANGED Eg!creds,
         egMixed = {} /\ ~rec.moved =>
           /\ \A i \in rec.ids : EgSettled(i) /\ rec.host \in egHosts[i]
           /\ rec.header # Eg!NoValue =>
                \E r \in Registrations : r.value = rec.header /\ rec.host \in r.hosts,
         rec.at \in {"look", "resolve", "sent"} => Eg!IsAllowed(Eg!PolicyFor(Config[rec.box]), rec.host),
         rec.at \in {"policy", "look"} => rec.header = Eg!NoValue
  PROVE  EgIInv'
<1>1. /\ egReq' \in [Actors -> EgReqRecords] /\ egReq'[q] = rec
      /\ \A x \in Actors : x # q => egReq'[x] = egReq[x]
  BY DEF EgIInv, EgCredsType
<1>2. egHosts' = egHosts /\ egValue' = egValue /\ egAdding' = egAdding /\ egMixed' = egMixed
  BY DEF Eg!creds
<1>3. EgCredsType' /\ EgOneRegistration'
  BY <1>1, <1>2 DEF EgIInv, EgCredsType, EgOneRegistration, EgSettled
<1>4. ASSUME NEW x \in Actors PROVE EgGood(x)' /\ EgPermitted(x)' /\ EgBare(x)'
  <2>1. CASE x = q
    BY <1>1, <1>2, <2>1 DEF EgGood, EgPermitted, EgBare, EgSettled
  <2>2. CASE x # q
    BY <1>1, <1>2, <2>2 DEF EgIInv, EgGood, EgPermitted, EgBare, EgSettled
  <2> QED BY <2>1, <2>2
<1> QED BY <1>3, <1>4 DEF EgIInv

\* Whoever registers i again moves the requests that hold it; of the others
\* nothing changes but rules and values they do not look at.
LEMMA EgMoveKeeps ==
  ASSUME EgIInv, NEW i \in CredentialIds, egReq' = Eg!Move(i),
         egMixed' = {} => egMixed = {},
         \A j \in CredentialIds \ {i} : egHosts'[j] = egHosts[j] /\ (EgSettled(j) => EgSettled(j)')
  PROVE  egReq' \in [Actors -> EgReqRecords] /\ \A q \in Actors : EgGood(q)' /\ EgPermitted(q)' /\ EgBare(q)'
<1>1. egReq \in [Actors -> EgReqRecords]
  BY DEF EgIInv, EgCredsType
<1>2. ASSUME NEW q \in Actors
      PROVE  /\ egReq'[q] \in EgReqRecords
             /\ egReq'[q].at = egReq[q].at /\ egReq'[q].box = egReq[q].box /\ egReq'[q].host = egReq[q].host
             /\ egReq'[q].ids = egReq[q].ids /\ egReq'[q].header = egReq[q].header
             /\ IF i \in egReq[q].ids THEN egReq'[q].moved = TRUE ELSE egReq'[q].moved = egReq[q].moved
             /\ egReq[q].ids \subseteq CredentialIds
  <2>1. egReq[q] \in EgReqRecords
    BY <1>1
  <2>2. egReq'[q] = IF i \in egReq[q].ids THEN [egReq[q] EXCEPT !.moved = TRUE] ELSE egReq[q]
    BY DEF Eg!Move
  <2> QED BY <2>1, <2>2 DEF EgReqRecords
<1>3. egReq' \in [Actors -> EgReqRecords]
  BY <1>2 DEF Eg!Move
<1>4. ASSUME NEW q \in Actors PROVE EgGood(q)'
  <2> SUFFICES ASSUME egMixed' = {}, ~egReq'[q].moved PROVE EgGood(q)'
    BY DEF EgGood
  <2>1. egMixed = {} /\ ~egReq[q].moved /\ i \notin egReq[q].ids
    BY <1>2
  <2>2. EgGood(q)
    BY DEF EgIInv
  <2> QED BY <1>2, <2>1, <2>2 DEF EgGood
<1>5. ASSUME NEW q \in Actors PROVE EgPermitted(q)' /\ EgBare(q)'
  BY <1>2 DEF EgIInv, EgPermitted, EgBare
<1> QED BY <1>3, <1>4, <1>5

-----------------------------------------------------------------------------
(* Registering.                                                             *)

LEMMA EgAddRuleKeeps ==
  ASSUME EgAssumptions, EgIInv, NEW c \in Actors, NEW r \in Registrations, Eg!AddRule(c, r)
  PROVE  EgIInv'
<1>1. /\ egAdding[c] = Eg!NoRegistration /\ egAdding' = [egAdding EXCEPT ![c] = r]
      /\ egHosts' = [egHosts EXCEPT ![r.id] = r.hosts]
      /\ egMixed' = egMixed \union {i \in {r.id} : Eg!Being(i) # {}}
      /\ egReq' = Eg!Move(r.id) /\ egValue' = egValue
  BY DEF Eg!AddRule
<1>2. r.id \in CredentialIds /\ r.hosts \subseteq ProxyHosts /\ r # Eg!NoRegistration
  BY EgNoRegistrationIsNone DEF EgAssumptions, Eg!RegistrationAssumption
<1>3. /\ egAdding' \in [Actors -> Registrations \union {Eg!NoRegistration}]
      /\ egHosts' \in [CredentialIds -> SUBSET ProxyHosts] /\ egValue' \in [CredentialIds -> Eg!Values \union {Eg!NoValue}]
      /\ egAdding'[c] = r /\ egHosts'[r.id] = r.hosts
      /\ \A d \in Actors : d # c => egAdding'[d] = egAdding[d]
      /\ \A j \in CredentialIds \ {r.id} : egHosts'[j] = egHosts[j]
  BY <1>1, <1>2 DEF EgIInv, EgCredsType
<1>4. \A j \in CredentialIds \ {r.id} : EgSettled(j) <=> EgSettled(j)'
  BY <1>1, <1>3 DEF EgSettled
<1>5. egMixed' = {} => egMixed = {} /\ EgSettled(r.id)
  BY <1>1 DEF Eg!Being, EgSettled
<1>6. egReq' \in [Actors -> EgReqRecords] /\ \A q \in Actors : EgGood(q)' /\ EgPermitted(q)' /\ EgBare(q)'
  BY <1>1, <1>2, <1>3, <1>4, <1>5, EgMoveKeeps
<1>7. ASSUME egMixed' = {} PROVE EgOneRegistration'
  <2>1. egMixed = {} /\ EgSettled(r.id)
    BY <1>5, <1>7
  <2>2. \A d \in Actors : d # c /\ egAdding'[d] # Eg!NoRegistration => egAdding'[d].id # r.id
    BY <1>3, <2>1 DEF EgSettled
  <2>3. \A d \in Actors : egAdding'[d] # Eg!NoRegistration => egAdding'[d].id \in CredentialIds
    BY <1>2, <1>3 DEF EgAssumptions, Eg!RegistrationAssumption
  <2>4. \A d \in Actors : egAdding'[d] # Eg!NoRegistration => egHosts'[egAdding'[d].id] = egAdding'[d].hosts
    BY <1>3, <2>1, <2>2, <2>3 DEF EgIInv, EgOneRegistration
  <2>5. ~EgSettled(r.id)'
    BY <1>2, <1>3 DEF EgSettled
  <2>6. \A i \in CredentialIds : EgSettled(i)' /\ egValue'[i] # Eg!NoValue =>
          \E x \in Registrations : x.value = egValue'[i] /\ x.hosts = egHosts'[i]
    BY <1>1, <1>3, <1>4, <2>1, <2>5 DEF EgIInv, EgOneRegistration
  <2>7. \A d, e \in Actors :
          egAdding'[d] # Eg!NoRegistration /\ egAdding'[e] # Eg!NoRegistration
            /\ egAdding'[d].id = egAdding'[e].id => d = e
    BY <1>3, <2>1, <2>2 DEF EgIInv, EgOneRegistration
  <2> QED BY <2>4, <2>6, <2>7 DEF EgOneRegistration
<1> QED BY <1>3, <1>6, <1>7 DEF EgIInv, EgCredsType, EgOneRegistration

LEMMA EgSetValueKeeps ==
  ASSUME EgAssumptions, EgIInv, NEW c \in Actors, Eg!SetValue(c) PROVE EgIInv'
<1> DEFINE r == egAdding[c]
<1>1. /\ r # Eg!NoRegistration /\ egAdding' = [egAdding EXCEPT ![c] = Eg!NoRegistration]
      /\ egValue' = [egValue EXCEPT ![r.id] = r.value]
      /\ egReq' = Eg!Move(r.id) /\ egHosts' = egHosts /\ egMixed' = egMixed
  BY DEF Eg!SetValue
<1>2. r \in Registrations /\ r.id \in CredentialIds /\ r.value \in Eg!Values
  BY <1>1 DEF EgIInv, EgCredsType, EgAssumptions, Eg!RegistrationAssumption, Eg!Values
<1> HIDE DEF r
<1>3. /\ egAdding' \in [Actors -> Registrations \union {Eg!NoRegistration}]
      /\ egHosts' \in [CredentialIds -> SUBSET ProxyHosts] /\ egValue' \in [CredentialIds -> Eg!Values \union {Eg!NoValue}]
      /\ egAdding'[c] = Eg!NoRegistration /\ egValue'[r.id] = r.value
      /\ \A d \in Actors : d # c => egAdding'[d] = egAdding[d]
      /\ \A j \in CredentialIds \ {r.id} : egValue'[j] = egValue[j]
  BY <1>1, <1>2 DEF EgIInv, EgCredsType
<1>4. \A j \in CredentialIds \ {r.id} : EgSettled(j) <=> EgSettled(j)'
  BY <1>1, <1>3 DEF EgSettled, r
<1>5. egReq' \in [Actors -> EgReqRecords] /\ \A q \in Actors : EgGood(q)' /\ EgPermitted(q)' /\ EgBare(q)'
  BY <1>1, <1>2, <1>4, EgMoveKeeps
<1>6. ASSUME egMixed = {} PROVE EgOneRegistration'
  <2>1. egHosts[r.id] = r.hosts
    BY <1>1, <1>6 DEF EgIInv, EgOneRegistration, r
  <2>2. \A i \in CredentialIds : EgSettled(i)' /\ egValue'[i] # Eg!NoValue =>
          \E x \in Registrations : x.value = egValue'[i] /\ x.hosts = egHosts'[i]
    BY <1>1, <1>2, <1>3, <1>4, <1>6, <2>1 DEF EgIInv, EgOneRegistration
  <2>3. \A d \in Actors : egAdding'[d] # Eg!NoRegistration => d # c /\ egAdding'[d] = egAdding[d]
    BY <1>3
  <2> QED BY <1>1, <1>6, <2>2, <2>3 DEF EgIInv, EgOneRegistration
<1> QED BY <1>1, <1>3, <1>5, <1>6 DEF EgIInv, EgCredsType, EgOneRegistration

-----------------------------------------------------------------------------
(* Requests.                                                                *)

\* What IInv says of one request.
LEMMA EgKnown ==
  ASSUME EgIInv, NEW q \in Actors
  PROVE  egReq[q] \in EgReqRecords /\ egReq \in [Actors -> EgReqRecords]
         /\ EgGood(q) /\ EgPermitted(q) /\ EgBare(q)
BY DEF EgIInv, EgCredsType

LEMMA EgConnectKeeps ==
  ASSUME EgAssumptions, EgIInv, NEW q \in Actors, NEW s \in Sandboxes, NEW h \in ProxyHosts,
         Eg!Connect(q, s, h)
  PROVE  EgIInv'
<1> DEFINE rec == [Eg!Idle EXCEPT !.at = "policy", !.box = s, !.host = h]
<1>1. /\ rec \in EgReqRecords /\ rec.at = "policy" /\ rec.ids = {} /\ rec.header = Eg!NoValue
  BY EgIdleIsRecord DEF EgReqRecords
<1>2. egReq' = [egReq EXCEPT ![q] = rec] /\ UNCHANGED Eg!creds
  BY DEF Eg!Connect
<1> HIDE DEF rec
<1> QED BY <1>1, <1>2, EgRequestKeeps

LEMMA EgDecideKeeps ==
  ASSUME EgIInv, NEW q \in Actors, Eg!Decide(q) PROVE EgIInv'
<1> DEFINE let == egReq[q].box \in egRegistered
                    /\ Eg!IsAllowed(Eg!PolicyFor(Config[egReq[q].box]), egReq[q].host)
           rec == [egReq[q] EXCEPT !.at = IF let THEN "look" ELSE "denied"]
<1>1. egReq' = [egReq EXCEPT ![q] = rec] /\ UNCHANGED Eg!creds
  BY EgKnown DEF Eg!Decide, Eg!Goto
<1>2. let => Eg!IsAllowed(Eg!PolicyFor(Config[egReq[q].box]), egReq[q].host)
  OBVIOUS
<1> HIDE DEF let
<1>3. /\ rec \in EgReqRecords /\ rec.at = (IF let THEN "look" ELSE "denied")
      /\ rec.box = egReq[q].box /\ rec.host = egReq[q].host /\ rec.ids = egReq[q].ids
      /\ rec.header = egReq[q].header /\ rec.moved = egReq[q].moved
  <2>1. egReq[q] \in EgReqRecords
    BY EgKnown
  <2> QED BY <2>1 DEF EgReqRecords
<1> HIDE DEF rec
<1>4. egMixed = {} /\ ~rec.moved =>
        /\ \A i \in rec.ids : EgSettled(i) /\ rec.host \in egHosts[i]
        /\ rec.header # Eg!NoValue =>
             \E r \in Registrations : r.value = rec.header /\ rec.host \in r.hosts
  BY <1>3, EgKnown DEF EgGood
<1>5. rec.at = "look" => Eg!IsAllowed(Eg!PolicyFor(Config[rec.box]), rec.host) /\ rec.header = Eg!NoValue
  <2>1. egReq[q].header = Eg!NoValue
    BY EgKnown DEF EgBare, Eg!Decide
  <2> QED BY <1>2, <1>3, <2>1
<1> QED BY <1>1, <1>3, <1>4, <1>5, EgRequestKeeps

\* A request that ends.
LEMMA EgIdleKeeps ==
  ASSUME EgAssumptions, EgIInv, NEW q \in Actors, egReq' = [egReq EXCEPT ![q] = Eg!Idle],
         UNCHANGED Eg!creds
  PROVE  EgIInv'
BY EgIdleIsRecord, EgRequestKeeps

LEMMA EgLookKeeps ==
  ASSUME EgIInv, NEW q \in Actors, Eg!Look(q) PROVE EgIInv'
<1> DEFINE found == Eg!RulesFor(egReq[q].host)
           busy == \E i \in found : Eg!Being(i) # {}
           rec == [egReq[q] EXCEPT !.at = "resolve", !.ids = found, !.moved = busy]
           out == [egReq[q] EXCEPT !.at = "sent"]
<1>1. /\ egReq[q].at = "look" /\ UNCHANGED Eg!creds
      /\ egReq' = [egReq EXCEPT ![q] = rec] \/ egReq' = [egReq EXCEPT ![q] = out]
  BY EgKnown DEF Eg!Look, Eg!Goto
<1>2. egReq[q] \in EgReqRecords /\ found \subseteq CredentialIds /\ busy \in BOOLEAN
  BY EgKnown DEF Eg!RulesFor
<1>3. /\ rec \in EgReqRecords /\ rec.at = "resolve" /\ rec.ids = found /\ rec.moved = busy
      /\ rec.box = egReq[q].box /\ rec.host = egReq[q].host /\ rec.header = egReq[q].header
  <2> HIDE DEF found, busy
  <2> QED BY <1>2 DEF EgReqRecords
<1>4. /\ out \in EgReqRecords /\ out.at = "sent" /\ out.ids = egReq[q].ids /\ out.moved = egReq[q].moved
      /\ out.box = egReq[q].box /\ out.host = egReq[q].host /\ out.header = egReq[q].header
  BY <1>2 DEF EgReqRecords
<1>5. ~busy => \A i \in found : EgSettled(i) /\ egReq[q].host \in egHosts[i]
  BY DEF Eg!RulesFor, Eg!Being, EgSettled
<1>6. Eg!IsAllowed(Eg!PolicyFor(Config[egReq[q].box]), egReq[q].host) /\ egReq[q].header = Eg!NoValue
  BY <1>1, EgKnown DEF EgPermitted, EgBare
<1>7. CASE egReq' = [egReq EXCEPT ![q] = out]
  <2> HIDE DEF out
  <2>1. egMixed = {} /\ ~out.moved =>
          /\ \A i \in out.ids : EgSettled(i) /\ out.host \in egHosts[i]
          /\ out.header # Eg!NoValue =>
               \E r \in Registrations : r.value = out.header /\ out.host \in r.hosts
    BY <1>4, EgKnown DEF EgGood
  <2> QED BY <1>1, <1>4, <1>6, <1>7, <2>1, EgRequestKeeps
<1>8. CASE egReq' = [egReq EXCEPT ![q] = rec]
  <2> HIDE DEF rec, found, busy
  <2> QED BY <1>1, <1>3, <1>5, <1>6, <1>8, EgRequestKeeps
<1> QED BY <1>1, <1>7, <1>8

\* The value of a rule that nobody is registering is for the hosts of the rule.
LEMMA EgResolveKeeps ==
  ASSUME EgIInv, NEW q \in Actors, Eg!Resolve(q) PROVE EgIInv'
<1>1. egReq[q] \in EgReqRecords /\ egReq[q].at = "resolve" /\ UNCHANGED Eg!creds
  BY EgKnown DEF Eg!Resolve
<1>2. Eg!IsAllowed(Eg!PolicyFor(Config[egReq[q].box]), egReq[q].host)
  BY <1>1, EgKnown DEF EgPermitted
<1>3. CASE egReq[q].ids = {}
  <2> DEFINE rec == [egReq[q] EXCEPT !.at = "sent"]
  <2>1. egReq' = [egReq EXCEPT ![q] = rec]
    BY <1>3, EgKnown DEF Eg!Resolve, Eg!Goto
  <2>2. /\ rec \in EgReqRecords /\ rec.at = "sent" /\ rec.ids = {} /\ rec.moved = egReq[q].moved
        /\ rec.box = egReq[q].box /\ rec.host = egReq[q].host /\ rec.header = egReq[q].header
    BY <1>1, <1>3 DEF EgReqRecords
  <2> HIDE DEF rec
  <2>3. egMixed = {} /\ ~rec.moved /\ rec.header # Eg!NoValue =>
          \E r \in Registrations : r.value = rec.header /\ rec.host \in r.hosts
    BY <2>2, EgKnown DEF EgGood
  <2> QED BY <1>1, <1>2, <2>1, <2>2, <2>3, EgRequestKeeps
<1>4. CASE egReq[q].ids # {}
  <2>1. PICK i \in egReq[q].ids :
          egReq' = [egReq EXCEPT ![q].ids = @ \ {i},
                                 ![q].header = IF egValue[i] = Eg!NoValue THEN @ ELSE egValue[i]]
    BY <1>4 DEF Eg!Resolve
  <2> DEFINE sent == IF egValue[i] = Eg!NoValue THEN egReq[q].header ELSE egValue[i]
             rec == [egReq[q] EXCEPT !.ids = @ \ {i}, !.header = sent]
  <2>2. egReq' = [egReq EXCEPT ![q] = rec]
    BY <2>1, EgKnown
  <2>3. i \in CredentialIds /\ sent \in Eg!Values \union {Eg!NoValue}
    BY <1>1 DEF EgReqRecords, EgIInv, EgCredsType
  <2>4. egMixed = {} /\ ~egReq[q].moved /\ sent # Eg!NoValue =>
          \E r \in Registrations : r.value = sent /\ egReq[q].host \in r.hosts
    <3> SUFFICES ASSUME egMixed = {}, ~egReq[q].moved, sent # Eg!NoValue
                 PROVE  \E r \in Registrations : r.value = sent /\ egReq[q].host \in r.hosts
      OBVIOUS
    <3>1. EgSettled(i) /\ egReq[q].host \in egHosts[i]
      BY EgKnown DEF EgGood
    <3>2. CASE egValue[i] = Eg!NoValue
      BY <3>2, EgKnown DEF EgGood
    <3>3. CASE egValue[i] # Eg!NoValue
      BY <2>3, <3>1, <3>3 DEF EgIInv, EgOneRegistration
    <3> QED BY <3>2, <3>3
  <2> HIDE DEF sent
  <2>5. /\ rec \in EgReqRecords /\ rec.at = "resolve" /\ rec.ids \subseteq egReq[q].ids
        /\ rec.moved = egReq[q].moved /\ rec.box = egReq[q].box /\ rec.host = egReq[q].host
        /\ rec.header = sent
    BY <1>1, <2>3 DEF EgReqRecords
  <2> HIDE DEF rec
  <2>6. egMixed = {} /\ ~rec.moved =>
          /\ \A j \in rec.ids : EgSettled(j) /\ rec.host \in egHosts[j]
          /\ rec.header # Eg!NoValue =>
               \E r \in Registrations : r.value = rec.header /\ rec.host \in r.hosts
    BY <2>4, <2>5, EgKnown DEF EgGood
  <2> QED BY <1>1, <1>2, <2>2, <2>5, <2>6, EgRequestKeeps
<1> QED BY <1>3, <1>4

-----------------------------------------------------------------------------
(* The whole specification.                                                 *)

\* A restart leaves nothing registered and nobody asking.
LEMMA EgFreshIsSound ==
  ASSUME EgAssumptions,
         egHosts = [i \in CredentialIds |-> {}], egValue = [i \in CredentialIds |-> Eg!NoValue],
         egAdding = [c \in Actors |-> Eg!NoRegistration], egReq = [q \in Actors |-> Eg!Idle]
  PROVE  EgIInv
<1>1. Eg!Idle \in EgReqRecords /\ \A q \in Actors : egReq[q] = Eg!Idle
  BY EgIdleIsRecord
<1>2. EgCredsType
  BY <1>1 DEF EgCredsType
<1>3. EgOneRegistration
  BY DEF EgOneRegistration
<1>4. \A q \in Actors : EgGood(q) /\ EgPermitted(q) /\ EgBare(q)
  BY <1>1, EgIdleIsRecord DEF EgGood, EgPermitted, EgBare
<1> QED BY <1>2, <1>3, <1>4 DEF EgIInv

LEMMA EgRestartKeeps ==
  ASSUME EgAssumptions, EgIInv, Eg!Restart PROVE EgIInv'
<1>1. /\ egHosts' = [i \in CredentialIds |-> {}] /\ egValue' = [i \in CredentialIds |-> Eg!NoValue]
      /\ egAdding' = [c \in Actors |-> Eg!NoRegistration] /\ egReq' = [q \in Actors |-> Eg!Idle]
  BY DEF Eg!Restart
<1>2. Eg!Idle \in EgReqRecords /\ \A q \in Actors : egReq'[q] = Eg!Idle
  BY <1>1, EgIdleIsRecord
<1>3. EgCredsType'
  BY <1>1, <1>2 DEF EgCredsType
<1>4. EgOneRegistration'
  BY <1>1 DEF EgOneRegistration
<1>5. \A q \in Actors : EgGood(q)' /\ EgPermitted(q)' /\ EgBare(q)'
  BY <1>2, EgIdleIsRecord DEF EgGood, EgPermitted, EgBare
<1> QED BY <1>3, <1>4, <1>5 DEF EgIInv

LEMMA EgStepKeeps ==
  ASSUME EgAssumptions, EgIInv, [Eg!Next]_(Eg!vars) PROVE EgIInv'
<1>1. ASSUME NEW c \in Actors, Eg!SetValue(c) PROVE EgIInv'
  BY <1>1, EgSetValueKeeps
<1>2. ASSUME NEW c \in Actors, NEW r \in Registrations, Eg!AddRule(c, r) PROVE EgIInv'
  BY <1>2, EgAddRuleKeeps
<1>3. ASSUME NEW q \in Actors, Eg!Decide(q) PROVE EgIInv'
  BY <1>3, EgDecideKeeps
<1>4. ASSUME NEW q \in Actors, Eg!Deny(q) \/ Eg!DenyUnrecorded(q) \/ Eg!Finish(q) PROVE EgIInv'
  <2>1. egReq' = [egReq EXCEPT ![q] = Eg!Idle] /\ UNCHANGED Eg!creds
    BY <1>4 DEF Eg!Deny, Eg!DenyUnrecorded, Eg!Finish
  <2> QED BY <2>1, EgIdleKeeps
<1>5. ASSUME NEW q \in Actors, Eg!Look(q) PROVE EgIInv'
  BY <1>5, EgLookKeeps
<1>6. ASSUME NEW q \in Actors, Eg!Resolve(q) PROVE EgIInv'
  BY <1>6, EgResolveKeeps
<1>7. ASSUME NEW q \in Actors, NEW s \in Sandboxes, NEW h \in ProxyHosts, Eg!Connect(q, s, h)
      PROVE  EgIInv'
  BY <1>7, EgConnectKeeps
<1>8. ASSUME (\E s \in Sandboxes : Eg!Delete(s)) \/ UNCHANGED Eg!vars PROVE EgIInv'
  <2>1. UNCHANGED <<Eg!creds, egReq>>
    BY <1>8 DEF Eg!Delete, Eg!vars, Eg!creds
  <2> QED BY <2>1 DEF EgIInv, EgCredsType, EgOneRegistration, EgSettled, EgGood, EgPermitted,
             EgBare, Eg!creds
<1>9. CASE Eg!Restart
  BY <1>9, EgRestartKeeps
<1> QED BY <1>1, <1>2, <1>3, <1>4, <1>5, <1>6, <1>7, <1>8, <1>9 DEF Eg!Next, Eg!Step

LEMMA EgInvariance == ASSUME EgAssumptions PROVE Eg!Spec => []EgIInv
<1>1. Eg!Init => EgIInv
  BY EgFreshIsSound DEF Eg!Init
<1>2. EgIInv /\ [Eg!Next]_(Eg!vars) => EgIInv'
  BY EgStepKeeps
<1> QED BY <1>1, <1>2, PTL DEF Eg!Spec


-----------------------------------------------------------------------------
(* The egress log: a denial that counts has a line of its own, and a log is *)
(* no longer than the bound on denials.                                     *)

EgLogLines == ProxyHosts \union {Eg!CutLine, Eg!MergedLine}

EgLogType ==
  /\ egRegistered \subseteq Sandboxes /\ egMixed \subseteq CredentialIds
  /\ egEgress \in [Sandboxes -> Seq(EgLogLines)]
  /\ egAnswered \in [Sandboxes -> [ProxyHosts -> Nat]]
  /\ egFaults \in 0..MaxRestarts

\* Every line is a denial's, and every request in flight may still add one.
EgRoomForLines == \A s \in Sandboxes : Len(egEgress[s]) + Cardinality(Eg!InFlight(s)) <= MaxDenied

EgLogInv == EgLogType /\ EgRoomForLines /\ Eg!DenialsAreListed

-----------------------------------------------------------------------------
LEMMA EgNamingIsFinite ==
  ASSUME NEW lines \in Seq(EgLogLines), NEW h
  PROVE  IsFiniteSet(Eg!Naming(lines, h)) /\ Cardinality(Eg!Naming(lines, h)) \in Nat
         /\ Cardinality(Eg!Naming(lines, h)) <= Len(lines)
<1>1. Len(lines) \in Nat /\ Eg!Naming(lines, h) \in SUBSET (1..Len(lines))
  BY DEF Eg!Naming
<1>2. \A n \in Nat : IsFiniteSet(1..n) /\ Cardinality(1..n) = n
  <2> SUFFICES ASSUME NEW n \in Nat PROVE IsFiniteSet(1..n) /\ Cardinality(1..n) = n
    OBVIOUS
  <2> QED BY FS_Interval
<1> QED BY <1>1, <1>2, FS_Subset, FS_CardinalityType

\* A line more: what the log counts of a host grows by that line.
LEMMA EgAppendedCounts ==
  ASSUME NEW lines \in Seq(EgLogLines), NEW line \in EgLogLines, NEW h, ~Eg!EndsCut(lines)
  PROVE  /\ Eg!Appended(lines, line) \in Seq(EgLogLines) /\ Len(Eg!Appended(lines, line)) = Len(lines) + 1
         /\ Cardinality(Eg!Naming(Eg!Appended(lines, line), h)) =
              IF line = h THEN Cardinality(Eg!Naming(lines, h)) + 1 ELSE Cardinality(Eg!Naming(lines, h))
<1> DEFINE longer == Append(lines, line)
           n == Len(lines) + 1
<1>1. Eg!Appended(lines, line) = longer
  BY DEF Eg!Appended
<1>2. /\ longer \in Seq(EgLogLines) /\ Len(longer) = n /\ Len(lines) \in Nat
      /\ DOMAIN longer = 1..n /\ DOMAIN lines = 1..Len(lines)
      /\ longer[n] = line /\ \A i \in 1..Len(lines) : longer[i] = lines[i]
  OBVIOUS
<1>3. IsFiniteSet(Eg!Naming(lines, h)) /\ n \notin Eg!Naming(lines, h)
  <2>1. n \notin DOMAIN lines
    BY <1>2
  <2> QED BY <2>1, EgNamingIsFinite DEF Eg!Naming
<1>4. 1..n = (1..Len(lines)) \union {n}
  BY <1>2
<1> HIDE DEF longer, n
<1>5. line = h => Eg!Naming(longer, h) = Eg!Naming(lines, h) \union {n}
  BY <1>2, <1>4 DEF Eg!Naming
<1>6. line # h => Eg!Naming(longer, h) = Eg!Naming(lines, h)
  BY <1>2, <1>4 DEF Eg!Naming
<1>7. Cardinality(Eg!Naming(lines, h) \union {n}) = Cardinality(Eg!Naming(lines, h)) + 1
  BY <1>3, FS_AddElement
<1> QED BY <1>1, <1>2, <1>5, <1>6, <1>7 DEF n

\* The part counts with a copy of FiniteSets of its own.
LEMMA EgCounting ==
  ASSUME NEW S
  PROVE  (Eg!IsFiniteSet(S) <=> IsFiniteSet(S)) /\ Eg!Cardinality(S) = Cardinality(S)
<1>1. Eg!IsFiniteSet(S) <=> IsFiniteSet(S)
  BY DEF IsFiniteSet, Eg!IsFiniteSet
<1>2. Eg!Cardinality(S) = Cardinality(S)
  BY <1>1 DEF Cardinality, Eg!Cardinality
<1> QED BY <1>1, <1>2

\* ... or it completes a cut one, and what the log counts stays.
LEMMA EgAppendedIsLog ==
  ASSUME EgAssumptions, NEW lines \in Seq(EgLogLines), NEW line \in EgLogLines
  PROVE  Eg!Appended(lines, line) \in Seq(EgLogLines) /\ Len(Eg!Appended(lines, line)) <= Len(lines) + 1
         /\ \A h \in ProxyHosts :
              Cardinality(Eg!Naming(lines, h)) <= Cardinality(Eg!Naming(Eg!Appended(lines, line), h))
<1>1. CASE Eg!EndsCut(lines)
  <2> DEFINE n == Len(lines)
             last == IF line = Eg!CutLine THEN Eg!CutLine ELSE Eg!MergedLine
             completed == [lines EXCEPT ![n] = last]
  <2>1. Eg!Appended(lines, line) = completed /\ lines # <<>> /\ lines[n] = Eg!CutLine
    BY <1>1 DEF Eg!Appended, Eg!EndsCut
  <2>2. last \in EgLogLines
    BY DEF EgLogLines
  <2> HIDE DEF last
  <2>3. /\ completed \in Seq(EgLogLines) /\ Len(completed) = n /\ n \in Nat
        /\ DOMAIN completed = DOMAIN lines
        /\ \A i \in DOMAIN lines : i # n => completed[i] = lines[i]
    <3>1. n \in Nat /\ n >= 1 /\ DOMAIN lines = 1..n /\ lines \in [1..n -> EgLogLines]
      BY <2>1
    <3> HIDE DEF n
    <3>2. completed \in [1..n -> EgLogLines]
      BY <2>2, <3>1
    <3> HIDE DEF completed
    <3>3. completed \in Seq(EgLogLines) /\ Len(completed) = n
      BY <3>1, <3>2
    <3>4. \A i \in DOMAIN lines : i # n => completed[i] = lines[i]
      BY <3>1 DEF completed
    <3> QED BY <3>1, <3>2, <3>3, <3>4
  <2> HIDE DEF completed, n
  <2>4. ASSUME NEW h \in ProxyHosts
        PROVE  Cardinality(Eg!Naming(lines, h)) <= Cardinality(Eg!Naming(completed, h))
    <3>1. h # Eg!CutLine
      BY DEF EgAssumptions, Eg!HostAssumption
    <3>2. Eg!Naming(lines, h) \in SUBSET Eg!Naming(completed, h)
      BY <2>1, <2>3, <3>1 DEF Eg!Naming
    <3> QED BY <2>3, <3>2, EgNamingIsFinite, FS_Subset
  <2> QED BY <2>1, <2>3, <2>4 DEF n
<1>2. CASE ~Eg!EndsCut(lines)
  <2>1. \A h : /\ Eg!Appended(lines, line) \in Seq(EgLogLines)
               /\ Len(Eg!Appended(lines, line)) = Len(lines) + 1
               /\ Cardinality(Eg!Naming(Eg!Appended(lines, line), h)) =
                    IF line = h THEN Cardinality(Eg!Naming(lines, h)) + 1
                    ELSE Cardinality(Eg!Naming(lines, h))
    BY <1>2, EgAppendedCounts
  <2>2. \A h : Cardinality(Eg!Naming(lines, h)) \in Nat
    BY EgNamingIsFinite
  <2>3. Len(lines) \in Nat
    OBVIOUS
  <2> QED BY <2>1, <2>2, <2>3
<1> QED BY <1>1, <1>2

LEMMA EgInFlightIsFinite ==
  ASSUME EgAssumptions, NEW s
  PROVE  IsFiniteSet(Eg!InFlight(s)) /\ Cardinality(Eg!InFlight(s)) \in Nat
<1>1. Eg!InFlight(s) \in SUBSET Actors /\ IsFiniteSet(Actors)
  BY EgCounting DEF Eg!InFlight, EgAssumptions, Eg!HostAssumption
<1> QED BY <1>1, FS_Subset, FS_CardinalityType

\* A step that leaves the log and its requests, but for where they are.
LEMMA EgLogUntouched ==
  ASSUME EgLogInv, UNCHANGED <<egRegistered, egEgress, egAnswered, egFaults>>, egMixed' \subseteq CredentialIds,
         \A s \in Sandboxes : Eg!InFlight(s)' = Eg!InFlight(s)
  PROVE  EgLogInv'
BY DEF EgLogInv, EgLogType, EgRoomForLines, Eg!DenialsAreListed

LEMMA EgRegisteringKeepsLog ==
  ASSUME EgAssumptions, EgIInv, EgLogInv, NEW c \in Actors,
         Eg!SetValue(c) \/ \E r \in Registrations : Eg!AddRule(c, r)
  PROVE  EgLogInv'
<1>1. PICK i \in CredentialIds : egReq' = Eg!Move(i)
  <2>1. CASE Eg!SetValue(c)
    <3>1. egAdding[c] \in Registrations
      BY <2>1 DEF Eg!SetValue, EgIInv, EgCredsType
    <3> QED BY <2>1, <3>1 DEF Eg!SetValue, EgAssumptions, Eg!RegistrationAssumption
  <2>2. ASSUME NEW r \in Registrations, Eg!AddRule(c, r)
        PROVE  \E i \in CredentialIds : egReq' = Eg!Move(i)
    BY <2>2 DEF Eg!AddRule, EgAssumptions, Eg!RegistrationAssumption
  <2> QED BY <2>1, <2>2
<1>2. egMixed' \subseteq CredentialIds /\ UNCHANGED <<egRegistered, egEgress, egAnswered, egFaults>>
  BY DEF Eg!SetValue, Eg!AddRule, EgLogInv, EgLogType, EgAssumptions, Eg!RegistrationAssumption
<1>3. ASSUME NEW q \in Actors
      PROVE  egReq'[q].box = egReq[q].box /\ (egReq'[q] = Eg!Idle <=> egReq[q] = Eg!Idle)
  <2>1. egReq[q] \in EgReqRecords
    BY DEF EgIInv, EgCredsType
  <2>2. egReq'[q] = IF i \in egReq[q].ids THEN [egReq[q] EXCEPT !.moved = TRUE] ELSE egReq[q]
    BY <1>1 DEF Eg!Move
  <2>3. i \in egReq[q].ids => egReq'[q].ids = egReq[q].ids /\ egReq'[q].box = egReq[q].box
    BY <2>1, <2>2 DEF EgReqRecords
  <2> QED BY <2>2, <2>3, EgIdleIsRecord
<1>4. \A s \in Sandboxes : Eg!InFlight(s)' = Eg!InFlight(s)
  BY <1>3 DEF Eg!InFlight
<1> QED BY <1>2, <1>4, EgLogUntouched

\* A step of one request that goes on.
LEMMA EgGoingOnKeepsLog ==
  ASSUME EgAssumptions, EgIInv, EgLogInv, NEW q \in Actors, Eg!Decide(q) \/ Eg!Look(q) \/ Eg!Resolve(q)
  PROVE  EgLogInv'
<1>1. egReq[q] \in EgReqRecords /\ egReq \in [Actors -> EgReqRecords]
  BY DEF EgIInv, EgCredsType
<1>2. /\ egReq[q].at # "idle" /\ egMixed' = egMixed
      /\ UNCHANGED <<egRegistered, egEgress, egAnswered, egFaults>>
  BY DEF Eg!Decide, Eg!Look, Eg!Resolve, Eg!creds
<1>3. /\ \A x \in Actors \ {q} : egReq'[x] = egReq[x]
      /\ egReq'[q].box = egReq[q].box /\ egReq'[q].at # "idle"
  <2>1. CASE Eg!Decide(q)
    BY <1>1, <2>1 DEF Eg!Decide, Eg!Goto, EgReqRecords
  <2>2. CASE Eg!Look(q)
    BY <1>1, <2>2 DEF Eg!Look, Eg!Goto, EgReqRecords
  <2>3. CASE Eg!Resolve(q)
    <3>1. CASE Eg!Goto(q, "sent")
      BY <1>1, <3>1 DEF Eg!Goto, EgReqRecords
    <3>2. ASSUME NEW i \in egReq[q].ids,
                 egReq' = [egReq EXCEPT ![q].ids = @ \ {i},
                                        ![q].header = IF egValue[i] = Eg!NoValue THEN @ ELSE egValue[i]]
          PROVE  /\ \A x \in Actors \ {q} : egReq'[x] = egReq[x]
                 /\ egReq'[q].box = egReq[q].box /\ egReq'[q].at # "idle"
      <4>1. \A x \in Actors \ {q} : egReq'[x] = egReq[x]
        BY <1>1, <3>2
      <4>2. egReq'[q].box = egReq[q].box /\ egReq'[q].at = egReq[q].at
        BY <1>1, <3>2 DEF EgReqRecords
      <4> QED BY <1>2, <4>1, <4>2
    <3> QED BY <2>3, <3>1, <3>2 DEF Eg!Resolve
  <2> QED BY <2>1, <2>2, <2>3
<1>4. \A s \in Sandboxes : Eg!InFlight(s)' = Eg!InFlight(s)
  BY <1>2, <1>3, EgIdleIsRecord DEF Eg!InFlight
<1> QED BY <1>2, <1>4, EgLogUntouched DEF EgLogInv, EgLogType

\* A request is over, with a line in the log of its sandbox or without.
LEMMA EgEndKeepsLog ==
  ASSUME EgAssumptions, EgIInv, EgLogInv, NEW q \in Actors, Eg!Deny(q) \/ Eg!DenyUnrecorded(q) \/ Eg!Finish(q),
         NEW s \in Sandboxes, s = egReq[q].box, NEW h \in ProxyHosts, h = egReq[q].host
  PROVE  EgLogInv'
<1>1. egReq[q] \in EgReqRecords /\ egReq \in [Actors -> EgReqRecords]
  BY DEF EgIInv, EgCredsType
<1>2. egReq' = [egReq EXCEPT ![q] = Eg!Idle] /\ egReq[q].at # "idle" /\ egMixed' = egMixed
      /\ egRegistered' = egRegistered
  BY DEF Eg!Deny, Eg!DenyUnrecorded, Eg!Finish, Eg!creds
<1>3. \A x \in Actors : egReq'[x] = IF x = q THEN Eg!Idle ELSE egReq[x]
  BY <1>1, <1>2
<1>4. \A b \in Sandboxes : Eg!InFlight(b)' = Eg!InFlight(b) \ {q}
  BY <1>3 DEF Eg!InFlight
<1>5. q \in Eg!InFlight(s)
  BY <1>2, EgIdleIsRecord DEF Eg!InFlight
<1>6. \A b \in Sandboxes : Cardinality(Eg!InFlight(b)') <= Cardinality(Eg!InFlight(b))
                           /\ Cardinality(Eg!InFlight(b)') \in Nat
  <2> SUFFICES ASSUME NEW b \in Sandboxes
               PROVE  Cardinality(Eg!InFlight(b) \ {q}) <= Cardinality(Eg!InFlight(b))
                      /\ Cardinality(Eg!InFlight(b) \ {q}) \in Nat
    BY <1>4
  <2>1. IsFiniteSet(Eg!InFlight(b)) /\ Cardinality(Eg!InFlight(b)) \in Nat
    BY EgInFlightIsFinite
  <2>2. Eg!InFlight(b) \ {q} \in SUBSET Eg!InFlight(b)
    OBVIOUS
  <2> QED BY <2>1, <2>2, FS_Subset, FS_CardinalityType
<1>7. Cardinality(Eg!InFlight(s)') = Cardinality(Eg!InFlight(s)) - 1
  BY <1>1, <1>4, <1>5, EgInFlightIsFinite, FS_RemoveElement
<1>8. /\ egEgress \in [Sandboxes -> Seq(EgLogLines)] /\ egAnswered \in [Sandboxes -> [ProxyHosts -> Nat]]
      /\ MaxDenied \in Nat /\ MaxRestarts \in Nat
  BY DEF EgLogInv, EgLogType, EgAssumptions, Eg!RegistrationAssumption
<1>9. \A b \in Sandboxes : Len(egEgress[b]) \in Nat /\ Cardinality(Eg!InFlight(b)) \in Nat
                           /\ Len(egEgress[b]) + Cardinality(Eg!InFlight(b)) <= MaxDenied
  BY <1>8, EgInFlightIsFinite DEF EgLogInv, EgRoomForLines
<1>10. ASSUME NEW line \in EgLogLines, egEgress' = [egEgress EXCEPT ![s] = Eg!Appended(@, line)]
       PROVE  /\ egEgress' \in [Sandboxes -> Seq(EgLogLines)] /\ EgRoomForLines'
              /\ \A b \in Sandboxes \ {s} : egEgress'[b] = egEgress[b]
              /\ egEgress'[s] = Eg!Appended(egEgress[s], line)
  <2>1. Eg!Appended(egEgress[s], line) \in Seq(EgLogLines)
        /\ Len(Eg!Appended(egEgress[s], line)) <= Len(egEgress[s]) + 1
    BY <1>1, <1>8, EgAppendedIsLog
  <2>2. /\ egEgress' \in [Sandboxes -> Seq(EgLogLines)] /\ egEgress'[s] = Eg!Appended(egEgress[s], line)
        /\ \A b \in Sandboxes \ {s} : egEgress'[b] = egEgress[b]
    BY <1>1, <1>8, <1>10, <2>1
  <2>3. ASSUME NEW b \in Sandboxes
        PROVE  Len(egEgress'[b]) + Cardinality(Eg!InFlight(b)') <= MaxDenied
    <3>1. CASE b = s
      <4>1. Len(egEgress'[s]) \in Nat /\ Len(egEgress'[s]) <= Len(egEgress[s]) + 1
        <5>1. Len(Eg!Appended(egEgress[s], line)) \in Nat
          BY <2>1
        <5>2. egEgress'[s] = Eg!Appended(egEgress[s], line)
          BY <2>2
        <5> HIDE DEF Eg!Appended
        <5> QED BY <2>1, <5>1, <5>2
      <4>2. Len(egEgress[s]) \in Nat /\ Cardinality(Eg!InFlight(s)) \in Nat
            /\ Len(egEgress[s]) + Cardinality(Eg!InFlight(s)) <= MaxDenied
        BY <1>9
      <4>3. Len(egEgress'[s]) + Cardinality(Eg!InFlight(s)') <= MaxDenied
        BY <1>7, <1>8, <4>1, <4>2
      <4> QED BY <3>1, <4>3
    <3>2. CASE b # s
      <4>1. egEgress'[b] = egEgress[b]
        BY <2>2, <3>2
      <4> QED BY <1>6, <1>8, <1>9, <4>1
    <3> QED BY <3>1, <3>2
  <2> QED BY <2>2, <2>3 DEF EgRoomForLines
<1>11. ASSUME egEgress' = [egEgress EXCEPT ![s] = Eg!Appended(@, h)],
              egAnswered' = IF s \notin egRegistered \/ Eg!EndsCut(egEgress[s]) THEN egAnswered
                            ELSE [egAnswered EXCEPT ![s][h] = @ + 1],
              egFaults' = egFaults
       PROVE  EgLogInv'
  <2>1. h \in EgLogLines
    BY <1>1 DEF EgLogLines
  <2>2. /\ egEgress' \in [Sandboxes -> Seq(EgLogLines)] /\ EgRoomForLines'
        /\ \A b \in Sandboxes \ {s} : egEgress'[b] = egEgress[b]
        /\ egEgress'[s] = Eg!Appended(egEgress[s], h)
    BY <1>10, <1>11, <2>1
  <2>3. egAnswered[s] \in [ProxyHosts -> Nat] /\ egAnswered[s][h] \in Nat
    BY <1>1, <1>8
  <2>4. /\ egAnswered' \in [Sandboxes -> [ProxyHosts -> Nat]]
        /\ \A b \in Sandboxes, g \in ProxyHosts : b # s \/ g # h => egAnswered'[b][g] = egAnswered[b][g]
        /\ Eg!EndsCut(egEgress[s]) => egAnswered'[s][h] = egAnswered[s][h]
        /\ egAnswered'[s][h] <= egAnswered[s][h] + 1
    <3>1. CASE egAnswered' = egAnswered
      BY <1>1, <1>8, <2>3, <3>1
    <3>2. CASE egAnswered' = [egAnswered EXCEPT ![s][h] = @ + 1] /\ ~Eg!EndsCut(egEgress[s])
      <4> DEFINE row == [egAnswered[s] EXCEPT ![h] = @ + 1]
      <4>1. row \in [ProxyHosts -> Nat] /\ row[h] = egAnswered[s][h] + 1
            /\ \A g \in ProxyHosts \ {h} : row[g] = egAnswered[s][g]
        BY <1>1, <2>3
      <4>2. egAnswered' = [egAnswered EXCEPT ![s] = row]
        BY <1>1, <1>8, <3>2
      <4> HIDE DEF row
      <4>3. egAnswered'[s] = row /\ \A b \in Sandboxes \ {s} : egAnswered'[b] = egAnswered[b]
        BY <1>1, <1>8, <4>2
      <4>4. egAnswered' \in [Sandboxes -> [ProxyHosts -> Nat]]
        BY <1>1, <1>8, <4>1, <4>2
      <4> QED BY <1>1, <2>3, <3>2, <4>1, <4>3, <4>4
    <3> QED BY <1>11, <3>1, <3>2
  <2>5. ASSUME NEW b \in Sandboxes, NEW g \in ProxyHosts
        PROVE  egAnswered'[b][g] <= Cardinality(Eg!Naming(egEgress'[b], g))
    <3>1. /\ egAnswered[b][g] <= Cardinality(Eg!Naming(egEgress[b], g))
          /\ Cardinality(Eg!Naming(egEgress[b], g)) \in Nat /\ egAnswered[b][g] \in Nat
      BY EgCounting, <1>8, EgNamingIsFinite DEF EgLogInv, Eg!DenialsAreListed
    <3>2. CASE b # s
      BY <2>2, <2>4, <3>1, <3>2
    <3>3. CASE b = s /\ Eg!EndsCut(egEgress[s])
      <4>1. Cardinality(Eg!Naming(egEgress[s], g)) <= Cardinality(Eg!Naming(egEgress'[s], g))
        BY <1>1, <1>8, <2>1, <2>2, EgAppendedIsLog
      <4>2. egAnswered'[s][g] = egAnswered[s][g]
        BY <1>1, <2>4, <3>3
      <4>3. Cardinality(Eg!Naming(egEgress'[s], g)) \in Nat
        BY <1>1, <2>2, EgNamingIsFinite
      <4> QED BY <3>1, <3>3, <4>1, <4>2, <4>3
    <3>4. CASE b = s /\ ~Eg!EndsCut(egEgress[s])
      <4>1. Cardinality(Eg!Naming(egEgress'[s], g)) =
              IF h = g THEN Cardinality(Eg!Naming(egEgress[s], g)) + 1 ELSE Cardinality(Eg!Naming(egEgress[s], g))
        BY <1>1, <1>8, <2>1, <2>2, <3>4, EgAppendedCounts
      <4>2. CASE g = h
        BY <2>3, <2>4, <3>1, <3>4, <4>1, <4>2
      <4>3. CASE g # h
        BY <2>4, <3>1, <3>4, <4>1, <4>3
      <4> QED BY <4>2, <4>3
    <3> QED BY <3>2, <3>3, <3>4
  <2>6. EgLogType'
    BY <1>2, <1>11, <2>2, <2>4 DEF EgLogInv, EgLogType
  <2>7. Eg!DenialsAreListed'
    BY EgCounting, <2>5 DEF Eg!DenialsAreListed
  <2> QED BY <2>2, <2>6, <2>7 DEF EgLogInv
<1>12. ASSUME egEgress' = [egEgress EXCEPT ![s] = Eg!Appended(@, Eg!CutLine)], egAnswered' = egAnswered,
              egFaults < MaxRestarts, egFaults' = egFaults + 1
       PROVE  EgLogInv'
  <2>1. Eg!CutLine \in EgLogLines
    BY DEF EgLogLines
  <2>2. /\ egEgress' \in [Sandboxes -> Seq(EgLogLines)] /\ EgRoomForLines'
        /\ \A b \in Sandboxes \ {s} : egEgress'[b] = egEgress[b]
        /\ egEgress'[s] = Eg!Appended(egEgress[s], Eg!CutLine)
    BY <1>10, <1>12, <2>1
  <2>3. ASSUME NEW b \in Sandboxes, NEW g \in ProxyHosts
        PROVE  egAnswered'[b][g] <= Cardinality(Eg!Naming(egEgress'[b], g))
    <3>1. egAnswered[b][g] <= Cardinality(Eg!Naming(egEgress[b], g)) /\ egAnswered[b][g] \in Nat
      BY EgCounting, <1>8 DEF EgLogInv, Eg!DenialsAreListed
    <3>2. Cardinality(Eg!Naming(egEgress[b], g)) <= Cardinality(Eg!Naming(egEgress'[b], g))
          /\ Cardinality(Eg!Naming(egEgress[b], g)) \in Nat /\ Cardinality(Eg!Naming(egEgress'[b], g)) \in Nat
      <4>1. egEgress[b] \in Seq(EgLogLines) /\ egEgress'[b] \in Seq(EgLogLines)
        BY <1>8, <2>2
      <4>2. CASE egEgress'[b] = egEgress[b]
        BY <4>1, <4>2, EgNamingIsFinite
      <4>3. CASE b = s /\ egEgress'[s] = Eg!Appended(egEgress[s], Eg!CutLine)
        <5>1. Cardinality(Eg!Naming(egEgress[s], g)) <= Cardinality(Eg!Naming(Eg!Appended(egEgress[s], Eg!CutLine), g))
          BY <1>8, <2>1, EgAppendedIsLog
        <5> QED BY <4>1, <4>3, <5>1, EgNamingIsFinite
      <4> QED BY <2>2, <4>2, <4>3
    <3> QED BY <1>12, <3>1, <3>2
  <2>4. egFaults' \in 0..MaxRestarts
    BY <1>8, <1>12 DEF EgLogInv, EgLogType
  <2> QED BY EgCounting, <1>2, <1>12, <2>2, <2>3, <2>4 DEF EgLogInv, EgLogType, Eg!DenialsAreListed
<1>14. ASSUME UNCHANGED <<egEgress, egAnswered>>, egFaults < MaxRestarts, egFaults' = egFaults + 1
       PROVE  EgLogInv'
  <2>1. EgRoomForLines'
    BY <1>6, <1>8, <1>9, <1>14 DEF EgRoomForLines
  <2>2. egFaults' \in 0..MaxRestarts
    BY <1>8, <1>14 DEF EgLogInv, EgLogType
  <2> QED BY <1>2, <1>14, <2>1, <2>2 DEF EgLogInv, EgLogType, Eg!DenialsAreListed
<1>13. ASSUME UNCHANGED <<egEgress, egAnswered, egFaults>> PROVE EgLogInv'
  <2>1. EgRoomForLines'
    BY <1>6, <1>8, <1>9, <1>13 DEF EgRoomForLines
  <2> QED BY <1>2, <1>13, <2>1 DEF EgLogInv, EgLogType, Eg!DenialsAreListed
<1> QED BY <1>11, <1>12, <1>13, <1>14 DEF Eg!Deny, Eg!DenyUnrecorded, Eg!Finish

LEMMA EgConnectKeepsLog ==
  ASSUME EgAssumptions, EgIInv, EgLogInv, NEW q \in Actors, NEW s \in Sandboxes, NEW h \in ProxyHosts,
         Eg!Connect(q, s, h)
  PROVE  EgLogInv'
<1> DEFINE rec == [Eg!Idle EXCEPT !.at = "policy", !.box = s, !.host = h]
<1>1. /\ egReq[q] = Eg!Idle /\ egReq' = [egReq EXCEPT ![q] = rec]
      /\ Len(egEgress[s]) + Cardinality(Eg!InFlight(s)) < MaxDenied
      /\ egMixed' = egMixed /\ UNCHANGED <<egRegistered, egEgress, egAnswered, egFaults>>
  BY EgCounting DEF Eg!Connect, Eg!creds
<1>2. rec.at = "policy" /\ rec.box = s
  BY EgIdleIsRecord DEF EgReqRecords
<1> HIDE DEF rec
<1>3. \A x \in Actors : egReq'[x] = IF x = q THEN rec ELSE egReq[x]
  BY <1>1 DEF EgIInv, EgCredsType
<1>4. rec # Eg!Idle
  BY <1>2, EgIdleIsRecord
<1>5. Eg!InFlight(s)' = Eg!InFlight(s) \union {q} /\ q \notin Eg!InFlight(s)
      /\ \A b \in Sandboxes \ {s} : Eg!InFlight(b)' = Eg!InFlight(b)
  BY <1>1, <1>2, <1>3, <1>4 DEF Eg!InFlight
<1>6. Cardinality(Eg!InFlight(s)') = Cardinality(Eg!InFlight(s)) + 1 /\ Cardinality(Eg!InFlight(s)) \in Nat
  BY <1>5, EgInFlightIsFinite, FS_AddElement
<1>7. Len(egEgress[s]) \in Nat /\ MaxDenied \in Nat
  BY DEF EgLogInv, EgLogType, EgAssumptions, Eg!RegistrationAssumption
<1>8. EgRoomForLines'
  <2> SUFFICES ASSUME NEW b \in Sandboxes
               PROVE  Len(egEgress[b]) + Cardinality(Eg!InFlight(b)') <= MaxDenied
    BY <1>1 DEF EgRoomForLines
  <2>1. CASE b = s
    BY <1>1, <1>6, <1>7, <2>1
  <2>2. CASE b # s
    BY <1>5, <2>2 DEF EgLogInv, EgRoomForLines
  <2> QED BY <2>1, <2>2
<1> QED BY <1>1, <1>8 DEF EgLogInv, EgLogType, Eg!DenialsAreListed

LEMMA EgDeleteKeepsLog ==
  ASSUME EgAssumptions, EgIInv, EgLogInv, NEW s \in Sandboxes, Eg!Delete(s)
  PROVE  EgLogInv'
<1>1. /\ egRegistered' = egRegistered \ {s} /\ egEgress' = [egEgress EXCEPT ![s] = <<>>]
      /\ egAnswered' = [egAnswered EXCEPT ![s] = [h \in ProxyHosts |-> 0]]
      /\ egReq' = egReq /\ egMixed' = egMixed /\ egFaults' = egFaults
  BY DEF Eg!Delete, Eg!creds
<1>2. /\ egEgress' \in [Sandboxes -> Seq(EgLogLines)] /\ egAnswered' \in [Sandboxes -> [ProxyHosts -> Nat]]
      /\ egEgress'[s] = <<>> /\ \A h \in ProxyHosts : egAnswered'[s][h] = 0
      /\ \A b \in Sandboxes \ {s} : egEgress'[b] = egEgress[b] /\ egAnswered'[b] = egAnswered[b]
  <2>1. <<>> \in Seq(EgLogLines) /\ [h \in ProxyHosts |-> 0] \in [ProxyHosts -> Nat]
        /\ egEgress \in [Sandboxes -> Seq(EgLogLines)] /\ egAnswered \in [Sandboxes -> [ProxyHosts -> Nat]]
    BY DEF EgLogInv, EgLogType
  <2> QED BY <1>1, <2>1
<1>3. \A b \in Sandboxes : Eg!InFlight(b)' = Eg!InFlight(b) /\ Cardinality(Eg!InFlight(b)) \in Nat
  BY <1>1, EgInFlightIsFinite DEF Eg!InFlight
<1>4. Len(egEgress[s]) \in Nat /\ MaxDenied \in Nat /\ Len(egEgress'[s]) = 0
  BY <1>2 DEF EgLogInv, EgLogType, EgAssumptions, Eg!RegistrationAssumption
<1>5. EgRoomForLines'
  <2> SUFFICES ASSUME NEW b \in Sandboxes
               PROVE  Len(egEgress'[b]) + Cardinality(Eg!InFlight(b)) <= MaxDenied
    BY <1>3 DEF EgRoomForLines
  <2>1. Len(egEgress[b]) + Cardinality(Eg!InFlight(b)) <= MaxDenied
    BY DEF EgLogInv, EgRoomForLines
  <2>2. CASE b = s
    BY <1>3, <1>4, <2>1, <2>2
  <2>3. CASE b # s
    BY <1>2, <2>1, <2>3
  <2> QED BY <2>2, <2>3
<1>6. ASSUME NEW b \in Sandboxes, NEW h \in ProxyHosts
      PROVE  egAnswered'[b][h] <= Cardinality(Eg!Naming(egEgress'[b], h))
  <2>1. CASE b = s
    <3>1. Cardinality(Eg!Naming(egEgress'[s], h)) \in Nat
      BY <1>2, EgNamingIsFinite
    <3> QED BY <1>2, <2>1, <3>1
  <2>2. CASE b # s
    BY EgCounting, <1>2, <2>2 DEF EgLogInv, Eg!DenialsAreListed
  <2> QED BY <2>1, <2>2
<1> QED BY EgCounting, <1>1, <1>2, <1>5, <1>6 DEF EgLogInv, EgLogType, Eg!DenialsAreListed

LEMMA EgRestartKeepsLog ==
  ASSUME EgAssumptions, EgLogInv, Eg!Restart
  PROVE  EgLogInv'
<1>1. /\ egReq' = [q \in Actors |-> Eg!Idle] /\ egMixed' = {} /\ egFaults' = egFaults + 1
      /\ egFaults < MaxRestarts /\ UNCHANGED <<egRegistered, egEgress, egAnswered>>
  BY DEF Eg!Restart
<1>2. \A s \in Sandboxes : Eg!InFlight(s)' = {}
  BY <1>1 DEF Eg!InFlight
<1>3. ASSUME NEW s \in Sandboxes PROVE Len(egEgress[s]) + Cardinality(Eg!InFlight(s)') <= MaxDenied
  <2>1. Len(egEgress[s]) \in Nat /\ MaxDenied \in Nat
        /\ Len(egEgress[s]) + Cardinality(Eg!InFlight(s)) <= MaxDenied
    BY DEF EgLogInv, EgLogType, EgRoomForLines, EgAssumptions, Eg!RegistrationAssumption
  <2>2. Cardinality(Eg!InFlight(s)) \in Nat /\ Cardinality(Eg!InFlight(s)') = 0
    BY <1>2, EgInFlightIsFinite, FS_EmptySet
  <2> QED BY <2>1, <2>2
<1>4. egFaults' \in 0..MaxRestarts
  BY <1>1 DEF EgLogInv, EgLogType, EgAssumptions, Eg!RegistrationAssumption
<1> QED BY <1>1, <1>3, <1>4 DEF EgLogInv, EgLogType, EgRoomForLines, Eg!DenialsAreListed

LEMMA EgLogInvariance == ASSUME EgAssumptions PROVE Eg!Spec => []EgLogInv
<1>1. Eg!Init => EgLogInv
  <2> SUFFICES ASSUME Eg!Init PROVE EgLogInv
    OBVIOUS
  <2>1. EgLogType
    BY DEF Eg!Init, EgLogType, EgAssumptions, Eg!RegistrationAssumption
  <2>2. ASSUME NEW s \in Sandboxes PROVE Len(egEgress[s]) + Cardinality(Eg!InFlight(s)) <= MaxDenied
    <3>1. Eg!InFlight(s) = {} /\ Len(egEgress[s]) = 0
      BY DEF Eg!Init, Eg!InFlight
    <3> QED BY <3>1, FS_EmptySet DEF EgAssumptions, Eg!RegistrationAssumption
  <2>3. ASSUME NEW s \in Sandboxes, NEW h \in ProxyHosts
        PROVE  egAnswered[s][h] <= Cardinality(Eg!Naming(egEgress[s], h))
    <3>1. egEgress[s] \in Seq(EgLogLines) /\ egAnswered[s][h] = 0
      BY <2>1 DEF EgLogType, Eg!Init
    <3> QED BY <3>1, EgNamingIsFinite
  <2> QED BY EgCounting, <2>1, <2>2, <2>3 DEF EgLogInv, EgRoomForLines, Eg!DenialsAreListed
<1>2. EgIInv /\ EgLogInv /\ [Eg!Next]_(Eg!vars) => EgLogInv'
  <2> SUFFICES ASSUME EgIInv, EgLogInv, [Eg!Next]_(Eg!vars) PROVE EgLogInv'
    OBVIOUS
  <2>1. CASE UNCHANGED Eg!vars
    BY <2>1, EgLogUntouched DEF Eg!vars, Eg!InFlight, EgLogInv, EgLogType
  <2>2. ASSUME NEW q \in Actors, Eg!Deny(q) \/ Eg!DenyUnrecorded(q) \/ Eg!Finish(q) PROVE EgLogInv'
    <3>1. egReq[q].box \in Sandboxes /\ egReq[q].host \in ProxyHosts
      BY DEF EgIInv, EgCredsType, EgReqRecords
    <3> QED BY <2>2, <3>1, EgEndKeepsLog
  <2> QED BY <2>1, <2>2, EgRegisteringKeepsLog, EgGoingOnKeepsLog, EgConnectKeepsLog,
             EgDeleteKeepsLog, EgRestartKeepsLog DEF Eg!Next, Eg!Step
<1> QED BY <1>1, <1>2, EgInvariance, PTL DEF Eg!Spec

LEMMA EgKeepsTypes == ASSUME EgAssumptions PROVE Eg!Spec => []Eg!TypeOK
<1>1. EgIInv /\ EgLogInv => Eg!TypeOK
  <2> SUFFICES ASSUME EgIInv, EgLogInv PROVE Eg!TypeOK
    OBVIOUS
  <2>1. ASSUME NEW s \in Sandboxes, NEW h \in ProxyHosts PROVE egAnswered[s][h] \in 0..MaxDenied
    <3>1. egEgress[s] \in Seq(EgLogLines) /\ Len(egEgress[s]) \in Nat /\ egAnswered[s][h] \in Nat /\ MaxDenied \in Nat
      BY DEF EgLogInv, EgLogType, EgAssumptions, Eg!RegistrationAssumption
    <3>2. egAnswered[s][h] <= Cardinality(Eg!Naming(egEgress[s], h))
          /\ Len(egEgress[s]) + Cardinality(Eg!InFlight(s)) <= MaxDenied
      BY EgCounting DEF EgLogInv, EgRoomForLines, Eg!DenialsAreListed
    <3>3. Cardinality(Eg!InFlight(s)) \in Nat /\ Cardinality(Eg!Naming(egEgress[s], h)) <= Len(egEgress[s])
          /\ Cardinality(Eg!Naming(egEgress[s], h)) \in Nat
      BY <3>1, EgInFlightIsFinite, EgNamingIsFinite
    <3> QED BY <3>1, <3>2, <3>3
  <2>2. egAnswered \in [Sandboxes -> [ProxyHosts -> 0..MaxDenied]]
    <3>1. \A s \in Sandboxes : egAnswered[s] \in [ProxyHosts -> 0..MaxDenied]
      BY <2>1 DEF EgLogInv, EgLogType
    <3> QED BY <3>1 DEF EgLogInv, EgLogType
  <2>3. \A s \in Sandboxes : egEgress[s] \in Seq(ProxyHosts \union {Eg!CutLine, Eg!MergedLine})
    BY DEF EgLogInv, EgLogType, EgLogLines
  <2> QED BY <2>2, <2>3 DEF Eg!TypeOK, EgIInv, EgCredsType, EgReqRecords, EgLogInv, EgLogType
<1> QED BY <1>1, EgInvariance, EgLogInvariance, PTL

-----------------------------------------------------------------------------
(* What holds of the egress proxy beside the other parts.                   *)

LEMMA EgIsAPart == Spec => Eg!Spec
<1>1. Init => Eg!Init
  BY DEF Init
<1>2. [Next]_vars => [Eg!Next]_(Eg!vars)
  BY DEF Next, vars, eg, Eg!vars
<1> QED BY <1>1, <1>2, PTL DEF Spec, Eg!Spec

LEMMA EgHolds == Spec => [](EgIInv /\ EgLogInv) /\ [][Eg!Next]_(Eg!vars)
<1>1. EgAssumptions
  BY PartsAssumption DEF EgAssumptions, PartsAssumption
<1> QED BY <1>1, EgIsAPart, EgInvariance, EgLogInvariance, PTL DEF Eg!Spec

\* However requests, registrations and restarts interleave, a value goes only
\* to hosts it was registered for, save when its ID was registered again
\* meanwhile or by two clients at once (AddWithValue, GetForHost, Resolve).
THEOREM AlwaysSentWhereRegistered == Spec => []SentWhereRegistered
<1>1. EgIInv => Eg!SentWhereRegistered
  BY DEF EgIInv, EgGood, Eg!SentWhereRegistered
<1> QED BY <1>1, EgHolds, PTL DEF SentWhereRegistered

\* No configuration of a sandbox lets a request pass to a host of the default
\* deny list, nor any request in mode none (Policy.IsAllowed, PolicyFor).
THEOREM NoWayAroundDenyEver == ASSUME EgAssumptions PROVE Eg!Spec => []Eg!NoWayAroundDeny
<1>1. EgIInv => Eg!NoWayAroundDeny
  BY DEF EgIInv, EgPermitted, Eg!NoWayAroundDeny, Eg!IsAllowed, Eg!PolicyFor, Eg!Contains
<1> QED BY <1>1, EgInvariance, PTL

\* Each 403 the sandbox was told of has its line in egress.jsonl, whatever
\* requests are denied at once, save those lost with a cut line (RecordEgress).
THEOREM DenialsAlwaysListed == Spec => []DenialsAreListed
<1>1. EgLogInv => Eg!DenialsAreListed
  BY DEF EgLogInv
<1> QED BY <1>1, EgHolds, PTL DEF DenialsAreListed


-----------------------------------------------------------------------------
(* While the sandbox is known, the .stdout files present are numbered from  *)
(* 1 without a gap, so the number an exec takes is that of no file.  What   *)
(* the exec then writes is its own, unless another took the number too.     *)

LogStarted(e) == logExec[e].at # "running"

\* A file is there because an exec with its number has got so far.
LogFilesHaveExecs ==
  \A n \in Log!Numbers : logEntry[n]["stdout"] # "none" => \E e \in Execs : LogStarted(e) /\ logExec[e].seq = n

LogNumbersAreTaken == \A e \in Execs : LogStarted(e) => logExec[e].seq \in Log!Numbers

LogNoGaps ==
  /\ \A n \in Log!Numbers : logEntry[n]["stdout"] # "none" =>
       \A m \in 1..n : logEntry[m]["stdout"] # "none"
  /\ \A e \in Execs : Log!Recording(e) =>
       \A m \in 1..(logExec[e].seq - 1) : logEntry[m]["stdout"] # "none"

\* Record writes stdout, stderr and json, in this order.
LogWrittenInOrder ==
  /\ \A n \in Log!Numbers :
       /\ logEntry[n]["stderr"] # "none" => logEntry[n]["stdout"] # "none"
       /\ logEntry[n]["json"] # "none" => logEntry[n]["stderr"] # "none"
  /\ \A e \in Execs :
       /\ logExec[e].at \in {"stderr", "json"} => logEntry[logExec[e].seq]["stdout"] # "none"
       /\ logExec[e].at = "json" => logEntry[logExec[e].seq]["stderr"] # "none"

\* An exec that shares its number with none: what is there is its own.
LogOwnFiles(e) ==
  Log!Recording(e) /\ logExec[e].seq \notin logRaced =>
    /\ \A o \in Execs \ {e} : Log!Recording(o) => logExec[o].seq # logExec[e].seq
    /\ logExec[e].at \in {"mkdir", "stdout"} => logEntry[logExec[e].seq]["stdout"] = "none"
    /\ logExec[e].at \in {"stderr", "json"} => logEntry[logExec[e].seq]["stdout"] = e
    /\ logExec[e].at = "stderr" => logEntry[logExec[e].seq]["stderr"] = "none"
    /\ logExec[e].at = "json" => logEntry[logExec[e].seq]["stderr"] = e
    /\ logEntry[logExec[e].seq]["json"] = "none"

\* An entry that can be listed is of one exec in all of its parts.
LogOneExec(n) ==
  n \notin logRaced /\ logEntry[n]["json"] \in Execs =>
    logEntry[n]["stdout"] = logEntry[n]["json"] /\ logEntry[n]["stderr"] = logEntry[n]["json"]

LogListedIsThere(n) ==
  logListing[n] # "none" =>
    /\ logEntry[n]["stdout"] # "none" /\ logEntry[n]["stderr"] # "none"
    /\ n \notin logRaced => logEntry[n]["json"] = logListing[n]

LogIntact ==
  logKnown => /\ LogNoGaps /\ LogWrittenInOrder
              /\ \A e \in Execs : LogOwnFiles(e)
              /\ \A n \in Log!Numbers : LogOneExec(n) /\ LogListedIsThere(n)

LogInv == Log!TypeOK /\ LogFilesHaveExecs /\ LogNumbersAreTaken /\ LogIntact /\ Log!ListedCanBeRead

\* The part counts with a copy of FiniteSets of its own.
LEMMA LogCounting ==
  ASSUME NEW S
  PROVE  (Log!IsFiniteSet(S) <=> IsFiniteSet(S)) /\ Log!Cardinality(S) = Cardinality(S)
<1>1. Log!IsFiniteSet(S) <=> IsFiniteSet(S)
  BY DEF IsFiniteSet, Log!IsFiniteSet
<1>2. Log!Cardinality(S) = Cardinality(S)
  BY <1>1 DEF Cardinality, Log!Cardinality
<1> QED BY <1>1, <1>2

-----------------------------------------------------------------------------
LEMMA LogNumbersAreFinite ==
  ASSUME Log!ExecLogAssumption
  PROVE  /\ Cardinality(Execs) \in Nat /\ Log!Numbers \subseteq Nat
         /\ \A n \in Log!Numbers : 1 <= n /\ n <= Cardinality(Execs)
BY LogCounting, FS_CardinalityType DEF Log!ExecLogAssumption, Log!Numbers

LEMMA LogPresentIsFinite ==
  ASSUME Log!ExecLogAssumption
  PROVE  /\ IsFiniteSet(Log!Present("stdout")) /\ Log!Present("stdout") \subseteq Log!Numbers
         /\ Log!Sequence \in Nat
<1>1. IsFiniteSet(Log!Numbers)
  BY LogCounting, LogNumbersAreFinite, FS_Interval DEF Log!Numbers
<1>2. Log!Present("stdout") \in SUBSET Log!Numbers
  BY DEF Log!Present
<1>3. IsFiniteSet(Log!Present("stdout"))
  BY <1>1, <1>2, FS_Subset
<1> QED BY LogCounting, <1>2, <1>3, FS_CardinalityType DEF Log!Sequence

\* There is always a number left for an exec that has not taken one.
LEMMA LogNextIsANumber ==
  ASSUME Log!ExecLogAssumption, LogFilesHaveExecs, LogNumbersAreTaken, NEW e \in Execs, ~LogStarted(e)
  PROVE  Log!Sequence + 1 \in Log!Numbers
<1> DEFINE S == {o \in Execs : LogStarted(o)}
           T == {logExec[o].seq : o \in S}
           f == [o \in S |-> logExec[o].seq]
<1>1. IsFiniteSet(Execs \ {e}) /\ Cardinality(Execs \ {e}) = Cardinality(Execs) - 1
      /\ Cardinality(Execs) \in Nat
  BY LogCounting, FS_RemoveElement, FS_CardinalityType DEF Log!ExecLogAssumption
<1>2. S \in SUBSET (Execs \ {e})
  OBVIOUS
<1>3. IsFiniteSet(S) /\ Cardinality(S) <= Cardinality(Execs) - 1 /\ Cardinality(S) \in Nat
  BY <1>1, <1>2, FS_Subset, FS_CardinalityType
<1>4. f \in Surjection(S, T)
  BY DEF Surjection
<1>5. IsFiniteSet(T) /\ Cardinality(T) <= Cardinality(S) /\ Cardinality(T) \in Nat
  <2> HIDE DEF f, S, T
  <2> QED BY <1>3, <1>4, FS_Surjection, FS_CardinalityType
<1>6. Log!Present("stdout") \in SUBSET T
  BY DEF LogFilesHaveExecs, Log!Present
<1>7. Log!Sequence <= Cardinality(T)
  BY LogCounting, <1>5, <1>6, FS_Subset DEF Log!Sequence
<1> HIDE DEF S, T, f
<1> QED BY LogCounting, <1>1, <1>3, <1>5, <1>7, LogPresentIsFinite DEF Log!Numbers

\* The number after the files present is that of none, and those before are
\* all there.
LEMMA LogNextIsFree ==
  ASSUME Log!ExecLogAssumption, LogNoGaps, Log!Sequence + 1 \in Log!Numbers
  PROVE  /\ logEntry[Log!Sequence + 1]["stdout"] = "none"
         /\ \A m \in 1..Log!Sequence : logEntry[m]["stdout"] # "none"
<1> DEFINE P == Log!Present("stdout")
<1>1. Log!Sequence \in Nat /\ IsFiniteSet(P) /\ P \subseteq Log!Numbers
  BY LogPresentIsFinite
<1>2. logEntry[Log!Sequence + 1]["stdout"] = "none"
  <2> SUFFICES ASSUME logEntry[Log!Sequence + 1]["stdout"] # "none" PROVE FALSE
    OBVIOUS
  <2>1. \A m \in 1..(Log!Sequence + 1) : logEntry[m]["stdout"] # "none" /\ m \in Log!Numbers
    BY LogCounting, <1>1, LogNumbersAreFinite DEF LogNoGaps, Log!Numbers
  <2>2. 1..(Log!Sequence + 1) \in SUBSET P
    BY <2>1 DEF Log!Present
  <2>3. Cardinality(1..(Log!Sequence + 1)) <= Cardinality(P)
    BY <1>1, <2>2, FS_Subset
  <2>4. Cardinality(1..(Log!Sequence + 1)) = Log!Sequence + 1
    BY <1>1, FS_Interval
  <2> QED BY LogCounting, <1>1, <2>3, <2>4 DEF Log!Sequence
<1>3. ASSUME NEW m \in 1..Log!Sequence, logEntry[m]["stdout"] = "none" PROVE FALSE
  <2>1. m \in Log!Numbers /\ m \in Nat /\ m >= 1 /\ m <= Log!Sequence
    BY LogCounting, <1>1, LogNumbersAreFinite DEF Log!Numbers
  <2>2. ASSUME NEW n \in P PROVE n \in 1..(m - 1)
    <3>1. n \in Log!Numbers /\ logEntry[n]["stdout"] # "none"
      BY DEF Log!Present
    <3>2. ~(m \in 1..n)
      BY <1>3, <3>1 DEF LogNoGaps
    <3>3. n \in Nat /\ n >= 1
      BY <3>1, LogNumbersAreFinite DEF Log!Numbers
    <3> QED BY <2>1, <3>2, <3>3
  <2>3. P \in SUBSET (1..(m - 1))
    BY <2>2
  <2>4. IsFiniteSet(1..(m - 1)) /\ Cardinality(1..(m - 1)) = m - 1
    BY <2>1, FS_Interval
  <2>5. Cardinality(P) <= m - 1
    BY <2>3, <2>4, FS_Subset
  <2> QED BY LogCounting, <1>1, <2>1, <2>5 DEF Log!Sequence
<1> QED BY <1>2, <1>3

-----------------------------------------------------------------------------
(* What the steps leave.                                                    *)

LogRecords == [at : Log!Steps, seq : {0} \union Log!Numbers]

LEMMA LogExecAfter ==
  ASSUME logExec \in [Execs -> LogRecords], NEW e \in Execs, NEW rec \in LogRecords,
         logExec' = [logExec EXCEPT ![e] = rec]
  PROVE  /\ logExec' \in [Execs -> LogRecords] /\ logExec'[e] = rec
         /\ \A o \in Execs \ {e} : logExec'[o] = logExec[o]
BY Zenon

LEMMA LogEntryAfter ==
  ASSUME logEntry \in [Log!Numbers -> [Log!Parts -> Log!Contents]], NEW n \in Log!Numbers, NEW half \in Log!Parts,
         NEW c \in Log!Contents, logEntry' = [logEntry EXCEPT ![n][half] = c]
  PROVE  /\ logEntry' \in [Log!Numbers -> [Log!Parts -> Log!Contents]] /\ logEntry'[n][half] = c
         /\ \A m \in Log!Numbers, p \in Log!Parts : m # n \/ p # half => logEntry'[m][p] = logEntry[m][p]
<1>1. logEntry[n] \in [Log!Parts -> Log!Contents]
  OBVIOUS
<1> DEFINE row == [logEntry[n] EXCEPT ![half] = c]
<1>2. row \in [Log!Parts -> Log!Contents] /\ row[half] = c /\ \A p \in Log!Parts \ {half} : row[p] = logEntry[n][p]
  BY <1>1
<1>3. logEntry' = [logEntry EXCEPT ![n] = row]
  OBVIOUS
<1> HIDE DEF row
<1> QED BY <1>2, <1>3

LEMMA LogPartsAre == Log!Parts = {"stdout", "stderr", "json"}
BY DEF Log!Parts, Log!Streams

\* An exec opens the log: its number is free, while the sandbox is known.
LEMMA LogOpenLogKeeps ==
  ASSUME Log!ExecLogAssumption, LogInv, NEW e \in Execs, Log!OpenLog(e)
  PROVE  LogInv'
<1> DEFINE n == Log!Sequence + 1
           rec == [at |-> "mkdir", seq |-> n]
<1>1. logExec[e].at = "running" /\ logExec' = [logExec EXCEPT ![e] = rec]
      /\ logRaced' = logRaced \union {m \in {n} : \E o \in Execs \ {e} : Log!Recording(o) /\ logExec[o].seq = m}
      /\ UNCHANGED <<logEntry, logKnown, logListing, logFetched, logCrashes>>
  BY DEF Log!OpenLog
<1>2. n \in Log!Numbers
  BY <1>1, LogNextIsANumber DEF LogInv, LogStarted
<1>3. rec \in LogRecords /\ rec.at = "mkdir" /\ rec.seq = n
  BY <1>2 DEF LogRecords, Log!Steps, Log!Parts, Log!Streams
<1>4. logKnown => logEntry[n]["stdout"] = "none" /\ \A m \in 1..(n - 1) : logEntry[m]["stdout"] # "none"
  BY <1>2, LogNextIsFree, LogPresentIsFinite DEF LogInv, LogIntact
<1> HIDE DEF n, rec
<1>5. logExec \in [Execs -> LogRecords]
  BY DEF LogInv, Log!TypeOK, LogRecords
<1>6. /\ logExec' \in [Execs -> LogRecords] /\ logExec'[e] = rec
      /\ \A o \in Execs \ {e} : logExec'[o] = logExec[o]
  BY <1>1, <1>3, <1>5, LogExecAfter
<1>7. Log!TypeOK'
  BY <1>1, <1>2, <1>6 DEF LogInv, Log!TypeOK, LogRecords
<1>8. LogFilesHaveExecs' /\ LogNumbersAreTaken'
  BY <1>1, <1>2, <1>3, <1>6 DEF LogInv, LogFilesHaveExecs, LogNumbersAreTaken, LogStarted
<1>9. Log!ListedCanBeRead'
  BY <1>1 DEF LogInv, Log!ListedCanBeRead
<1>10. ASSUME logKnown' PROVE LogIntact'
  <2>1. logKnown /\ LogIntact
    BY <1>1, <1>10 DEF LogInv
  <2>2. LogNoGaps'
    <3>1. \A m \in Log!Numbers : logEntry'[m]["stdout"] # "none" =>
            \A k \in 1..m : logEntry'[k]["stdout"] # "none"
      BY <1>1, <2>1 DEF LogIntact, LogNoGaps
    <3>2. ASSUME NEW o \in Execs, Log!Recording(o)'
          PROVE  \A m \in 1..(logExec'[o].seq - 1) : logEntry'[m]["stdout"] # "none"
      <4>1. CASE o = e
        BY <1>1, <1>3, <1>4, <1>6, <2>1, <4>1
      <4>2. CASE o # e
        BY <1>1, <1>6, <2>1, <3>2, <4>2 DEF LogIntact, LogNoGaps, Log!Recording
      <4> QED BY <4>1, <4>2
    <3> QED BY <3>1, <3>2 DEF LogNoGaps
  <2>3. LogWrittenInOrder'
    BY <1>1, <1>3, <1>6, <2>1 DEF LogIntact, LogWrittenInOrder
  <2>4. logEntry[n]["stdout"] = "none" /\ logEntry[n]["stderr"] = "none" /\ logEntry[n]["json"] = "none"
    BY <1>2, <1>4, <2>1 DEF LogIntact, LogWrittenInOrder
  <2>5. ASSUME NEW o \in Execs PROVE LogOwnFiles(o)'
    <3> SUFFICES ASSUME Log!Recording(o)', logExec'[o].seq \notin logRaced' PROVE LogOwnFiles(o)'
      BY DEF LogOwnFiles
    <3>1. CASE o = e
      <4>1. n \notin logRaced'
        BY <1>3, <1>6, <3>1
      <4>2. \A x \in Execs \ {e} : Log!Recording(x) => logExec[x].seq # n
        BY <1>1, <4>1
      <4> QED BY <1>1, <1>3, <1>6, <2>4, <3>1, <4>2 DEF LogOwnFiles, Log!Recording
    <3>2. CASE o # e
      <4>1. logExec'[o] = logExec[o] /\ Log!Recording(o) /\ logExec[o].seq \notin logRaced
        BY <1>1, <1>6, <3>2 DEF Log!Recording
      <4>2. logExec[o].seq # n
        BY <1>1, <1>6, <3>2, <4>1
      <4> QED BY <1>1, <1>3, <1>6, <2>1, <3>2, <4>1, <4>2 DEF LogIntact, LogOwnFiles, Log!Recording
    <3> QED BY <3>1, <3>2
  <2>6. \A m \in Log!Numbers : LogOneExec(m)' /\ LogListedIsThere(m)'
    BY <1>1, <2>1 DEF LogIntact, LogOneExec, LogListedIsThere
  <2> QED BY <2>2, <2>3, <2>5, <2>6 DEF LogIntact
<1> QED BY <1>7, <1>8, <1>9, <1>10 DEF LogInv, LogIntact

\* An exec moves on, or gives up, without a file.
LEMMA LogGoOnKeeps ==
  ASSUME Log!ExecLogAssumption, LogInv, NEW e \in Execs, NEW at \in {"stdout", "done"},
         at = "stdout" => logExec[e].at = "mkdir", at = "done" => ~logKnown,
         logExec[e].at # "running", logExec' = [logExec EXCEPT ![e].at = at],
         UNCHANGED <<logEntry, logKnown, logListing, logFetched, logRaced, logCrashes>>
  PROVE  LogInv'
<1> DEFINE rec == [logExec[e] EXCEPT !.at = at]
<1>1. logExec \in [Execs -> LogRecords] /\ logExec[e] \in LogRecords
  BY DEF LogInv, Log!TypeOK, LogRecords
<1>2. rec \in LogRecords /\ rec.at = at /\ rec.seq = logExec[e].seq
  BY <1>1 DEF LogRecords, Log!Steps
<1>3. logExec' = [logExec EXCEPT ![e] = rec]
  BY <1>1
<1> HIDE DEF rec
<1>4. /\ logExec' \in [Execs -> LogRecords] /\ logExec'[e] = rec
      /\ \A o \in Execs \ {e} : logExec'[o] = logExec[o]
  BY <1>1, <1>2, <1>3, LogExecAfter
<1>5. Log!TypeOK' /\ LogFilesHaveExecs' /\ LogNumbersAreTaken' /\ Log!ListedCanBeRead'
  BY <1>2, <1>4 DEF LogInv, Log!TypeOK, LogFilesHaveExecs, LogNumbersAreTaken, LogStarted,
     Log!ListedCanBeRead, LogRecords
<1>6. ASSUME logKnown PROVE LogIntact'
  <2>1. logExec[e].at = "mkdir" /\ logExec'[e].at = "stdout" /\ logExec'[e].seq = logExec[e].seq
    BY <1>2, <1>4, <1>6
  <2>2. \A o \in Execs : (Log!Recording(o)' <=> Log!Recording(o)) /\ logExec'[o].seq = logExec[o].seq
    BY <1>4, <2>1, LogPartsAre DEF Log!Recording
  <2>3. LogNoGaps' /\ LogWrittenInOrder'
    BY <1>4, <1>6, <2>1, <2>2 DEF LogInv, LogIntact, LogNoGaps, LogWrittenInOrder
  <2>4. ASSUME NEW o \in Execs PROVE LogOwnFiles(o)'
    BY <1>4, <1>6, <2>1, <2>2 DEF LogInv, LogIntact, LogOwnFiles
  <2>5. \A m \in Log!Numbers : LogOneExec(m)' /\ LogListedIsThere(m)'
    BY <1>6 DEF LogInv, LogIntact, LogOneExec, LogListedIsThere
  <2> QED BY <2>3, <2>4, <2>5 DEF LogIntact
<1> QED BY <1>5, <1>6 DEF LogInv, LogIntact

\* A file is written: it is the writer's, and nobody else's number unless
\* the number is raced.
LEMMA LogWriteKeeps ==
  ASSUME Log!ExecLogAssumption, LogInv, NEW e \in Execs, logExec[e].at \in Log!Parts,
         logEntry' = [logEntry EXCEPT ![logExec[e].seq][logExec[e].at] = e],
         logExec' = [logExec EXCEPT ![e].at = Log!After[logExec[e].at]],
         UNCHANGED <<logKnown, logListing, logFetched, logRaced, logCrashes>>
  PROVE  LogInv'
<1> DEFINE n == logExec[e].seq
           half == logExec[e].at
           rec == [logExec[e] EXCEPT !.at = Log!After[half]]
<1>1. logExec \in [Execs -> LogRecords] /\ logExec[e] \in LogRecords
      /\ logEntry \in [Log!Numbers -> [Log!Parts -> Log!Contents]]
  BY DEF LogInv, Log!TypeOK, LogRecords
<1>2. n \in Log!Numbers /\ half \in Log!Parts /\ Log!Recording(e) /\ LogStarted(e)
  BY LogPartsAre DEF LogInv, LogNumbersAreTaken, LogStarted, Log!Recording
<1>3. /\ Log!After[half] \in {"stderr", "json", "done"}
      /\ half = "stdout" => Log!After[half] = "stderr"
      /\ half = "stderr" => Log!After[half] = "json"
      /\ half = "json" => Log!After[half] = "done"
  BY <1>2, LogPartsAre DEF Log!After
<1>4. rec \in LogRecords /\ rec.at = Log!After[half] /\ rec.seq = n
  BY <1>1, <1>3 DEF LogRecords, Log!Steps
<1>5. logExec' = [logExec EXCEPT ![e] = rec]
  BY <1>1
<1>6. e \in Log!Contents /\ e # "none"
  BY DEF Log!Contents, Log!ExecLogAssumption
<1>7. logEntry' = [logEntry EXCEPT ![n][half] = e] /\ logExec[e].at = half /\ logExec[e].seq = n
  OBVIOUS
<1> HIDE DEF n, half, rec
<1>8. /\ logExec' \in [Execs -> LogRecords] /\ logExec'[e] = rec
      /\ \A o \in Execs \ {e} : logExec'[o] = logExec[o]
  BY <1>1, <1>4, <1>5, LogExecAfter
<1>9. /\ logEntry' \in [Log!Numbers -> [Log!Parts -> Log!Contents]] /\ logEntry'[n][half] = e
      /\ \A m \in Log!Numbers, p \in Log!Parts : m # n \/ p # half => logEntry'[m][p] = logEntry[m][p]
  BY <1>1, <1>2, <1>6, <1>7, LogEntryAfter
<1>10. \A m \in Log!Numbers, p \in Log!Parts : logEntry[m][p] # "none" => logEntry'[m][p] # "none"
  BY <1>6, <1>9
<1>11. Log!TypeOK'
  BY <1>8, <1>9 DEF LogInv, Log!TypeOK, LogRecords
<1>12. LogNumbersAreTaken' /\ Log!ListedCanBeRead'
  BY <1>2, <1>4, <1>8 DEF LogInv, LogNumbersAreTaken, LogStarted, Log!ListedCanBeRead
<1>13. LogFilesHaveExecs'
  <2> SUFFICES ASSUME NEW m \in Log!Numbers, logEntry'[m]["stdout"] # "none"
               PROVE  \E o \in Execs : logExec'[o].at # "running" /\ logExec'[o].seq = m
    BY DEF LogFilesHaveExecs, LogStarted
  <2>1. logExec'[e].at # "running" /\ logExec'[e].seq = n
    BY <1>3, <1>4, <1>8
  <2>2. CASE m = n
    BY <2>1, <2>2
  <2>3. CASE m # n
    <3>1. logEntry[m]["stdout"] # "none"
      BY <1>9, <2>3, LogPartsAre
    <3>2. PICK o \in Execs : LogStarted(o) /\ logExec[o].seq = m
      BY <3>1 DEF LogInv, LogFilesHaveExecs
    <3> QED BY <1>7, <1>8, <2>3, <3>2 DEF LogStarted
  <2> QED BY <2>2, <2>3
<1>14. ASSUME logKnown PROVE LogIntact'
  <2> USE <1>14
  <2>1. LogNoGaps /\ LogWrittenInOrder /\ (\A o \in Execs : LogOwnFiles(o))
        /\ \A m \in Log!Numbers : LogOneExec(m) /\ LogListedIsThere(m)
    BY DEF LogInv, LogIntact
  <2>2. \A o \in Execs : (Log!Recording(o)' => Log!Recording(o)) /\ logExec'[o].seq = logExec[o].seq
    BY <1>2, <1>4, <1>7, <1>8 DEF Log!Recording
  <2>3. LogNoGaps'
    <3>1. \A m \in Log!Numbers : \A k \in 1..m : k \in Log!Numbers
      BY LogCounting, LogNumbersAreFinite DEF Log!Numbers
    <3>2. \A o \in Execs : Log!Recording(o) => \A k \in 1..(logExec[o].seq - 1) : k \in Log!Numbers
      BY LogCounting, LogNumbersAreFinite, LogPartsAre DEF LogInv, LogNumbersAreTaken, LogStarted,
         Log!Recording, Log!Numbers
    <3>3. ASSUME NEW m \in Log!Numbers, logEntry'[m]["stdout"] # "none", NEW k \in 1..m
          PROVE  logEntry'[k]["stdout"] # "none"
      <4>1. CASE m = n /\ half = "stdout"
        <5>1. k = m \/ k \in 1..(n - 1)
          BY <4>1, LogNumbersAreFinite
        <5>2. k \in 1..(n - 1) => logEntry[k]["stdout"] # "none"
          BY <1>2, <1>7, <2>1 DEF LogNoGaps
        <5> QED BY <1>10, <3>1, <3>3, <5>1, <5>2, LogPartsAre
      <4>2. CASE m # n \/ half # "stdout"
        BY <1>9, <1>10, <2>1, <3>1, <3>3, <4>2, LogPartsAre DEF LogNoGaps
      <4> QED BY <4>1, <4>2
    <3>4. ASSUME NEW o \in Execs, Log!Recording(o)', NEW k \in 1..(logExec'[o].seq - 1)
          PROVE  logEntry'[k]["stdout"] # "none"
      BY <1>10, <2>1, <2>2, <3>2, <3>4, LogPartsAre DEF LogNoGaps
    <3> QED BY <3>3, <3>4 DEF LogNoGaps
  <2>4. LogWrittenInOrder'
    <3>1. \A o \in Execs : logExec[o].at \in Log!Parts => logExec[o].seq \in Log!Numbers
      BY LogPartsAre DEF LogInv, LogNumbersAreTaken, LogStarted
    <3>2. \A m \in Log!Numbers : /\ logEntry'[m]["stderr"] # "none" => logEntry'[m]["stdout"] # "none"
                                 /\ logEntry'[m]["json"] # "none" => logEntry'[m]["stderr"] # "none"
      BY <1>2, <1>7, <1>9, <1>10, <2>1, LogPartsAre DEF LogWrittenInOrder
    <3>3. ASSUME NEW o \in Execs
          PROVE  /\ logExec'[o].at \in {"stderr", "json"} => logEntry'[logExec'[o].seq]["stdout"] # "none"
                 /\ logExec'[o].at = "json" => logEntry'[logExec'[o].seq]["stderr"] # "none"
      <4>1. CASE o = e
        BY <1>2, <1>3, <1>4, <1>6, <1>7, <1>8, <1>9, <1>10, <2>1, <4>1, LogPartsAre DEF
           LogWrittenInOrder
      <4>2. CASE o # e
        BY <1>8, <1>10, <2>1, <3>1, <4>2, LogPartsAre DEF LogWrittenInOrder
      <4> QED BY <4>1, <4>2
    <3> QED BY <3>2, <3>3 DEF LogWrittenInOrder
  <2>5. ASSUME NEW o \in Execs PROVE LogOwnFiles(o)'
    <3> SUFFICES ASSUME Log!Recording(o)', logExec'[o].seq \notin logRaced' PROVE LogOwnFiles(o)'
      BY DEF LogOwnFiles
    <3>1. Log!Recording(o) /\ LogOwnFiles(o) /\ logExec'[o].seq = logExec[o].seq /\ logExec[o].seq \notin logRaced
          /\ logExec[o].seq \in Log!Numbers
      BY <2>1, <2>2, LogPartsAre DEF LogInv, LogNumbersAreTaken, LogStarted, Log!Recording
    <3>2. \A x \in Execs \ {o} : Log!Recording(x)' => logExec'[x].seq # logExec'[o].seq
      BY <2>2, <3>1 DEF LogOwnFiles
    <3>3. CASE o = e
      <4>1. logExec'[e].at = Log!After[half] /\ logExec'[e].seq = n /\ n \notin logRaced
        BY <1>4, <1>7, <1>8, <3>1, <3>3
      <4>2. half \in {"stdout", "stderr"}
        BY <1>2, <1>3, <3>3, <4>1, LogPartsAre DEF Log!Recording
      <4>3. CASE half = "stdout"
        <5>1. logEntry[n]["stderr"] = "none" /\ logEntry[n]["json"] = "none"
          BY <1>2, <1>7, <2>1, <4>3, <4>1, <3>1, <3>3 DEF LogOwnFiles, LogWrittenInOrder
        <5>2. logEntry'[n]["stdout"] = e /\ logEntry'[n]["stderr"] = "none" /\ logEntry'[n]["json"] = "none"
          BY <1>2, <1>9, <4>3, <5>1, LogPartsAre
        <5> QED BY <1>3, <3>2, <3>3, <4>1, <4>3, <5>2 DEF LogOwnFiles
      <4>4. CASE half = "stderr"
        <5>1. logEntry[n]["stdout"] = e /\ logEntry[n]["json"] = "none"
          BY <1>7, <3>1, <3>3, <4>4 DEF LogOwnFiles
        <5>2. logEntry'[n]["stdout"] = e /\ logEntry'[n]["stderr"] = e /\ logEntry'[n]["json"] = "none"
          BY <1>2, <1>9, <4>4, <5>1, LogPartsAre
        <5> QED BY <1>3, <3>2, <3>3, <4>1, <4>4, <5>2 DEF LogOwnFiles
      <4> QED BY <4>2, <4>3, <4>4
    <3>4. CASE o # e
      <4>1. logExec[o].seq # n
        BY <1>2, <1>7, <3>1, <3>4 DEF LogOwnFiles
      <4> QED BY <1>8, <1>9, <3>1, <3>2, <3>4, <4>1, LogPartsAre DEF LogOwnFiles
    <3> QED BY <3>3, <3>4
  <2>6. n \notin logRaced => logEntry[n]["json"] = "none"
    BY <1>2, <1>7, <2>1 DEF LogOwnFiles
  <2>7. ASSUME NEW m \in Log!Numbers PROVE LogOneExec(m)' /\ LogListedIsThere(m)'
    <3>1. CASE m = n
      <4>1. LogOneExec(m)'
        <5> SUFFICES ASSUME n \notin logRaced, logEntry'[n]["json"] \in Execs PROVE LogOneExec(m)'
          BY <3>1 DEF LogOneExec
        <5>1. half = "json"
          BY <1>2, <1>6, <1>9, <2>6, LogPartsAre DEF Log!ExecLogAssumption
        <5>2. logEntry[n]["stdout"] = e /\ logEntry[n]["stderr"] = e
          BY <1>2, <1>7, <2>1, <5>1 DEF LogOwnFiles
        <5> QED BY <1>2, <1>9, <3>1, <5>1, <5>2, LogPartsAre DEF LogOneExec
      <4>2. LogListedIsThere(m)'
        <5> SUFFICES ASSUME logListing[n] # "none" PROVE LogListedIsThere(m)'
          BY <3>1 DEF LogListedIsThere
        <5>1. n \in logRaced
          BY <1>2, <2>1, <2>6 DEF LogListedIsThere
        <5> QED BY <1>2, <1>10, <2>1, <3>1, <5>1, LogPartsAre DEF LogListedIsThere
      <4> QED BY <4>1, <4>2
    <3>2. CASE m # n
      BY <1>9, <2>1, <3>2, LogPartsAre DEF LogOneExec, LogListedIsThere
    <3> QED BY <3>1, <3>2
  <2> QED BY <2>3, <2>4, <2>5, <2>7 DEF LogIntact
<1> QED BY <1>11, <1>12, <1>13, <1>14 DEF LogInv, LogIntact

\* What is torn by a crash is a file an exec was about to write.
LEMMA LogCrashKeeps ==
  ASSUME Log!ExecLogAssumption, LogInv, Log!Crash
  PROVE  LogInv'
<1>1. PICK torn \in SUBSET {<<logExec[e].seq, logExec[e].at>> : e \in {o \in Execs : logExec[o].at \in Log!Parts}} :
        logEntry' = [n \in Log!Numbers |->
                       [half \in Log!Parts |-> IF <<n, half>> \in torn THEN "torn" ELSE logEntry[n][half]]]
  BY DEF Log!Crash
<1>2. /\ logCrashes < MaxLogCrashes /\ logCrashes' = logCrashes + 1
      /\ logExec' = [e \in Execs |-> IF Log!Recording(e) THEN [logExec[e] EXCEPT !.at = "done"] ELSE logExec[e]]
      /\ UNCHANGED <<logKnown, logListing, logFetched, logRaced>>
  BY DEF Log!Crash
<1>3. \A e \in Execs : logExec[e] \in LogRecords
  BY DEF LogInv, Log!TypeOK, LogRecords
<1>4. ASSUME NEW e \in Execs
      PROVE  /\ logExec'[e] \in LogRecords /\ ~Log!Recording(e)' /\ logExec'[e].seq = logExec[e].seq
             /\ logExec'[e].at \in Log!Parts => FALSE
             /\ LogStarted(e)' <=> LogStarted(e)
  <2>1. logExec[e] \in LogRecords
    BY <1>3
  <2>2. Log!Recording(e) => logExec'[e] = [logExec[e] EXCEPT !.at = "done"]
    BY <1>2
  <2>3. ~Log!Recording(e) => logExec'[e] = logExec[e]
    BY <1>2
  <2>4. [logExec[e] EXCEPT !.at = "done"] \in LogRecords /\ [logExec[e] EXCEPT !.at = "done"].at = "done"
        /\ [logExec[e] EXCEPT !.at = "done"].seq = logExec[e].seq
    BY <2>1 DEF LogRecords, Log!Steps
  <2> QED BY <2>1, <2>2, <2>3, <2>4, LogPartsAre DEF Log!Recording, LogStarted
<1>5. logExec' \in [Execs -> LogRecords]
  BY <1>2, <1>4
<1>6. \A n \in Log!Numbers, half \in Log!Parts :
        logEntry'[n][half] = IF <<n, half>> \in torn THEN "torn" ELSE logEntry[n][half]
  BY <1>1
<1>7. logEntry' \in [Log!Numbers -> [Log!Parts -> Log!Contents]]
  <2>1. \A n \in Log!Numbers, half \in Log!Parts : logEntry[n][half] \in Log!Contents
    BY DEF LogInv, Log!TypeOK
  <2>2. \A n \in Log!Numbers, half \in Log!Parts :
          (IF <<n, half>> \in torn THEN "torn" ELSE logEntry[n][half]) \in Log!Contents
    BY <2>1 DEF Log!Contents
  <2> QED BY <1>1, <2>2
<1>8. Log!TypeOK'
  <2>1. logCrashes' \in 0..MaxLogCrashes
    BY <1>2 DEF LogInv, Log!TypeOK, Log!ExecLogAssumption
  <2> QED BY <1>2, <1>5, <1>7, <2>1 DEF LogInv, Log!TypeOK, LogRecords
\* Which exec a torn file is of.
<1>9. ASSUME NEW n \in Log!Numbers, NEW half \in Log!Parts, <<n, half>> \in torn
      PROVE  \E e \in Execs : logExec[e].seq = n /\ logExec[e].at = half /\ Log!Recording(e) /\ LogStarted(e)
  <2>1. PICK e \in {o \in Execs : logExec[o].at \in Log!Parts} : <<n, half>> = <<logExec[e].seq, logExec[e].at>>
    BY <1>9
  <2> QED BY <2>1, LogPartsAre DEF Log!Recording, LogStarted
<1>10. LogFilesHaveExecs' /\ LogNumbersAreTaken' /\ Log!ListedCanBeRead'
  <2>1. LogFilesHaveExecs'
    <3> SUFFICES ASSUME NEW n \in Log!Numbers, logEntry'[n]["stdout"] # "none"
                 PROVE  \E e \in Execs : LogStarted(e)' /\ logExec'[e].seq = n
      BY DEF LogFilesHaveExecs
    <3>1. CASE <<n, "stdout">> \in torn
      <4>1. PICK e \in Execs : logExec[e].seq = n /\ LogStarted(e)
        BY <1>9, <3>1, LogPartsAre
      <4> QED BY <1>4, <4>1
    <3>2. CASE <<n, "stdout">> \notin torn
      <4>1. logEntry[n]["stdout"] # "none"
        BY <1>6, <3>2, LogPartsAre
      <4>2. PICK e \in Execs : LogStarted(e) /\ logExec[e].seq = n
        BY <4>1 DEF LogInv, LogFilesHaveExecs
      <4> QED BY <1>4, <4>2
    <3> QED BY <3>1, <3>2
  <2> QED BY <1>2, <1>4, <2>1 DEF LogInv, LogNumbersAreTaken, Log!ListedCanBeRead
<1>11. ASSUME logKnown PROVE LogIntact'
  <2>1. LogNoGaps /\ LogWrittenInOrder /\ (\A o \in Execs : LogOwnFiles(o))
        /\ \A m \in Log!Numbers : LogOneExec(m) /\ LogListedIsThere(m)
    BY <1>11 DEF LogInv, LogIntact
  <2>2. \A n \in Log!Numbers, half \in Log!Parts : logEntry[n][half] # "none" => logEntry'[n][half] # "none"
    BY <1>6
  <2>3. LogNoGaps'
    <3>1. \A m \in Log!Numbers : \A k \in 1..m : k \in Log!Numbers /\ (k = m \/ k \in 1..(m - 1))
      BY LogCounting, LogNumbersAreFinite DEF Log!Numbers
    <3>2. ASSUME NEW m \in Log!Numbers, logEntry'[m]["stdout"] # "none", NEW k \in 1..m
          PROVE  logEntry'[k]["stdout"] # "none"
      <4>1. CASE <<m, "stdout">> \in torn
        <5>1. PICK e \in Execs : logExec[e].seq = m /\ Log!Recording(e)
          BY <1>9, <4>1, LogPartsAre
        <5>2. k \in 1..(m - 1) => logEntry[k]["stdout"] # "none"
          BY <2>1, <5>1 DEF LogNoGaps
        <5> QED BY <2>2, <3>1, <3>2, <5>2, LogPartsAre
      <4>2. CASE <<m, "stdout">> \notin torn
        <5>1. logEntry[m]["stdout"] # "none"
          BY <1>6, <3>2, <4>2, LogPartsAre
        <5> QED BY <2>1, <2>2, <3>1, <3>2, <5>1, LogPartsAre DEF LogNoGaps
      <4> QED BY <4>1, <4>2
    <3> QED BY <1>4, <3>2 DEF LogNoGaps
  <2>4. LogWrittenInOrder'
    <3>1. ASSUME NEW n \in Log!Numbers, logEntry'[n]["stderr"] # "none"
          PROVE  logEntry'[n]["stdout"] # "none"
      <4>1. CASE <<n, "stderr">> \in torn
        <5>1. PICK e \in Execs : logExec[e].seq = n /\ logExec[e].at = "stderr"
          BY <1>9, <4>1, LogPartsAre
        <5> QED BY <2>1, <2>2, <5>1, LogPartsAre DEF LogWrittenInOrder
      <4>2. CASE <<n, "stderr">> \notin torn
        BY <1>6, <2>1, <2>2, <3>1, <4>2, LogPartsAre DEF LogWrittenInOrder
      <4> QED BY <4>1, <4>2
    <3>2. ASSUME NEW n \in Log!Numbers, logEntry'[n]["json"] # "none"
          PROVE  logEntry'[n]["stderr"] # "none"
      <4>1. CASE <<n, "json">> \in torn
        <5>1. PICK e \in Execs : logExec[e].seq = n /\ logExec[e].at = "json"
          BY <1>9, <4>1, LogPartsAre
        <5> QED BY <2>1, <2>2, <5>1, LogPartsAre DEF LogWrittenInOrder
      <4>2. CASE <<n, "json">> \notin torn
        BY <1>6, <2>1, <2>2, <3>2, <4>2, LogPartsAre DEF LogWrittenInOrder
      <4> QED BY <4>1, <4>2
    <3> QED BY <1>4, <3>1, <3>2, LogPartsAre DEF LogWrittenInOrder
  <2>5. \A o \in Execs : LogOwnFiles(o)'
    BY <1>4 DEF LogOwnFiles
  <2>6. ASSUME NEW n \in Log!Numbers PROVE LogOneExec(n)' /\ LogListedIsThere(n)'
    <3>1. n \notin logRaced /\ logEntry[n]["json"] # "none" =>
            /\ <<n, "stdout">> \notin torn /\ <<n, "stderr">> \notin torn
            /\ <<n, "json">> \notin torn
      <4> SUFFICES ASSUME n \notin logRaced, logEntry[n]["json"] # "none", NEW half \in Log!Parts,
                          <<n, half>> \in torn
                   PROVE  FALSE
        BY LogPartsAre
      <4>1. PICK e \in Execs : logExec[e].seq = n /\ Log!Recording(e)
        BY <1>9
      <4> QED BY <2>1, <4>1 DEF LogOwnFiles
    <3>2. n \notin logRaced /\ logEntry'[n]["json"] \in Execs => logEntry[n]["json"] = logEntry'[n]["json"]
      BY <1>6, LogPartsAre DEF Log!ExecLogAssumption
    <3>3. LogOneExec(n)'
      BY <1>2, <1>6, <2>1, <3>1, <3>2, LogPartsAre DEF LogOneExec, Log!ExecLogAssumption
    <3>4. LogListedIsThere(n)'
      <4> SUFFICES ASSUME logListing[n] # "none" PROVE LogListedIsThere(n)'
        BY <1>2 DEF LogListedIsThere
      <4>1. logEntry'[n]["stdout"] # "none" /\ logEntry'[n]["stderr"] # "none"
        BY <2>1, <2>2, LogPartsAre DEF LogListedIsThere
      <4>2. n \notin logRaced => logEntry'[n]["json"] = logListing[n]
        BY <1>6, <2>1, <3>1, LogPartsAre DEF LogListedIsThere
      <4> QED BY <1>2, <4>1, <4>2 DEF LogListedIsThere
    <3> QED BY <3>3, <3>4
  <2> QED BY <2>3, <2>4, <2>5, <2>6 DEF LogIntact
<1> QED BY <1>2, <1>8, <1>10, <1>11 DEF LogInv, LogIntact

LEMMA LogDeleteKeeps ==
  ASSUME Log!ExecLogAssumption, LogInv, Log!DeleteSandbox
  PROVE  LogInv'
<1>1. logKnown' = FALSE /\ logEntry' = Log!NoFiles /\ UNCHANGED <<logExec, logListing, logFetched, logRaced, logCrashes>>
  BY DEF Log!DeleteSandbox
<1>2. logEntry' \in [Log!Numbers -> [Log!Parts -> Log!Contents]]
      /\ \A n \in Log!Numbers, half \in Log!Parts : logEntry'[n][half] = "none"
  BY <1>1 DEF Log!NoFiles, Log!Contents
<1> QED BY <1>1, <1>2, LogPartsAre DEF LogInv, Log!TypeOK, LogFilesHaveExecs, LogNumbersAreTaken,
           LogStarted, LogIntact, Log!ListedCanBeRead

LEMMA LogReadersKeep ==
  ASSUME Log!ExecLogAssumption, LogInv,
         Log!List \/ \E n \in Log!Numbers, stream \in Log!Streams : Log!Fetch(n, stream)
  PROVE  LogInv'
<1>1. UNCHANGED <<logEntry, logExec, logKnown, logRaced, logCrashes>>
  BY DEF Log!List, Log!Fetch
<1>2. CASE Log!List
  <2>1. /\ logKnown /\ logListing' = [n \in Log!Numbers |-> Log!Shown(n)]
        /\ logFetched' = [n |-> 0, result |-> "none"]
    BY <1>2 DEF Log!List
  <2>2. \A n \in Log!Numbers : logListing'[n] = Log!Shown(n)
    BY <2>1
  <2>3. Log!TypeOK' /\ Log!ListedCanBeRead'
    BY <1>1, <2>1 DEF LogInv, Log!TypeOK, Log!Shown, Log!ListedCanBeRead
  <2>4. \A n \in Log!Numbers : LogOneExec(n)' /\ LogListedIsThere(n)'
    BY <1>1, <2>1, <2>2 DEF LogInv, LogIntact, LogOneExec, LogListedIsThere, Log!Shown,
       LogWrittenInOrder, Log!ExecLogAssumption
  <2>5. LogNoGaps' /\ LogWrittenInOrder' /\ \A e \in Execs : LogOwnFiles(e)'
    BY <1>1, <2>1 DEF LogInv, LogIntact, LogNoGaps, LogWrittenInOrder, LogOwnFiles, Log!Recording
  <2> QED BY <1>1, <2>3, <2>4, <2>5 DEF LogInv, LogFilesHaveExecs, LogNumbersAreTaken, LogStarted,
             LogIntact
<1>3. ASSUME NEW n \in Log!Numbers, NEW stream \in Log!Streams, Log!Fetch(n, stream) PROVE LogInv'
  <2>1. logListing[n] # "none" /\ logListing' = logListing
    BY <1>3 DEF Log!Fetch
  <2> DEFINE res == IF ~logKnown \/ logEntry[n][stream] = "none" THEN "missing"
                    ELSE IF logEntry[n][stream] = logListing[n] THEN "same" ELSE "other"
  <2>2. logFetched' = [n |-> n, result |-> res]
    BY <1>3 DEF Log!Fetch
  <2>3. res = "missing" => ~logKnown
    BY <2>1 DEF LogInv, LogIntact, LogListedIsThere, Log!Streams
  <2>4. res = "other" => n \in logRaced
    <3> SUFFICES ASSUME logKnown, n \notin logRaced PROVE logEntry[n][stream] = logListing[n]
      OBVIOUS
    <3>1. logEntry[n]["json"] = logListing[n] /\ logListing[n] \in Execs
      BY <2>1 DEF LogInv, LogIntact, LogListedIsThere, Log!TypeOK
    <3> QED BY <3>1 DEF LogInv, LogIntact, LogOneExec, Log!Streams
  <2>5. logFetched' \in [n : {0} \union Log!Numbers, result : {"none", "same", "other", "missing"}]
    BY <2>2
  <2> HIDE DEF res
  <2>6. Log!ListedCanBeRead'
    BY <1>1, <2>2, <2>3, <2>4 DEF Log!ListedCanBeRead
  <2> QED BY <1>1, <2>1, <2>5, <2>6 DEF LogInv, Log!TypeOK, LogFilesHaveExecs, LogNumbersAreTaken,
             LogStarted, LogIntact, LogNoGaps, LogWrittenInOrder, LogOwnFiles, Log!Recording,
             LogOneExec, LogListedIsThere
<1> QED BY <1>2, <1>3

LEMMA LogStepKeeps ==
  ASSUME Log!ExecLogAssumption, LogInv, [Log!Next]_(Log!vars)
  PROVE  LogInv'
<1>1. ASSUME NEW e \in Execs, Log!EnsureDir(e) PROVE LogInv'
  BY <1>1, LogGoOnKeeps DEF Log!EnsureDir
<1>2. ASSUME NEW e \in Execs, Log!WriteFile(e) PROVE LogInv'
  <2>1. logExec[e].at \in Log!Parts /\ logExec[e].at # "running" /\ UNCHANGED <<logKnown, logListing, logFetched, logRaced, logCrashes>>
    BY <1>2, LogPartsAre DEF Log!WriteFile
  <2>2. CASE /\ logEntry' = [logEntry EXCEPT ![logExec[e].seq][logExec[e].at] = e]
             /\ logExec' = [logExec EXCEPT ![e].at = Log!After[logExec[e].at]]
    BY <2>1, <2>2, LogWriteKeeps
  <2>3. CASE ~logKnown /\ logExec' = [logExec EXCEPT ![e].at = "done"] /\ UNCHANGED logEntry
    BY <2>1, <2>3, LogGoOnKeeps
  <2> QED BY <1>2, <2>2, <2>3 DEF Log!WriteFile
<1>3. CASE UNCHANGED Log!vars
  BY <1>3 DEF Log!vars, LogInv, Log!TypeOK, LogFilesHaveExecs, LogNumbersAreTaken, LogStarted,
     LogIntact, Log!ListedCanBeRead, LogNoGaps, LogWrittenInOrder, LogOwnFiles, Log!Recording,
     LogOneExec, LogListedIsThere
<1> QED BY <1>1, <1>2, <1>3, LogOpenLogKeeps, LogCrashKeeps, LogDeleteKeeps, LogReadersKeep DEF
           Log!Next

LEMMA LogInvariance == ASSUME Log!ExecLogAssumption PROVE Log!Spec => []LogInv
<1>1. Log!Init => LogInv
  <2> SUFFICES ASSUME Log!Init PROVE LogInv
    OBVIOUS
  <2>1. /\ \A n \in Log!Numbers, half \in Log!Parts : logEntry[n][half] = "none"
        /\ \A e \in Execs : logExec[e].at = "running" /\ logExec[e].seq = 0
        /\ \A n \in Log!Numbers : logListing[n] = "none"
        /\ logFetched.result = "none"
    BY DEF Log!Init, Log!NoFiles, Log!Unlisted
  <2>2. Log!TypeOK
    BY DEF Log!ExecLogAssumption, Log!Init, Log!TypeOK, Log!NoFiles, Log!Unlisted, Log!Contents,
       Log!Steps
  <2> QED BY <2>1, <2>2, LogPartsAre DEF LogInv, LogFilesHaveExecs, LogNumbersAreTaken, LogStarted,
             LogIntact, Log!ListedCanBeRead, LogNoGaps, LogWrittenInOrder, LogOwnFiles,
             Log!Recording, LogOneExec, LogListedIsThere, Log!ExecLogAssumption
<1>2. LogInv /\ [Log!Next]_(Log!vars) => LogInv'
  BY LogStepKeeps
<1> QED BY <1>1, <1>2, PTL DEF Log!Spec

-----------------------------------------------------------------------------
(* What holds of the exec logs beside the other parts.                      *)

LEMMA LogIsAPart == Spec => Log!Spec
<1>1. Init => Log!Init
  BY DEF Init
<1>2. [Next]_vars => [Log!Next]_(Log!vars)
  BY DEF Next, vars, log, Log!vars
<1> QED BY <1>1, <1>2, PTL DEF Spec, Log!Spec

LEMMA LogHolds == Spec => []LogInv /\ [][Log!Next]_(Log!vars)
<1>1. Log!ExecLogAssumption
  BY PartsAssumption DEF PartsAssumption
<1> QED BY <1>1, LogIsAPart, LogInvariance, PTL DEF Log!Spec

\* Whatever execs, crashes and readers do to the log at once, an entry that was
\* listed can be fetched until the sandbox is deleted, and is the output of the
\* exec it was listed for, save for a number two execs took (Manager.Record).
THEOREM ListedCanAlwaysBeRead == Spec => []ListedCanBeRead
<1>1. LogInv => Log!ListedCanBeRead
  BY DEF LogInv
<1> QED BY <1>1, LogHolds, PTL DEF ListedCanBeRead

\* "Entries are never overwritten across daemon restarts or manager
\* instances", with the same exception.
THEOREM EntriesNeverOverwritten == Spec => NeverOverwritten
<1> DEFINE Kept == \A n \in Log!Numbers, p \in Log!Parts :
         logKnown' /\ n \notin logRaced /\ logEntry[n][p] # "none" => logEntry'[n][p] = logEntry[n][p]
<1>1. LogInv /\ [Log!Next]_(Log!vars) => Kept
  <2> SUFFICES ASSUME LogInv, [Log!Next]_(Log!vars), NEW n \in Log!Numbers, NEW half \in Log!Parts,
                      logKnown', n \notin logRaced, logEntry[n][half] # "none"
               PROVE  logEntry'[n][half] = logEntry[n][half]
    OBVIOUS
  <2>1. logKnown
    BY DEF Log!Next, Log!OpenLog, Log!EnsureDir, Log!WriteFile, Log!Crash, Log!DeleteSandbox,
       Log!List, Log!Fetch, Log!vars
  <2>2. ASSUME NEW e \in Execs, Log!Recording(e), logExec[e].seq = n PROVE logExec[e].at # half
    BY <2>1, <2>2, LogPartsAre DEF LogInv, LogIntact, LogOwnFiles
  <2>3. CASE \E e \in Execs : Log!WriteFile(e)
    <3>1. PICK e \in Execs : Log!WriteFile(e)
      BY <2>3
    <3>2. logExec[e].seq \in Log!Numbers /\ logExec[e].at \in Log!Parts /\ Log!Recording(e)
      BY <3>1, LogPartsAre DEF Log!WriteFile, LogInv, LogNumbersAreTaken, LogStarted, Log!Recording
    <3>3. logExec[e].seq # n \/ logExec[e].at # half
      BY <2>2, <3>2
    <3>4. CASE logEntry' = [logEntry EXCEPT ![logExec[e].seq][logExec[e].at] = e]
      <4>1. logEntry[n] \in [Log!Parts -> Log!Contents] /\ logEntry \in [Log!Numbers -> [Log!Parts -> Log!Contents]]
        BY DEF LogInv, Log!TypeOK
      <4>2. CASE logExec[e].seq # n
        BY <3>2, <3>4, <4>1, <4>2
      <4>3. CASE logExec[e].seq = n
        <5>1. logEntry'[n] = [logEntry[n] EXCEPT ![logExec[e].at] = e]
          BY <3>4, <4>1, <4>3
        <5> QED BY <3>3, <4>1, <4>3, <5>1
      <4> QED BY <4>2, <4>3
    <3> QED BY <3>1, <3>4 DEF Log!WriteFile
  <2>4. CASE Log!Crash
    <3>1. PICK torn \in SUBSET {<<logExec[e].seq, logExec[e].at>> : e \in {o \in Execs : logExec[o].at \in Log!Parts}} :
            logEntry' = [m \in Log!Numbers |->
                           [p \in Log!Parts |-> IF <<m, p>> \in torn THEN "torn" ELSE logEntry[m][p]]]
      BY <2>4 DEF Log!Crash
    <3>2. <<n, half>> \notin torn
      <4> SUFFICES ASSUME <<n, half>> \in torn PROVE FALSE
        OBVIOUS
      <4>1. PICK e \in {o \in Execs : logExec[o].at \in Log!Parts} : <<n, half>> = <<logExec[e].seq, logExec[e].at>>
        OBVIOUS
      <4> QED BY <2>2, <4>1 DEF Log!Recording
    <3> QED BY <3>1, <3>2
  <2>5. CASE UNCHANGED logEntry
    BY <2>5
  <2> QED BY <2>1, <2>3, <2>4, <2>5 DEF Log!Next, Log!OpenLog, Log!EnsureDir, Log!DeleteSandbox,
             Log!List, Log!Fetch, Log!vars
<1>2. Spec => [][Kept]_(Log!vars)
  <2>1. LogInv /\ [Log!Next]_(Log!vars) => [Kept]_(Log!vars)
    BY <1>1
  <2> QED BY <2>1, LogHolds, PTL
<1> QED BY <1>2, PTL DEF NeverOverwritten, Log!NeverOverwritten
===============================================================================
