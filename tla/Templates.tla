------------------------------ MODULE Templates ------------------------------
(***************************************************************************)
(* The template library (pkg/template) as the API (pkg/api/templates.go)   *)
(* and the CLI (cmd/pi-box/template) use it: template.yaml, the numbered   *)
(* revisions with their index.json, and the marker of the default          *)
(* template.  The daemon and every command share the files, unlocked.      *)
(*                                                                         *)
(* A template is its definition, which the content digest stands for, and  *)
(* the generation of its lineage.                                          *)
(***************************************************************************)
EXTENDS Naturals, FiniteSets, FiniteSetsExt, TLC

CONSTANTS
  Names,      \* template names
  Builtin,    \* one of them, which InstallDefaults restores when missing
  Bundles,    \* the bundles people import: [index, manifests, layers]
  Definitions,\* what a template may define
  Invalid,    \* the definitions Validate has problems with
  None,       \* no such file
  Cut,        \* a file os.WriteFile emptied and did not fill yet
  Requests,   \* request slots: API requests and CLI commands
  MaxAsked,   \* bound: how many of them, and of steps that leave a template
              \* half pruned
  MaxCrashes  \* bound: deaths of the daemon or of a command

Blank == "blank"  \* what an empty template.yaml defines: yaml takes it

TemplatesAssumption ==
  /\ Builtin \in Names /\ Builtin \in Definitions /\ Blank \notin Definitions
  /\ Invalid \subseteq Definitions /\ \A b \in Bundles : b.layers \subseteq Definitions
  /\ MaxAsked \in Nat /\ MaxCrashes \in Nat

\* Every request may restore the built-in beside its own change.
Numbers == 1..2 * MaxAsked
Templates == [def : Definitions \union {Blank}, gen : 0..2 * MaxAsked]
FileAssumption == None # Cut /\ {None, Cut} \cap Templates = {}

VARIABLES
  yaml,       \* template.yaml per name
  revision,   \* revisions/<n>.yaml per name
  index,      \* revisions/index.json per name: the numbers it lists, {} when it
              \* is missing or cut, which appendRevision does not tell apart
  default,    \* the name in the marker, or None
  op,         \* what each request is doing
  disturbed,  \* history: names whose writers overlapped, died or were pruned,
              \* or of which a prune has left something
  asked, crashes

files == <<yaml, revision, index>>
bounds == <<asked, crashes>>
vars == <<files, default, op, disturbed, bounds>>

NoRevisions == [n \in Numbers |-> None]
BuiltinTemplate == [def |-> Builtin, gen |-> 0]
Idle == [at |-> "idle", op |-> "list", name |-> Builtin, arg |-> None,
         into |-> Builtin, t |-> BuiltinTemplate, seen |-> {}]
Writing == {"clear", "fill", "history", "revision", "index", "reindex"}

TypeOK ==
  /\ yaml \in [Names -> Templates \union {None, Cut}]
  /\ revision \in [Names -> [Numbers -> Templates \union {None}]]
  /\ index \in [Names -> SUBSET Numbers]
  /\ default \in Names \union {None}
  /\ \A q \in Requests :
       /\ op[q].at \in Writing \union {"idle", "install", "act"}
       /\ op[q].into \in Names /\ op[q].name \in Names
       /\ op[q].t \in Templates /\ op[q].seen \subseteq Numbers
  /\ disturbed \subseteq Names
  /\ asked \in 0..MaxAsked /\ crashes \in 0..MaxCrashes

Init ==
  /\ yaml = [n \in Names |-> None]
  /\ revision = [n \in Names |-> NoRevisions]
  /\ index = [n \in Names |-> {}]
  /\ default = None
  /\ op = [q \in Requests |-> Idle]
  /\ disturbed = {}
  /\ asked = 0 /\ crashes = 0

-----------------------------------------------------------------------------
(* Reading.                                                                *)

\* Store.Get: fails only where there is no file.
Exists(name) == yaml[name] # None
Get(name) == IF yaml[name] = Cut THEN [def |-> Blank, gen |-> 0] ELSE yaml[name]

\* Store.History as appendRevision uses it: an error is an empty history.
History(name) == index[name]

\* The number of the next revision.
LastNumber(seen) == IF seen = {} THEN 1 ELSE Max(seen)  \* as if "+ 1" were missing
NextNumber(seen) == IF seen = {} THEN 1 ELSE Max(seen) + 1

\* ReadBundle: blobs that fail their digest are refused, the manifest has the
\* template's artifact type and one layer, the definition validates.
Readable(b) ==
  /\ b.digests = "match" /\ b.type = "template"
  /\ Cardinality(b.layers) = 1
  /\ b.layers \cap Invalid = {}

\* Generations stay within the bound: one more per request.
Child(t) == [def |-> t.def, gen |-> t.gen + 1]

-----------------------------------------------------------------------------
(* Requests.                                                               *)

Goto(q, step) == op' = [op EXCEPT ![q].at = step]
Reply(q) == op' = [op EXCEPT ![q] = Idle]

\* Whose template.yaml and revisions a request is writing.
Busy(q, name) == op[q].at \in Writing /\ op[q].into = name

Create(q, name, t) ==
  /\ LET o == IF op[q].at = "act" THEN [Idle EXCEPT !.op = op[q].op] ELSE op[q] IN
     op' = [op EXCEPT ![q] = [o EXCEPT !.at = "clear", !.into = name, !.t = t]]
  /\ disturbed' = disturbed \union
       {n \in {name} : \E other \in Requests \ {q} : Busy(other, n)}

Ask(q, kind, name, arg) ==
  /\ op[q] = Idle
  /\ asked < MaxAsked
  /\ asked' = asked + 1
  /\ op' = [op EXCEPT ![q] = [Idle EXCEPT !.at = "install", !.op = kind,
                                          !.name = name, !.arg = arg]]
  /\ UNCHANGED <<files, default, disturbed, crashes>>

\* InstallDefaults, before anything else: a built-in that is there, whatever
\* is in it, is left alone.
Install(q) ==
  /\ op[q].at = "install"
  /\ IF Exists(Builtin)
     THEN Goto(q, "act") /\ UNCHANGED disturbed
     ELSE Create(q, Builtin, BuiltinTemplate)
  /\ UNCHANGED <<files, default, bounds>>

Acting(q, kind) == op[q].at = "act" /\ op[q].op = kind

\* Store.Fork, Import and Rollback up to their writing.
Fork(q) ==
  LET name == op[q].name  source == op[q].arg IN
  /\ Acting(q, "fork") /\ ~Exists(name) /\ Exists(source)
  /\ Create(q, name, Child(Get(source)))
  /\ UNCHANGED <<files, default, bounds>>

Import(q) ==
  LET name == op[q].name  b == op[q].arg IN
  /\ Acting(q, "import") /\ Readable(b) /\ ~Exists(name)
  /\ \E d \in b.layers : Create(q, name, [def |-> d, gen |-> 1])
  /\ UNCHANGED <<files, default, bounds>>

\* Store.Rollback: what revision n defines, one generation after what is there.
Restorable(name, n) == revision[name][n] # None /\ Exists(name)
Rollback(q) ==
  LET name == op[q].name  n == op[q].arg IN
  /\ Acting(q, "rollback") /\ Restorable(name, n)
  /\ Create(q, name, [Child(Get(name)) EXCEPT !.def = revision[name][n].def])
  /\ UNCHANGED <<files, default, bounds>>

SetDefault(q) ==
  /\ Acting(q, "promote") /\ Exists(op[q].name)
  /\ default' = op[q].name
  /\ Reply(q)
  /\ UNCHANGED <<files, disturbed, bounds>>

\* What each of them refuses.  Validating, listing, comparing and exporting
\* change nothing either.
Refuse(q) ==
  LET name == op[q].name  arg == op[q].arg IN
  /\ \/ Acting(q, "fork") /\ (Exists(name) \/ ~Exists(arg))
     \/ Acting(q, "import") /\ (Exists(name) \/ ~Readable(arg))
     \/ Acting(q, "rollback") /\ ~Restorable(name, arg)
     \/ Acting(q, "promote") /\ ~Exists(name)
  /\ Reply(q)
  /\ UNCHANGED <<files, default, disturbed, bounds>>

\* Store.Create: template.yaml, in the two steps of os.WriteFile.
Clear(q) ==
  /\ op[q].at = "clear"
  /\ yaml' = [yaml EXCEPT ![op[q].into] = Cut]
  /\ Goto(q, "fill")
  /\ UNCHANGED <<revision, index, default, disturbed, bounds>>

FillOnly(q) ==  \* as if a rollback were not recorded
  /\ op[q].at = "fill"
  /\ yaml' = [yaml EXCEPT ![op[q].into] = op[q].t]
  /\ IF op[q].op = "rollback" /\ op[q].into # Builtin THEN Reply(q) ELSE Goto(q, "history")
  /\ UNCHANGED <<revision, index, default, disturbed, bounds>>
Fill(q) ==
  /\ op[q].at = "fill"
  /\ yaml' = [yaml EXCEPT ![op[q].into] = op[q].t]
  /\ Goto(q, "history")
  /\ UNCHANGED <<revision, index, default, disturbed, bounds>>

\* appendRevision.
ReadHistory(q) ==
  /\ op[q].at = "history"
  /\ op' = [op EXCEPT ![q].at = "revision", ![q].seen = History(op[q].into)]
  /\ UNCHANGED <<files, default, disturbed, bounds>>

WriteRevision(q) ==
  /\ op[q].at = "revision"
  /\ revision' = [revision EXCEPT ![op[q].into][NextNumber(op[q].seen)] = op[q].t]
  /\ Goto(q, "index")
  /\ UNCHANGED <<yaml, index, default, disturbed, bounds>>

ClearIndex(q) ==
  /\ op[q].at = "index"
  /\ index' = [index EXCEPT ![op[q].into] = {}]
  /\ Goto(q, "reindex")
  /\ UNCHANGED <<yaml, revision, default, disturbed, bounds>>

\* The built-in is in place: on with the request.
FillIndex(q) ==
  /\ op[q].at = "reindex"
  /\ index' = [index EXCEPT ![op[q].into] = op[q].seen \union {NextNumber(op[q].seen)}]
  /\ IF op[q].into = Builtin /\ op[q].t = BuiltinTemplate
     THEN op' = [op EXCEPT ![q].at = "act", ![q].seen = {}] ELSE Reply(q)
  /\ UNCHANGED <<yaml, revision, default, disturbed, bounds>>

\* The daemon dies, or a command is interrupted.
Die(q) ==
  /\ op[q] # Idle
  /\ crashes < MaxCrashes
  /\ crashes' = crashes + 1
  /\ disturbed' = disturbed \union {n \in Names : Busy(q, n)}
  /\ Reply(q)
  /\ UNCHANGED <<files, default, asked>>

\* `template prune`: every template, with its revisions, file after file in
\* whatever order, as far as it comes; another prune may finish it.
OnDisk(name) == {n \in Numbers : revision[name][n] # None}
Prune(name) ==
  /\ Exists(name) \/ OnDisk(name) # {} \/ index[name] # {}
  /\ \E y \in {None, yaml[name]}, left \in SUBSET OnDisk(name), i \in {{}, index[name]} :
     LET whole == y = None /\ left = {} /\ i = {} IN
     /\ IF whole THEN UNCHANGED asked ELSE asked < MaxAsked /\ asked' = asked + 1
     /\ yaml' = [yaml EXCEPT ![name] = y]
     /\ revision' = [revision EXCEPT ![name] = [n \in Numbers |-> IF n \in left THEN @[n] ELSE None]]
     /\ index' = [index EXCEPT ![name] = i]
     /\ disturbed' = disturbed \union {n \in {name} : ~whole \/ \E q \in Requests : Busy(q, n)}
     /\ UNCHANGED <<default, op, crashes>>

Step(q) ==
  \/ Install(q) \/ Fork(q) \/ Import(q) \/ Rollback(q) \/ SetDefault(q) \/ Refuse(q)
  \/ Clear(q) \/ Fill(q) \/ ReadHistory(q)
  \/ WriteRevision(q) \/ ClearIndex(q) \/ FillIndex(q) \/ Die(q)

Next ==
  \/ \E q \in Requests, name \in Names :
       \/ \E source \in Names : Ask(q, "fork", name, source)
       \/ \E b \in Bundles : Ask(q, "import", name, b)
       \/ \E n \in 1..2 : Ask(q, "rollback", name, n)
       \/ Ask(q, "promote", name, None)
  \/ \E q \in Requests : Step(q)
  \/ \E name \in Names : Prune(name)

Spec == Init /\ [][Next]_vars

-----------------------------------------------------------------------------
(* The histories that users of the library may take its files for.         *)

Histories == [name \in Names |->
  IF name \in disturbed THEN << >> ELSE [n \in OnDisk(name) |-> revision[name][n]]]

\* A revision is recorded when its file is written; listing it comes after.
Writer(name) == CHOOSE q \in Requests : Busy(q, name)
Writings == [name \in Names |->
  IF name \in disturbed \/ ~\E q \in Requests : Busy(q, name) THEN [is |-> "nothing"]
  ELSE IF op[Writer(name)].at \in {"index", "reindex"} THEN [is |-> "recorded"]
  ELSE [is |-> "begun", t |-> op[Writer(name)].t]]

Promise == INSTANCE TemplateHistory WITH
  history <- Histories, writing <- Writings, broken <- disturbed, Importable <- Definitions \ Invalid

\* Each step of the requests, the commands and the files they write between
\* them is a step of TemplateHistory or none that its users see: a template
\* is an append-only sequence of revisions, each a built-in, an import, a
\* child of what its source was or one that was there before, restored.
ImplementsHistory == Promise!HistorySpec

-----------------------------------------------------------------------------
(* Properties.                                                             *)

Quiet(name) == \A q \in Requests : ~Busy(q, name)

\* A template nobody is writing is its own last revision, its history has no
\* gap and its generations grow: nothing was changed without a record, by
\* fork, import, rollback or the reinstalled built-ins.  Writers that overlap
\* or die, a prune under a writer and one that broke off are the exceptions.
LatestIsCurrent ==
  \A name \in Names \ disturbed : Quiet(name) /\ Exists(name) =>
    LET last == Cardinality(History(name)) IN
    /\ History(name) = 1..last
    /\ yaml[name] = revision[name][last]
    /\ \A n \in 2..last : revision[name][n - 1].gen < revision[name][n].gen

\* A recorded revision is never written again, so that name@N and a rollback
\* to N mean what they meant: until the template is pruned, with the same
\* exceptions.
RevisionsAreKept ==
  [][\A name \in Names, n \in Numbers :
       Exists(name)' /\ name \notin disturbed' /\ revision[name][n] # None
         => revision'[name][n] = revision[name][n]]_vars
=============================================================================
