--------------------------- MODULE TemplateHistory ---------------------------
(***************************************************************************)
(* What users of the template library may take it for, with template.yaml, *)
(* index.json and the steps in which they are written left out: each       *)
(* template is the sequence of its revisions.  It begins as a built-in, an *)
(* import or a child of another, grows by one revision at a time, each of  *)
(* which restores an earlier one, and is gone as a whole when it is        *)
(* pruned.                                                                 *)
(*                                                                         *)
(* The promise ends for a template that is changed by two at once, pruned  *)
(* while it is written or in part only, or whose writer dies.              *)
(***************************************************************************)
EXTENDS Naturals, Sequences

CONSTANTS
  Names, Definitions,
  Builtin,   \* a name, and what the template of that name defines
  Importable \* the definitions a bundle may bring

VARIABLES
  history, \* the revisions of each template
  writing, \* what is being made of each
  broken   \* the templates for which the promise has ended

historyVars == <<history, writing, broken>>

Nothing == [is |-> "nothing"]
Begun(t) == [is |-> "begun", t |-> t]
Recorded == [is |-> "recorded"]

Blank == [def |-> "blank", gen |-> 0]
Anything == [def : Definitions \union {Blank.def}, gen : Nat]

Last(s) == s[Len(s)]

\* What a reader may find of a template: its last revision; while it is
\* written also what is written, or the emptied file.
Current(name) ==
  {t \in Anything : \/ name \in broken
                    \/ history[name] # << >> /\ t = Last(history[name])
                    \/ writing[name].is = "begun" /\ t \in {writing[name].t, Blank}}

\* The template that t is a child of: the same, one generation earlier.
Parent(t) == [t EXCEPT !.gen = @ - 1]

HistoryInit ==
  /\ history = [name \in Names |-> << >>]
  /\ writing = [name \in Names |-> Nothing]
  /\ broken = {}

Put(name, w) == writing' = [writing EXCEPT ![name] = w]

Begin(name, t) ==
  /\ name \notin broken /\ writing[name] = Nothing
  /\ Put(name, Begun(t))
  /\ UNCHANGED <<history, broken>>

Make(name, t) ==
  /\ history[name] = << >>
  /\ \/ name = Builtin /\ t = [def |-> Builtin, gen |-> 0]
     \/ t \in [def : Importable, gen : {1}]
     \/ \E source \in Names \ {name} : Parent(t) \in Current(source)
  /\ Begin(name, t)

Restore(name, n) ==
  /\ n \in DOMAIN history[name]
  /\ Begin(name, [def |-> history[name][n].def, gen |-> Last(history[name]).gen + 1])

Record(name) ==
  /\ writing[name].is = "begun"
  /\ history' = [history EXCEPT ![name] = Append(@, writing[name].t)]
  /\ Put(name, Recorded)
  /\ UNCHANGED broken

End(name) ==
  /\ writing[name] = Recorded
  /\ Put(name, Nothing)
  /\ UNCHANGED <<history, broken>>

Prune(name) ==
  /\ writing[name] = Nothing
  /\ history' = [history EXCEPT ![name] = << >>]
  /\ UNCHANGED <<writing, broken>>

\* Nothing is said any more of a template whose promise has ended.
Break(name) ==
  /\ writing[name] # Nothing \/ history[name] # << >>
  /\ broken' = broken \union {name}
  /\ history' = [history EXCEPT ![name] = << >>]
  /\ Put(name, Nothing)

HistoryNext ==
  \E name \in Names :
    \/ Prune(name) \/ Record(name) \/ End(name) \/ Break(name)
    \/ writing'[name].is = "begun" /\ Make(name, writing'[name].t)
    \/ \E n \in DOMAIN history[name] : Restore(name, n)

HistorySpec == HistoryInit /\ [][HistoryNext]_historyVars
=============================================================================
