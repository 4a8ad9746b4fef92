-------------------------------- MODULE Parts --------------------------------
(***************************************************************************)
(* The components that share no state with each other, side by side: the   *)
(* first state chooses a part, and only that part moves.  A property of a  *)
(* part keeps the name it has in the part's module, and is stated and      *)
(* explained there.                                                        *)
(***************************************************************************)
EXTENDS Naturals, Sequences

CONSTANTS
  Actors,  \* the requests, commands and callers at work in a part
  None, Torn,
  \* Contexts
  Empty, Garbled, ContextNames, ContextDefinitions, ContextDaemons, Home, Elsewhere, MaxKills,
  \* ExecLog
  Execs, MaxLogCrashes,
  \* Templates
  TemplateNames, Builtin, Bundles, TemplateDefinitions, Invalid, MaxAsked, MaxDeaths,
  \* EgressProxy
  Sandboxes, ProxyHosts, Within, DefaultAllowlist, DefaultDeny, Config, CredentialIds,
  Registrations, MaxDenied, MaxRestarts,
  \* WorkspaceFiles
  FilePaths, Outputs, FileContents, Binary, Ignored, Remote, MaxBegun, MaxFaults,
  \* GuestControl
  GuestPaths, Base, GuestContents, LongContents, GuestTemplate, MaxCalls,
  \* Clients
  Terminals, BoxIds, BoxStates, Slots, MaxMishaps,
  \* ShellSession
  PipeSize, MaxTyped, MaxOutput

VARIABLES
  part,
  ctxFile, ctxReq, ctxKept, ctxDisturbed, ctxKills,
  logEntry, logExec, logKnown, logListing, logFetched, logRaced, logCrashes,
  tplYaml, tplRevision, tplIndex, tplDefault, tplOp, tplDisturbed, tplAsked, tplCrashes,
  egRegistered, egHosts, egValue, egAdding, egReq, egEgress, egAnswered, egMixed, egFaults,
  wsFiles, wsHead, wsIndex, wsLock, wsDest, wsArchive, wsReq, wsSure, wsFailed, wsBegun, wsFaults,
  gcGuest, gcState, gcStarter, gcFiles, gcRequests, gcWire, gcHolder, gcThieves, gcCall,
  gcExported, gcCalls, gcEver, gcAgain,
  clActive, clBox, clClient, clReq, clMishaps,
  shClient, shTyped, shSocket, shAt, shShell, shHelper, shStdin, shStdout, shWritten, shSent,
  shHandler

ctx == <<ctxFile, ctxReq, ctxKept, ctxDisturbed, ctxKills>>
log == <<logEntry, logExec, logKnown, logListing, logFetched, logRaced, logCrashes>>
tpl == <<tplYaml, tplRevision, tplIndex, tplDefault, tplOp, tplDisturbed, tplAsked, tplCrashes>>
eg == <<egRegistered, egHosts, egValue, egAdding, egReq, egEgress, egAnswered, egMixed, egFaults>>
ws == <<wsFiles, wsHead, wsIndex, wsLock, wsDest, wsArchive, wsReq, wsSure, wsFailed, wsBegun,
        wsFaults>>
gc == <<gcGuest, gcState, gcStarter, gcFiles, gcRequests, gcWire, gcHolder, gcThieves,
        gcCall, gcExported, gcCalls, gcEver, gcAgain>>
cl == <<clActive, clBox, clClient, clReq, clMishaps>>
sh == <<shClient, shTyped, shSocket, shAt, shShell, shHelper, shStdin, shStdout, shWritten, shSent,
        shHandler>>
vars == <<part, ctx, log, tpl, eg, ws, gc, cl, sh>>

-----------------------------------------------------------------------------
(* The parts.                                                              *)

Ctx == INSTANCE Contexts WITH
  Names <- ContextNames, Definitions <- ContextDefinitions, Daemons <- ContextDaemons,
  Requests <- Actors,
  file <- ctxFile, req <- ctxReq, kept <- ctxKept, disturbed <- ctxDisturbed, kills <- ctxKills

Log == INSTANCE ExecLog WITH
  MaxCrashes <- MaxLogCrashes,
  entry <- logEntry, exec <- logExec, known <- logKnown, listing <- logListing,
  fetched <- logFetched, raced <- logRaced, crashes <- logCrashes

Tpl == INSTANCE Templates WITH
  Names <- TemplateNames, Definitions <- TemplateDefinitions, Cut <- Torn, Requests <- Actors,
  MaxCrashes <- MaxDeaths,
  yaml <- tplYaml, revision <- tplRevision, index <- tplIndex, default <- tplDefault,
  op <- tplOp, disturbed <- tplDisturbed, asked <- tplAsked, crashes <- tplCrashes

Eg == INSTANCE EgressProxy WITH
  Hosts <- ProxyHosts, Ids <- CredentialIds, Requests <- Actors, Clients <- Actors,
  MaxCrashes <- MaxRestarts,
  registered <- egRegistered, hosts <- egHosts, value <- egValue, adding <- egAdding,
  preq <- egReq, egress <- egEgress, answered <- egAnswered, mixed <- egMixed,
  faults <- egFaults

Ws == INSTANCE WorkspaceFiles WITH
  Paths <- FilePaths, Contents <- FileContents, Requests <- Actors,
  files <- wsFiles, head <- wsHead, index <- wsIndex, lock <- wsLock, dest <- wsDest,
  archive <- wsArchive, wreq <- wsReq, sure <- wsSure, failed <- wsFailed, begun <- wsBegun,
  wfaults <- wsFaults

Gc == INSTANCE GuestControl WITH
  Callers <- Actors, Paths <- GuestPaths, Contents <- GuestContents, Long <- LongContents,
  Template <- GuestTemplate, guest <- gcGuest, state <- gcState, starter <- gcStarter,
  gfiles <- gcFiles, requests <- gcRequests, wire <- gcWire, holder <- gcHolder,
  thieves <- gcThieves, gcall <- gcCall, exported <- gcExported, calls <- gcCalls,
  ever <- gcEver, again <- gcAgain

Cl == INSTANCE Clients WITH
  Clients <- Terminals, Ids <- BoxIds, Known <- BoxStates,
  active <- clActive, box <- clBox, client <- clClient, req <- clReq, mishaps <- clMishaps

Sh == INSTANCE ShellSession WITH
  client <- shClient, typed <- shTyped, socket <- shSocket, at <- shAt, shell <- shShell,
  helper <- shHelper, stdin <- shStdin, stdout <- shStdout, written <- shWritten,
  sent <- shSent, handler <- shHandler

ASSUME PartsAssumption ==
  /\ Ctx!ContextsAssumption /\ Ctx!FileAssumption /\ Ctx!ElsewhereAssumption
  /\ Log!ExecLogAssumption
  /\ Tpl!TemplatesAssumption /\ Tpl!FileAssumption
  /\ Eg!HostAssumption /\ Eg!RegistrationAssumption
  /\ Ws!FilesAssumption
  /\ Gc!GuestAssumption
  /\ Cl!ClientsAssumption
  /\ Sh!ShellAssumption

-----------------------------------------------------------------------------
Parts == {"contexts", "logs", "templates", "egress", "workspace", "guest", "clients", "shell"}

Init ==
  /\ part \in Parts
  /\ Ctx!Init /\ Log!Init /\ Tpl!Init /\ Eg!Init /\ Ws!Init /\ Gc!Init /\ Sh!Init
  /\ IF part = "clients" THEN Cl!Init ELSE Cl!Init /\ clActive = "here"

Next ==
  /\ UNCHANGED part
  /\ \/ part = "contexts" /\ Ctx!Next /\ UNCHANGED <<log, tpl, eg, ws, gc, cl, sh>>
     \/ part = "logs" /\ Log!Next /\ UNCHANGED <<ctx, tpl, eg, ws, gc, cl, sh>>
     \/ part = "templates" /\ Tpl!Next /\ UNCHANGED <<ctx, log, eg, ws, gc, cl, sh>>
     \/ part = "egress" /\ Eg!Next /\ UNCHANGED <<ctx, log, tpl, ws, gc, cl, sh>>
     \/ part = "workspace" /\ Ws!Next /\ UNCHANGED <<ctx, log, tpl, eg, gc, cl, sh>>
     \/ part = "guest" /\ Gc!Next /\ UNCHANGED <<ctx, log, tpl, eg, ws, cl, sh>>
     \/ part = "clients" /\ Cl!Next /\ UNCHANGED <<ctx, log, tpl, eg, ws, gc, sh>>
     \/ part = "shell" /\ Sh!Next /\ UNCHANGED <<ctx, log, tpl, eg, ws, gc, cl>>

Spec == Init /\ [][Next]_vars

-----------------------------------------------------------------------------
\* Every variable of the part that moves keeps its type.
TypeOK ==
  CASE part = "contexts" -> Ctx!TypeOK [] part = "logs" -> Log!TypeOK
    [] part = "templates" -> Tpl!TypeOK [] part = "egress" -> Eg!TypeOK
    [] part = "workspace" -> Ws!TypeOK [] part = "guest" -> Gc!TypeOK
    [] part = "clients" -> Cl!TypeOK [] part = "shell" -> Sh!TypeOK

\* The properties of the parts, each stated and explained in its module, and
\* asked of the part that moves: the others keep the state they began in.
ActiveIsKnown == part = "contexts" => Ctx!ActiveIsKnown
AcknowledgedIsKept == Ctx!AcknowledgedIsKept
ImplementsMap ==
  Ctx!Promise!MapInit /\ [][part = "contexts" => Ctx!Promise!MapNext]_(Ctx!Promise!mapVars)
ServedWhereActive == part = "contexts" => Ctx!ServedWhereActive
ListedCanBeRead == part = "logs" => Log!ListedCanBeRead
NeverOverwritten == Log!NeverOverwritten
LatestIsCurrent == part = "templates" => Tpl!LatestIsCurrent
RevisionsAreKept == Tpl!RevisionsAreKept
ImplementsHistory ==
  /\ Tpl!Promise!HistoryInit
  /\ [][part = "templates" => Tpl!Promise!HistoryNext]_(Tpl!Promise!historyVars)
SentWhereRegistered == part = "egress" => Eg!SentWhereRegistered
DenialsAreListed == part = "egress" => Eg!DenialsAreListed
UserOwnsFiles == part = "workspace" => Ws!UserOwnsFiles
AcknowledgedIsRead == part = "workspace" => Ws!AcknowledgedIsRead
DiffIsComplete == part = "workspace" => Ws!DiffIsComplete
DeliveredIsThere == part = "workspace" => Ws!DeliveredIsThere
WarmAfterReady == Gc!WarmAfterReady
ReadIsOfItsPath == part = "guest" => Gc!ReadIsOfItsPath
ExportedIsThere == part = "guest" => Gc!ExportedIsThere
ReportedIsDone == part = "clients" => Cl!ReportedIsDone
AllAreDestroyed == part = "clients" => Cl!AllAreDestroyed
AllIsSentBeforeClose == part = "shell" => Sh!AllIsSentBeforeClose
WaitsForTheLiving == part = "shell" => Sh!WaitsForTheLiving
=============================================================================
