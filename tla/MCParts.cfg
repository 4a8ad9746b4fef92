SPECIFICATION Spec
CHECK_DEADLOCK FALSE
CONSTANTS
  Actors = {q1, q2}
  None = None
  Torn = Torn
  Empty = Empty
  Garbled = Garbled
  ContextNames = {"a", "b"}
  ContextDefinitions <- MCContextDefinitions
  ContextDaemons <- MCDaemons
  Home = "d1"
  Elsewhere <- MCElsewhere
  MaxKills = 1
  Execs = {q1, q2, q3}
  MaxLogCrashes = 1
  TemplateNames = {"node", "mine"}
  Builtin = "node"
  Bundles <- MCBundles
  TemplateDefinitions = {"node", "own", "odd"}
  Invalid = {"odd"}
  MaxAsked = 2
  MaxDeaths = 1
  Sandboxes = {"s1"}
  ProxyHosts <- MCProxyHosts
  Within <- MCWithin
  DefaultAllowlist = {"git"}
  DefaultDeny = {"meta"}
  Config <- MCConfig
  CredentialIds = {"c1"}
  Registrations <- MCRegistrations
  MaxDenied = 2
  MaxRestarts = 1
  FilePaths <- MCFilePaths
  Outputs = {"dist"}
  FileContents = {"c1", "c2"}
  Binary = {"c2"}
  Ignored = {"src"}
  Remote <- MCRemote
  MaxBegun = 3
  MaxFaults = 1
  GuestPaths <- MCGuestPaths
  Base <- MCBase
  GuestContents = {"1", "2"}
  LongContents = {"2"}
  GuestTemplate <- MCTemplate
  MaxCalls = 4
  Terminals = {"c1"}
  BoxIds <- MCBoxIds
  BoxStates <- MCBoxStates
  Slots = {1, 2}
  MaxMishaps = 1
  PipeSize = 1
  MaxTyped = 3
  MaxOutput = 3
SYMMETRY Symmetry
INVARIANT TypeOK
INVARIANT ActiveIsKnown
INVARIANT ServedWhereActive
INVARIANT ListedCanBeRead
INVARIANT LatestIsCurrent
INVARIANT SentWhereRegistered
INVARIANT DenialsAreListed
INVARIANT UserOwnsFiles
INVARIANT AcknowledgedIsRead
INVARIANT DiffIsComplete
INVARIANT DeliveredIsThere
INVARIANT ReadIsOfItsPath
INVARIANT ExportedIsThere
INVARIANT ReportedIsDone
INVARIANT AllAreDestroyed
INVARIANT AllIsSentBeforeClose
INVARIANT WaitsForTheLiving
PROPERTY ImplementsMap
PROPERTY NeverOverwritten
PROPERTY ImplementsHistory
PROPERTY WarmAfterReady
