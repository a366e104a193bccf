SPECIFICATION ClientsSpec
CONSTANTS
  Paths <- MCPaths
  Binary = {"logo"}
  MaxVersion = 2
  Release <- MCRelease
  Checkouts <- MCCheckouts
  Breaking = {2}
  Manifests = {}
  Config = {}
  Trailers <- MCTrailers
  MatchLength <- MCMatch
  Basename <- MCBasename
  Declined = {}
  FirstTree <- MCFirstTree
  Options <- MCOptions
  MaxRuns = 2
  MaxEdits = 2
  Ships <- MCShips
  MaxPluginRuns = 3
  Envs = {"dev"}
  LineOrder <- MCLineOrder
  MaxLaunches = 3
  Topics = {"a"}
  Commits = {"c0", "c1", "c2"}
  First = "c0"
  MaxScans = 2
  MaxMoves = 8
  People = {"ada", "bob"}
  Rank <- MCRank
  Declared <- MCDeclared
  MaxSessions = 2
  MaxLoads = 1
  Names = {"crm", "ads"}
  Group <- MCGroup
  Groups <- MCGroups
  Filters = {"all", "failed"}
  Endpoints = {"r"}
  PageSize = 2
  MaxAsks = 2
  MaxSite = 1
  Workflows = {"w"}
  Titles = {"new"}
  Triggers = {"t1", "t2"}
  Parts = {"", "text"}
  MaxParts = 2
  MaxTyping = 1
  MaxCalls = 2
  Records = {"x", "y"}
  Self = "y"
  MaxOpens = 2
  MaxSends = 3
  MaxKeys = 2
  TemplateOwned = {"core"}
  Released = {}
  UserOwned = {}
  Subjects = {"feat", "plain"}
  HandVersions <- MCHand
  MaxMerges = 2
  MaxHandTags = 1
  GuardedBranches = {"up", "work"}
  NamedUpgrade = {"up"}
  PushedAsUpgrade = {"up"}
  Prefixed = {"core"}
  Shipped = {}
  WarnOnly = {}
  OtherPaths = {"app"}
  MaxCommitted = 3
  BodyTexts = {{"incidental"}, {"denied"}, {"quoted"}}
  TitleTexts = {{}, {"directive"}}
  MessageTexts = {{}, {"incidental"}, {"quoted"}}
  MaxRewrites = 2
  MaxCreates = 2
  Balanced = {"t", "u"}
  Opening = {"("}
  Closing = {")"}
  WellFormed = {"m", "n"}
  Malformed = {"bad"}
  Prose = {"note"}
  FirstVersions <- MCFirstVersions
  MaxDiffCells = 12
  MaxLines = 4
  MaxLineEdits = 2
  MaxGuardedMerges = 2
VIEW ClientsView
INVARIANTS
  InstanceEditsSurvive ReleaseArrives MigrationsRunOnce NothingCarriedOver
  InstallReportsWhatItLeft ModuleStaysWhileReferenced RegistrationIsAccountedFor
  AppSessionTellsTheTruth SealedIsComplete
  OneRoutePerSession ReturnToServesOneIdentity
  ShowsWhatWasAsked EnabledOnlyAsTested NoTestIsStuck FormsDoNotMix
  VersionsFollowDev HookSpeaksForCheck MergeClosesWhatWasAsked
PROPERTIES
  ReapedIsSettled InfrastructureIsDestroyedFirst
  DeletedBranchesHaveShipped SessionsKeepTheirWorktree
  DoneMeansBoundOrNamed MergedEditsAreDeclared
CHECK_DEADLOCK FALSE
