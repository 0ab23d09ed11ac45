CONSTANTS
    \* FeatureGate
    Candidates = {"c1", "c2"}
    Measured = {"c1"}
    Rulings <- MCDocuments
    Answers <- MCAnswers
    GateDrives = 2
    GateAdmits = 3
    GateTime = 1
    GateOpen = 1
    GateTries = 2
    Nothing = Nothing
    \* Rulings
    RuledRuns = {"r1", "r2", "r3"}
    RulesOf <- MCRulesOf
    Endpoints = {"e1", "e2"}
    NotGaps = {"x"}
    Touching <- MCTouching
    Operators = {"o1", "o2"}
    MaxEdits = 1
    MaxStore = 3
    \* WorkspaceReaper
    Keys = {k}
    Owners = {a, b, old}
    LegacyOwner = old
    Inputs = {i}
    Contents = {x}
    OneInput = i
    Nobody = Nobody
    NoOutput = NoOutput
    MaxClaims = 2
    Floor = 2
    LastDay = 3
    \* PortEvidence
    PortHooks = {h1}
    SharesSignal = {}
    TwoWay = {h1}
    StartupHook = h1
    PortVersions = {1, 2}
    Baseline = 1
    MaxCount = 1
    MaxRows = 4
    NoCount = NoCount
    \* PortHistory
    LivingHooks = {h1}
    Versions = {1, 2, 3}
    Clerks = {c1}
    MaxRulings = 2
    MaxRecordings = 4
    NoVersion = NoVersion
    \* PortMemory
    Reports <- MCReports
    Contexts <- MCContexts
    SeedMemory <- MCSeedMemory
    StableHosts = {"L3"}
    Writers = {w1, w2}
    MaxStages = 2
    Unknown = Unknown
    \* HookSites
    SiteHooks <- MCSiteHooks
    Apps <- MCApps
    v0 = v0
    v1 = v1
    l1 = l1
    l2 = l2
    Registers = {v0}
    MaxPorts = 1
    NoCapture = NoCapture
    Ignored = {"note", "mark1", "mark2"}
    \* PortRun
    RunHooks = {"h1", "h2"}
    DexOf <- MCDexOf
    Classes = {1, 2}
    PortRequests <- MCRequests
    KAgents = 2
    Checkers = 1
    MaxCalls = 3
    MaxPortRuns = 2
    NoClass = 0
    NoProposal = NoProposal
    \* ReplayReceipts
    RunNames = {r1}
    StockApks = {stock}
    Ports = {port}
    Profiles <- MCProfiles
    Deciders = {op}
    Tickets = {t1, t2}
    ToolOutputs = {o1}
    FaithfulOutputs = {o1}
    MaxPending = 2
    NoArtifact = NoArtifact
    Idle = Idle
    \* TreePort
    DexEntries <- MCDexEntries
    Intents <- MCIntents
    Resolutions <- MCResolutions
    StockApk <- MCStockApk
    \* TreeCapture
    Names = {1, 2}
    Bytes = {1, 2}
    MaxDepth = 2
    MaxWrites = 2
    Shapes <- MCShapes
    \* SourceAdmission
    Admitters = {a1, a2}
    SourceFiles = {"f", "g"}
    FileBytes = {1, 2}
    SourceManifest <- MCSourceManifest
    MaxSourceEdits = 1
    MaxDeaths = 1
    NoTree = NoTree
    \* PortRunbook
    PhoneWalks = 1
    WalkLength = 2
    ToggleStates = {"off", "feed"}
    MaxRequests = 2
    Raisable = {"e1"}
    MaxBuilds = 2
    Unstated = Unstated
SPECIFICATION MCSpec
INVARIANTS
    OneAnswerIsSent
    CompletedIsFindable
    BlockedIsOnRecord
    LiveWorkspaceSurvives
    ReadyWasHeld
    StandingDropIsSwept
    PatchedTreeIsRecognised
    GatedBuildCarriesEveryHook
    ConsentIsHonoured
    PassedCarriesEveryIntent
    RecordedWasThere
    DestinationIsTheManifest
    RowsSayWhatWasWalked
PROPERTIES
    RulingClearsNoDrop
    ReplayKeepsOffers
CHECK_DEADLOCK FALSE
