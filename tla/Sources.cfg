SPECIFICATION SourcesSpec
CONSTANTS
    None = None
    Torn = Torn
    Abandoned = Abandoned
    NoSchema = NoSchema
    p1 = p1
    p2 = p2
    p3 = p3
    f1 = f1
    f2 = f2
    Process = {p1, p2}
    Fact = {f1, f2}
    Authored = {2}
    Tries = 2
    MaxRevision = 3
    MaxCrashes = 1
    Prog = {p1, p2}
    OpenAttempts = 2
    LockTries = 2
    MostPages = 2
    MaxKills = 1
    Strategy = {"token", "next", "page", "offset", "link", "next_url", "both"}
    PageCounts = {1, 3}
    PageBytes = {1, 2}
    Probed = {0, 2}
    MaxPages = 4
    Asked = {1, 2, 4, 5}
    MaxTotalBytes = 4
    MaxWall = 1
    MayFail = TRUE
    Methods = {"discover", "call", "read", "start", "get", "result", "cancel"}
    Capabilities <- McpCapabilities
    Results <- McpResults
    ContentCap = 2
    StderrCap = 1
    MaxWrites = 2
    Operations <- Calls
    Arguments <- CallArguments
    AllowShell = TRUE
    MaxBytes = 3
    HttpWindow = 2
    CliWindow = 1
    MaxRedirects = 2
    MaxSent = 4
INVARIANTS
    ReportedIsKept
    WaitsEmptyHanded
    PrefetchIsAPrefix
    DiagnosticsAreWhole
    ProvenResultsAreWhole
    ProvenAnswersAreWhole
PROPERTIES
    RevisionSerializes
    EveryUpdateEnds
    HandleReturns
    AskingEnds
    CommandsEnd
    ExchangesEnd
CHECK_DEADLOCK FALSE
