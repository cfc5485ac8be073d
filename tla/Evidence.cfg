SPECIFICATION EvidenceSpec
CONSTANTS
    None = None
    t1 = t1
    t2 = t2
    Test <- Tests
    MaxItems = 2
    Runs <- TestedRuns
    ScopeOf <- SuiteOf
    SourceStates <- TestedSources
    MaxRuns = 2
    Payloads <- RecordPayloads
    PathOrder <- Paths
    FieldOrder <- RecordFields
    Secrets = {"secret1", "sec", "sec2"}
    Embedding = {"tok", "tok2"}
    Unusable = {}
    Captures <- RecordCaptures
    Requests <- RecordRequests
    ListLimit = 1
    Malformed = Malformed
    CutShort = CutShort
    Kinds = {"http", "cli", "mcp"}
    Selectors <- ProfileSelectors
    Answers <- Forms
    MaxVersion = 3
    MaxSecond = 2
    MaxCaptures = 3
    Pieces <- WrittenPieces
    MaxWrites = 4
    OtherStream <- OtherText
    Trees <- StoredTrees
    MaxNodes = 8
    MaxDepth = 4
    Questions <- AskedQuestions
    PathsDepth = 2
    NoQuery = NoQuery
    NoKind = NoKind
    SearchNodes = 8
    SearchDepth = 4
    MostSemantic = 3
    MostInspected = 6
    Selections <- AskedSelections
    SubjectOf <- Subject
    Nodes <- StoredNodes
    IndexName <- Digits
    Deepest = 5
    Unasked = Unasked
    NoView = NoView
    DefaultPolicy <- SmallPolicy
    FewestChars = 1
    Budgets = {2, 4, 8, 14, 20}
    NoteUnits = 1
    FindingUnits = 2
    MostFindings = 2
    MostActions = 2
    Attachments <- AttachmentSets
    c1 = c1
    c2 = c2
    Collections <- Lists
    Cursors = {c1, c2}
    Filters <- AskedFilters
    PageLimits = {2}
    MaxEvents = 2
    MaxRangeWidth = 2
    p1 = p1
    Callers = {p1}
    Declared <- DeclaredEffects
    SeedTrusts <- DeclaredTrusts
    AnsweredWith <- AnsweredPayloads
    Stated <- StatedShapes
    LongTexts = {"long"}
    MostTexts = 2
    MaxContributions = 3
CONSTRAINTS OneTool ShellUnstated FewAnswers
SYMMETRY Symmetry
INVARIANTS
    ResolvedRanAgain
    RecordsAreAccounted
    ConfirmedIsUnchanged
    ViewsAgree
    RedactedStaysEvidence
    CompleteMissesNothing
    NavigationAccounts
    NothingIsHiddenSilently
    SelectPagesCover
    NeverOvercounts
    CallsAreGrounded
    ProbesOnlyRead
    LearningForgetsOrder
PROPERTIES
    OnlyStatementsRelax
CHECK_DEADLOCK FALSE
