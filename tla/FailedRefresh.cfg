SPECIFICATION Spec
CONSTANTS
    None = None
    p1 = p1
    p2 = p2
    c1 = c1
    c2 = c2
    e1 = e1
    e2 = e2
    e3 = e3
    i1 = i1
    s1 = s1
    s2 = s2
    Key <- Keys
    Hash <- Hashes
    Source <- OneSource
    Invocation <- Invocations
    MaxObservation = 3
    MaxToken = 1
    Size <- Sizes
    Process = {p1, p2}
    Call <- OneCall
    Task <- NoTask
    SourceOf <- SourceOfOne
    ErrorKey <- ErrorKeys
    Replies = {"body", "error"}
    Captured = {"recoverable"}
    CacheModes = {TRUE}
    Policies <- NoPolicies
    TTL = 1
    MaxTime = 2
SYMMETRY Symmetry
PROPERTIES
    FailedRefreshKeepsPrior
