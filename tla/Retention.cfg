SPECIFICATION Spec
CONSTANTS
    None = None
    p1 = p1
    p2 = p2
    c1 = c1
    c2 = c2
    e1 = e1
    e2 = e2
    e3 = e3
    i1 = i1
    s1 = s1
    s2 = s2
    Key <- TwoKeys
    Hash <- Hashes
    Source <- TwoSources
    Invocation <- TwoCallsOrTask
    MaxObservation = 2
    MaxToken = 1
    Size <- Sizes
    Process = {p1, p2}
    Call <- TwoKeys
    Task <- OneTask
    SourceOf <- SourceOfTwo
    ErrorKey <- NoErrorKeys
    Replies = {"body", "error"}
    Captured = {"recoverable"}
    CacheModes = {TRUE, FALSE}
    Policies <- AgeAndQuota
    TTL = 1
    MaxTime = 2
CONSTRAINT Apart
SYMMETRY Exchanges
INVARIANTS
    IInv
    KeptWithinQuota
PROPERTIES
    FreshCursorsResolve
