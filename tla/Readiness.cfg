SPECIFICATION Spec
CONSTANTS
    None = None
    p1 = p1
    p2 = p2
    check = check
    entity = entity
    old = old
    new = new
    get = get
    test = test
    tree1 = tree1
    tree2 = tree2
    passing = passing
    failing = failing
    Process = {p1, p2}
    Identity = {entity}
    Version = {1, 2}
    State <- OneState
    Outcome <- Outcomes
    CommandOutcome <- CommandOutcomes
    MaxObservation = 3
    MaxIntent = 1
    MaxReceipt = 2
    MaxSession = 1
    MaxTime = 2
    Check = {check}
    Operation = {get, test}
    Workspace = {tree1, tree2}
    Other <- Others
    Answers <- Answered
    Deadline = {2}
    Declarable <- ACheck
CONSTRAINT Apart
SYMMETRY Symmetry
INVARIANTS
    PassInv
    ReadyMeansVerified
PROPERTIES
    PassIsEarned
