SPECIFICATION Spec
CONSTANTS
    None = None
    Child = child
    Descendant = {d1}
    Kinds = {"run", "source", "shim", "merged"}
    Codes = {success}
    Cap = 1
    MaxWritten <- Written
INVARIANTS
    AbsenceIsProved
    InterruptionKeepsEvidence
    NothingOutlives
    ShimIsTransparent
PROPERTIES
    CapturesEnd
