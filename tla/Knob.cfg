SPECIFICATION Spec
CONSTANTS
    p1 = p1
    Callers = {p1}
    Declared <- DeclaredEffects
    SeedTrusts <- DeclaredTrusts
INVARIANTS
    KnobRegates
CHECK_DEADLOCK FALSE
