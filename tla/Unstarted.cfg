SPECIFICATION Spec
CONSTANTS
    None = None
    Child = child
    Descendant = {d1}
    Kinds = {"run"}
    Codes = {success}
    Cap = 1
    MaxWritten <- Written
INVARIANT ProofNeedsExecution
