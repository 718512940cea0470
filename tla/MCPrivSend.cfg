CONSTANTS
    c1 = c1
    c2 = c2
    c3 = c3
    d1 = d1
    d2 = d2
    Clients = {c1, c2, c3}
    Denoms = {d1, d2}
    MaxPool = 2
    None = None
    MaxAttempts = 3
SPECIFICATION Spec
SYMMETRY Symmetry
INVARIANTS MixesAreSigned MixesAreUniform 
CHECK_DEADLOCK FALSE
