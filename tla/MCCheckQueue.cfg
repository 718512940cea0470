SPECIFICATION FairSpec

CONSTANTS
    Checks = {c1, c2, c3, c4}
    Workers = {w1, w2}
    Master = m
    nBatchSize = 2
INVARIANTS VerdictIsExact ControlStartsIdle TodoIsExact
PROPERTY WaitReturns
