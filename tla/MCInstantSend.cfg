CONSTANTS
    n1 = n1
    n2 = n2
    t1 = t1
    t2 = t2
    o1 = o1
    o2 = o2
    Nodes = {n1, n2}
    Txs = {t1, t2}
    Outpoints = {o1, o2}
    Inputs <- MCInputs
    Voters <- MCVoters
    Required = 1
    Total = 1
    KeepLock = 1
    None = None
    MaxEvents = 4
SPECIFICATION Spec
INVARIANTS LocksAgree BooksAgree VotesOnce
CHECK_DEADLOCK FALSE
