CONSTANTS
    ta = ta
    tb = tb
    tc = tc
    td = td
    te = te
    tx = tx
    coin = coin
    None = None
    Tx <- AllTx
    Inputs <- InputsOf
    Coins = {coin}
    Size <- SizeOf
    Fee <- FeeOf
    Deltas <- OneMore
    MaxVisit = 1
    MaxBlocks = 3
    MaxBlockTx = 3
    MaxPool = 6
    MaxDelta = 1
SPECIFICATION Spec
INVARIANTS PoolIsConsistent DescendantsAreExact
PROPERTY BlockRemovesConflictsOnly
CHECK_DEADLOCK FALSE
