CONSTANTS
    g = g
    a1 = a1
    a2 = a2
    b1 = b1
    None = None
    Blocks <- AllBlocks
    Genesis = g
    Parent <- ParentOf
    Chain <- ChainOf
    nChainWork <- WorkOf
    Address <- AddressOf
    BadContext = {}
    Invalid = {}
    Disputed = {a1, b1}
    MinBlocksToKeep = 1
    FileSize = 1
    MaxEvents = 2
    MaxReplay = 2
SPECIFICATION Spec
INVARIANTS IndexIsComplete CandidatesAreRight StartsAfterCrash
PROPERTY StepsKeepOrder
CHECK_DEADLOCK FALSE
