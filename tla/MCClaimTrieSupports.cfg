SPECIFICATION Spec
CONSTANTS
    a = a
    A1 = A1
    A2 = A2
    U1 = U1
    S1 = S1
    S2 = S2
    None = None
    Names <- MCNames
    Outs <- SupportedOuts
    NameOf <- NameOfAll
    KindOf <- KindOfAll
    IdOf <- IdOfAll
    AmountOf <- AmountOfAll
    RankOf <- RankOfAll
    Spendable <- SupportsOnly
    nProportionalDelayFactor = 1
    nMaxDelay = 2
    nExpirationTime = 9
    MaxHeight = 6
    MaxOps = 2
    MaxReorgs = 0
INVARIANTS QueuesAgree TrieIsSound
PROPERTY TakeoversAreRight
