SPECIFICATION Spec
CONSTANTS
    a = a
    A1 = A1
    A2 = A2
    U1 = U1
    S1 = S1
    S2 = S2
    None = None
    Names <- MCNames
    Outs <- ClaimOuts
    NameOf <- NameOfAll
    KindOf <- KindOfAll
    IdOf <- IdOfAll
    AmountOf <- AmountOfAll
    RankOf <- RankOfAll
    Spendable <- ClaimOuts
    nProportionalDelayFactor = 1
    nMaxDelay = 2
    nExpirationTime = 3
    MaxHeight = 6
    MaxOps = 2
    MaxReorgs = 0
INVARIANTS QueuesAgree NoneStranded TrieIsSound
PROPERTY TakeoversAreRight
