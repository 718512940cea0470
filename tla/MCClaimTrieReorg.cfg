SPECIFICATION Spec
CONSTANTS
    a = a
    A1 = A1
    A2 = A2
    U1 = U1
    S1 = S1
    S2 = S2
    None = None
    Names <- MCNames
    Outs <- ClaimOuts
    NameOf <- NameOfAll
    KindOf <- KindOfAll
    IdOf <- IdOfAll
    AmountOf <- AmountOfAll
    RankOf <- RankOfAll
    Spendable <- ClaimOuts
    nProportionalDelayFactor = 9
    nMaxDelay = 0
    nExpirationTime = 3
    MaxHeight = 5
    MaxOps = 2
    MaxReorgs = 2
INVARIANT TrieIsSound
PROPERTY DisconnectRestores
