SPECIFICATION Spec
CONSTANTS
    C = C
    T = T
    U = U
    W = W
    Txs <- MCTxs
    Coinbases <- MCCoinbases
    OutputsOf <- MCOutputsOf
    InputOf <- MCInputOf
    Maturity = 1
    MaxHeight = 3
    MaxTxs = 3
    MaxReorgs = 3
    MaxFaults = 1
INVARIANTS FlagsSound CoinsAreChainState
PROPERTIES ImplementsUtxoSet CrashTearsOnlyFlush
