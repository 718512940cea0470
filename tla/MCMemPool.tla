----------------------------- MODULE MCMemPool -----------------------------
EXTENDS MemPool, TLC
CONSTANTS ta, tb, tc, td, te, tx, coin

\* A chain ta, tb, tc, td where tc spends ta too; te spends tb and the coin tx
\* wants; tx conflicts with ta and te.
AllTx == {ta, tb, tc, td, te, tx}
InputsOf == (ta :> <<<<coin, 1>>>>) @@ (tb :> <<<<ta, 1>>>>)
             @@ (tc :> <<<<tb, 1>>, <<ta, 2>>>>) @@ (td :> <<<<tc, 1>>>>)
             @@ (te :> <<<<tb, 2>>, <<coin, 2>>>>) @@ (tx :> <<<<coin, 1>>, <<coin, 2>>>>)
SizeOf == (ta :> 1) @@ (tb :> 2) @@ (tc :> 1) @@ (td :> 1) @@ (te :> 1) @@ (tx :> 2)
FeeOf == (ta :> 1) @@ (tb :> 1) @@ (tc :> 2) @@ (td :> 4) @@ (te :> 2) @@ (tx :> 3)
OneMore == {1}
=============================================================================
