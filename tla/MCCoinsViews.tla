---------------------------- MODULE MCCoinsViews ----------------------------
(* Instances of CoinsViews for TLC.                                          *)
EXTENDS CoinsViews

CONSTANTS C, T, U, W

\* A coinbase with two outputs, spent by T and W; U spends the output of T.
\* Once T and W have spent it, the coinbase may be mined again.
MCTxs == {C, T, U, W}
MCCoinbases == {C}
MCOutputsOf == [t \in MCTxs |-> IF t = C THEN {1, 2} ELSE {1}]
MCInputOf == [t \in {T, U, W} |-> CASE t = T -> [tx |-> C, n |-> 1]
                                    [] t = U -> [tx |-> T, n |-> 1]
                                    [] t = W -> [tx |-> C, n |-> 2]]

=============================================================================
