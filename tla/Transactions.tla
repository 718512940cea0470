---------------------------- MODULE Transactions ----------------------------
(***************************************************************************)
(* Transactions and the coins they leave (CCoins, coins.h).  A CCoins is   *)
(* the set of a transaction's unspent outputs and the height of its block; *)
(* with no output left it is pruned, and its height says nothing.          *)
(* A transaction that is no coinbase has one input: the coin views handle  *)
(* each entry by itself.                                                   *)
(***************************************************************************)
EXTENDS Naturals, FiniteSets

CONSTANTS
    Txs,          \* transaction ids
    Coinbases,    \* those of coinbase transactions
    OutputsOf,    \* the spendable outputs of each transaction
    InputOf,      \* [tx, n]: the output a transaction spends
    Maturity,     \* COINBASE_MATURITY
    MaxHeight     \* bound: no block above this height

ASSUME TransactionsAssumption ==
    /\ Coinbases \subseteq Txs
    /\ OutputsOf \in [Txs -> SUBSET Nat]
    /\ \A t \in Txs : OutputsOf[t] # {}
    /\ InputOf \in [Txs \ Coinbases -> [tx : Txs, n : Nat]]
    /\ \A t \in Txs \ Coinbases : InputOf[t].tx # t
    /\ Maturity \in Nat /\ MaxHeight \in Nat

Heights == 0..MaxHeight
Coins == [outs : SUBSET Nat, height : Heights]

NoCoins == [outs |-> {}, height |-> 0]
IsPruned(c) == c.outs = {}

\* CCoins::FromTx
FromTx(t, h) == [outs |-> OutputsOf[t], height |-> h]

\* CCoins::Spend, with Cleanup.
Spend(c, n) == IF c.outs = {n} THEN NoCoins ELSE [c EXCEPT !.outs = @ \ {n}]

NoUtxo == [t \in Txs |-> NoCoins]

=============================================================================
