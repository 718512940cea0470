------------------------------- MODULE UtxoSet -------------------------------
(***************************************************************************)
(* What the stack of coin views (coins.h, txdb.h) does: three sets of      *)
(* unspent outputs, those written to the database, those found at the tip  *)
(* of the active chain and those found in the block in hand.  No cache, no *)
(* flags: a block's changes show in its own view at once, and in the tip's *)
(* when the block is committed; what the tip has is written as a whole,    *)
(* and from then on is found no more.                                      *)
(***************************************************************************)
EXTENDS Transactions

VARIABLES diskUtxo, tipUtxo, viewUtxo

utxoVars == <<diskUtxo, tipUtxo, viewUtxo>>

InitUtxo == diskUtxo = NoUtxo /\ tipUtxo = NoUtxo /\ viewUtxo = NoUtxo

\* A transaction joins the block: its input is spent, its outputs appear.  It
\* never overwrites outputs that the chain below the block has left unspent.
Connect(t, h) ==
    /\ IsPruned(tipUtxo[t])
    /\ IF t \in Coinbases THEN viewUtxo' = [viewUtxo EXCEPT ![t] = FromTx(t, h)]
       ELSE /\ InputOf[t].n \in viewUtxo[InputOf[t].tx].outs
            /\ viewUtxo' = [[viewUtxo EXCEPT ![InputOf[t].tx] = Spend(@, InputOf[t].n)]
                              EXCEPT ![t] = FromTx(t, h)]
    /\ UNCHANGED <<diskUtxo, tipUtxo>>

\* A transaction leaves the block: its outputs vanish, its input is back.
Disconnect(t) ==
    /\ viewUtxo[t] # NoCoins
    /\ IF t \in Coinbases THEN viewUtxo' = [viewUtxo EXCEPT ![t] = NoCoins]
       ELSE \E h \in Heights :
              /\ ~IsPruned(viewUtxo[InputOf[t].tx]) => h = viewUtxo[InputOf[t].tx].height
              /\ viewUtxo' = [[viewUtxo EXCEPT ![t] = NoCoins]
                                EXCEPT ![InputOf[t].tx] = [outs |-> @.outs \cup {InputOf[t].n}, height |-> h]]
    /\ UNCHANGED <<diskUtxo, tipUtxo>>

Commit  == tipUtxo' = viewUtxo /\ UNCHANGED <<diskUtxo, viewUtxo>>
Discard == viewUtxo' = tipUtxo /\ UNCHANGED <<diskUtxo, tipUtxo>>

Forget == tipUtxo' = NoUtxo /\ viewUtxo' = NoUtxo

\* The database keeps what it has of transactions that the tip has not.
Persist ==
    /\ viewUtxo = tipUtxo
    /\ diskUtxo' = [t \in Txs |-> IF IsPruned(tipUtxo[t]) THEN diskUtxo[t] ELSE tipUtxo[t]]
    /\ Forget

Lose == Forget /\ UNCHANGED diskUtxo
Wipe == Forget /\ diskUtxo' = NoUtxo

NextUtxo ==
    \/ \E t \in Txs, h \in Heights : Connect(t, h)
    \/ \E t \in Txs : Disconnect(t)
    \/ Commit \/ Discard \/ Persist \/ Lose \/ Wipe

UtxoSpec == InitUtxo /\ [][NextUtxo]_utxoVars

=============================================================================
