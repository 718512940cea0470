------------------------ MODULE MCMasternodePayments ------------------------
(* A masternode and another node; two more masternodes somewhere else.  Two *)
(* of the three vote for a height.                                          *)
EXTENDS MasternodePayments, TLC

CONSTANTS m1, m2, m3, n1

\* Another masternode is the last at each height.
Order(h) == CASE h % 3 = 0 -> <<m1, m2, m3>>
              [] h % 3 = 1 -> <<m2, m3, m1>>
              [] OTHER -> <<m3, m1, m2>>
\* The masternodes elsewhere: one votes for the past as well.
SignedVotes == {v \in Votes : v.height >= 2 \/ (v.mn = m2 /\ v.payee = m1)}

\* Someone sends votes in the name of a masternode.
ForgedVotes == {v \in Votes : v.mn = m2 /\ v.payee = m1}

BetterByScore(h, m, k) == \E i, j \in 1..3 : i < j /\ Order(h)[i] = m /\ Order(h)[j] = k
=============================================================================
