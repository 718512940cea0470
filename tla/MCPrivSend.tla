----------------------------- MODULE MCPrivSend -----------------------------
(* Two places, three clients and two denominations.                        *)
EXTENDS PrivSend, TLC

CONSTANTS c1, c2, c3, d1, d2

Symmetry == Permutations(Clients) \cup Permutations(Denoms)
=============================================================================
