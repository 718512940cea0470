----------------------------- MODULE MCClaimTrie -----------------------------
(* Instances of ClaimTrie for TLC: one name, contested by a few outputs.     *)
EXTENDS ClaimTrie

CONSTANTS a, A1, A2, U1, S1, S2

MCNames == {a}

\* A1 and A2 claim the name, A1 with less; U1 updates A1's claim
\* and S1 supports it, S2 supports A2: with S1 or U1, A1 beats A2.
NameOfAll == [o \in Outs |-> a]
KindOfAll == [o \in Outs |-> CASE o \in {A1, A2} -> "claim" [] o = U1 -> "update" [] OTHER -> "support"]
IdOfAll   == [o \in Outs |-> CASE o \in {U1, S1} -> A1 [] o = S2 -> A2 [] OTHER -> o]
AmountOfAll == [o \in Outs |-> CASE o = A1 -> 2 [] o = A2 -> 3 [] o = U1 -> 4 [] OTHER -> 2]
RankOfAll == [o \in Outs |-> CASE o = A1 -> 1 [] o = A2 -> 2 [] o = U1 -> 4 [] o = S1 -> 5 [] OTHER -> 6]

\* The outputs of each run, and which of them are spent.
ClaimOuts      == {A1, A2, U1}
SupportedOuts  == {A1, A2, S1, S2}
SupportsOnly   == {S1, S2}

=============================================================================
