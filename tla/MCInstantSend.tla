--------------------------- MODULE MCInstantSend ---------------------------
(* Two conflicting requests; one spends a second output as well.           *)
EXTENDS InstantSend, TLC

CONSTANTS n1, n2, t1, t2, o1, o2

MCInputs == t1 :> {o1} @@ t2 :> {o1, o2}
MCVoters == o1 :> {n1} @@ o2 :> {n2}
=============================================================================
