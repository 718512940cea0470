----------------------------- MODULE MCCheckQueue -----------------------------
(* Instance of CheckQueue for TLC: two pool threads beside the master.       *)
EXTENDS CheckQueue

=============================================================================
