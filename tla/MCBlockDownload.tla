-------------------------- MODULE MCBlockDownload --------------------------
(* A peer that answers and one that may not; a chain of two blocks, and a   *)
(* fork of it whose last block is invalid.                                  *)
EXTENDS BlockDownload, TLC

CONSTANTS p1, p2

\* 0 - 1 - 2 and 1 - 3
Tree == (1 :> 0) @@ (2 :> 1) @@ (3 :> 1)
=============================================================================
