---------------------------- MODULE MCChainState ----------------------------
EXTENDS ChainState, TLC
CONSTANTS g, a1, a2, b1

AllBlocks == {g, a1, a2, b1}
ParentOf == (a1 :> g) @@ (a2 :> a1) @@ (b1 :> g)
ChainOf == (g :> {g}) @@ (a1 :> {g, a1}) @@ (a2 :> {g, a1, a2}) @@ (b1 :> {g, b1})
WorkOf == (g :> 1) @@ (a1 :> 2) @@ (a2 :> 3) @@ (b1 :> 4)
AddressOf == (g :> 1) @@ (a1 :> 5) @@ (a2 :> 2) @@ (b1 :> 4)
=============================================================================
