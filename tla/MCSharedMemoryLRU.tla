------------------------- MODULE MCSharedMemoryLRU -------------------------
(* A small instance of SharedMemoryLRU: three keys that all collide in a list
   of two slots, entries of three sizes in an arena that the heaviest does not
   fit, though one handle's item limit lets it pass. *)
EXTENDS SharedMemoryLRU, TLC

CONSTANTS k1, k2, k3, v1, v2, v3

ThreeKeys == {k1, k2, k3}
ThreeSizes == {v1, v2, v3}
WeightOf == v1 :> 1 @@ v2 :> 2 @@ v3 :> 3
AllCollide == [k \in Keys |-> 7]
Limits == {2, 3}
=============================================================================
