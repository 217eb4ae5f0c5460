-------------------- MODULE MCSharedMemoryLRURefinement --------------------
(* The instance for the safety properties and the refinement: entries of one
   and two bytes, and keys that all collide, so that only the stored key
   tells them apart and any permutation of the keys is a symmetry. *)
EXTENDS SharedMemoryLRURefinement, TLC

CONSTANTS k1, k2, k3, v1, v2

ThreeKeys == {k1, k2, k3}
TwoValues == {v1, v2}
WeightOf == v1 :> 1 @@ v2 :> 2
AllCollide == [k \in Keys |-> 7]
KeySymmetry == Permutations(Keys)
Limit3 == {3}
=============================================================================
