----------------------------- MODULE MCLRUCache -----------------------------
(* Four keys, entries of one, two and four bytes. *)
EXTENDS LRUCache, TLC

CONSTANTS k1, k2, k3, k4, v1, v2, v4

FourKeys == {k1, k2, k3, k4}
AllValues == {v1, v2, v4}
WeightOf == v1 :> 1 @@ v2 :> 2 @@ v4 :> 4
=============================================================================
