-------------------------- MODULE MCWorkerManager --------------------------
(* Two or three workers; restart delays of one, two, then three ticks, and a
   pause after three crashes that is longer than any of them. *)
EXTENDS WorkerManager, TLC

CONSTANTS p, q, r

TwoIds == {p, q}
ThreeIds == {p, q, r}
Delays == <<1, 2, 3>>
IdSymmetry == Permutations(Ids)
=============================================================================
