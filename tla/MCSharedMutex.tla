--------------------------- MODULE MCSharedMutex ---------------------------
(* The main thread and two workers. *)
EXTENDS SharedMutex

CONSTANTS main, w1, w2

ThreadsDef == {main, w1, w2}
WorkersDef == {w1, w2}
=============================================================================
