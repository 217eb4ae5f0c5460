----------------------------- MODULE MCCacheIPC -----------------------------
(* Two workers that share a cache of one key: the first stores, looks up and
   clears, the second stores a body that the cache refuses, replaces, looks
   up and deletes. *)
EXTENDS CacheIPC, TLC

CONSTANTS w1, w2, k1, put1, get1, clear1, put2, heavy2, delete2, stats2

TwoWorkers == {w1, w2}
OneKey == {k1}
SomeCalls == {put1, get1, clear1, put2, heavy2, delete2, stats2}
CallWorker == [c \in Calls |-> IF c \in {put1, get1, clear1} THEN w1 ELSE w2]
CallKind == put1 :> "put" @@ get1 :> "get" @@ clear1 :> "clear" @@ put2 :> "put"
    @@ heavy2 :> "put" @@ delete2 :> "delete" @@ stats2 :> "stats"
CallKey == [c \in Calls |-> k1]
BodyWeight == [c \in Calls |-> IF c = heavy2 THEN 3 ELSE 1]
=============================================================================
