--------------------- MODULE SharedMemoryLRURefinement ---------------------
(***************************************************************************)
(* SharedMemoryLRU implements LRUStore.  What a client can observe of the  *)
(* cache is its state between operations: shown records the entries in     *)
(* list order, and seen the last result with the key asked for, whenever   *)
(* no operation runs.  A whole operation, with its search, evictions and   *)
(* compactions, thereby maps to two steps of LRUStore, Call and the        *)
(* operation itself.                                                       *)
(***************************************************************************)
EXTENDS SharedMemoryLRU, Sequences

VARIABLES shown, seen

(* The slots from head on, and the entry each of them reads from the arena. *)
Walk == LET at[i \in 1..size] == IF i = 1 THEN head ELSE next[at[i - 1]] IN at
Listing == [i \in 1..size |-> arena[off[Walk[i]]]]

Seen(k, r) == [kind |-> r.kind, key |-> k, ok |-> r.ok, val |-> r.val]

HInit == Init /\ shown = <<>> /\ seen = Seen(NoValue, NoResult)

HNext ==
    /\ Next
    /\ IF pc' = "idle"
       THEN shown' = Listing' /\ seen' = Seen(op.key, ret')
       ELSE shown' = shown /\ seen' = Seen(NoValue, NoResult)

HSpec == HInit /\ [][HNext]_<<vars, shown, seen>>

Store == INSTANCE LRUStore
            WITH MaxEntries <- Capacity,
                 MaxBytes <- IF MaxTotalBytes < ArenaSize THEN MaxTotalBytes ELSE ArenaSize,
                 PutReplaces <- FALSE, entries <- shown, ret <- seen

(* Every run of the pointer-level cache is a run of the abstract store:
   hits return what was stored, recency is kept by every operation, and a
   put drops the shortest possible suffix of least recently used entries. *)
ImplementsLRUStore == Store!Spec
=============================================================================
