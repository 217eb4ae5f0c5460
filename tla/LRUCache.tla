------------------------------ MODULE LRUCache ------------------------------
(***************************************************************************)
(* The in-process LRU cache of src/lruCache.js, the master's cache in      *)
(* cluster mode: a Map from keys to nodes and a doubly linked list of the  *)
(* same nodes, with two counters kept by hand, size and currentBytes.      *)
(* The list is the sequence of its nodes' keys; the loops that evict are   *)
(* modelled one iteration per step.  Metrics and time stamps are left out. *)
(***************************************************************************)
EXTENDS Integers, SequencesExt

CONSTANTS
    Keys, Values,
    Weight,         \* _calculateItemBytes of an entry
    MaxEntries, MaxBytes,
    MaxItemBytes,
    NoValue         \* null

ASSUME LimitsAssumption ==
    /\ MaxEntries \in Nat \ {0} /\ MaxBytes \in Nat \ {0} /\ MaxItemBytes \in Nat \ {0}
    /\ Weight \in [Values -> Nat]

VARIABLES
    list,           \* keys of the nodes from head.next to tail.prev
    map,            \* key -> [val, size], the nodes by key
    size, currentBytes,
    pc, op,         \* the running operation, a put; op.before is history, the
                    \* entries before it
    ret

vars == <<list, map, size, currentBytes, pc, op, ret>>

Result(kind, k, ok, val) == [kind |-> kind, key |-> k, ok |-> ok, val |-> val]
Listing == [i \in DOMAIN list |-> [key |-> list[i], val |-> map[list[i]].val]]
NoResult == Result("none", NoValue, FALSE, NoValue)
NoOp == [key |-> NoValue, val |-> NoValue, before |-> <<>>]

Floor0(n) == IF n < 0 THEN 0 ELSE n
Without(k) == RemoveFirst(list, k)
Forget(k) == [x \in DOMAIN map \ {k} |-> map[x]]

Init ==
    /\ list = <<>> /\ map = [k \in {} |-> NoValue]
    /\ size = 0 /\ currentBytes = 0
    /\ pc = "idle" /\ op = NoOp
    /\ ret = NoResult

(* _remove and _add of the same node, which size counts down and up. *)
Get(k) ==
    /\ pc = "idle"
    /\ IF k \in DOMAIN map
       THEN /\ list' = <<k>> \o Without(k)
            /\ size' = Floor0(size - 1) + 1
            /\ ret' = Result("get", k, TRUE, map[k].val)
       ELSE /\ ret' = Result("get", k, FALSE, NoValue)
            /\ UNCHANGED <<list, size>>
    /\ UNCHANGED <<map, currentBytes, pc, op>>

PutRefused(v) ==
    /\ pc = "idle" /\ Weight[v] > MaxItemBytes
    /\ ret' = Result("put", NoValue, FALSE, NoValue)
    /\ UNCHANGED <<list, map, size, currentBytes, pc, op>>

Begin(k, v, phase) ==
    /\ pc = "idle" /\ Weight[v] <= MaxItemBytes
    /\ pc' = phase
    /\ op' = [key |-> k, val |-> v, before |-> Listing]
    /\ ret' = NoResult

(* Fault: the old size of the node is not taken off the account. *)
PutUpdateAddsOnly(k, v) ==
    /\ k \in DOMAIN map
    /\ Begin(k, v, "bound")
    /\ currentBytes' = currentBytes + Weight[v]
    /\ map' = [map EXCEPT ![k] = [val |-> v, size |-> Weight[v]]]
    /\ list' = <<k>> \o Without(k)
    /\ UNCHANGED size

(* A key that is present takes the new value and moves to the front. *)
PutUpdate(k, v) ==
    /\ k \in DOMAIN map
    /\ Begin(k, v, "bound")
    /\ currentBytes' = Floor0(currentBytes - map[k].size + Weight[v])
    /\ map' = [map EXCEPT ![k] = [val |-> v, size |-> Weight[v]]]
    /\ list' = <<k>> \o Without(k)
    /\ size' = Floor0(size - 1) + 1

PutNew(k, v) ==
    /\ k \notin DOMAIN map
    /\ Begin(k, v, "evict")
    /\ UNCHANGED <<list, map, size, currentBytes>>

(* Fault: the evicted node stays in the Map. *)
DropLastFromList ==
    /\ list' = Front(list)
    /\ currentBytes' = Floor0(currentBytes - map[Last(list)].size)
    /\ size' = Floor0(size - 1)
    /\ UNCHANGED map

(* The node before the tail sentinel goes. *)
DropLast ==
    LET lru == Last(list)
    IN /\ currentBytes' = Floor0(currentBytes - map[lru].size)
       /\ list' = Front(list)
       /\ size' = Floor0(size - 1)
       /\ map' = Forget(lru)

Full == Cardinality(DOMAIN map) >= MaxEntries
        \/ currentBytes + Weight[op.val] > MaxBytes

EvictLRU ==
    /\ pc = "evict" /\ Full /\ list # <<>>
    /\ DropLast
    /\ UNCHANGED <<pc, op, ret>>

Done == pc' = "idle" /\ op' = NoOp /\ ret' = Result("put", op.key, TRUE, NoValue)

Insert ==
    /\ pc = "evict" /\ (~Full \/ list = <<>>)
    /\ list' = <<op.key>> \o list
    /\ map' = [x \in DOMAIN map \cup {op.key} |->
                 IF x = op.key THEN [val |-> op.val, size |-> Weight[op.val]] ELSE map[x]]
    /\ size' = size + 1
    /\ currentBytes' = currentBytes + Weight[op.val]
    /\ Done

(* _enforceMemoryBounds, after an update. *)
Bound ==
    /\ pc = "bound" /\ currentBytes > MaxBytes /\ list # <<>>
    /\ DropLast
    /\ UNCHANGED <<pc, op, ret>>

(* Fault: an update does not look at the budget. *)
UpdatedUnbounded ==
    /\ pc = "bound" /\ Done
    /\ UNCHANGED <<list, map, size, currentBytes>>

Updated ==
    /\ pc = "bound" /\ (currentBytes <= MaxBytes \/ list = <<>>)
    /\ Done
    /\ UNCHANGED <<list, map, size, currentBytes>>

Delete(k) ==
    /\ pc = "idle"
    /\ IF k \in DOMAIN map
       THEN /\ currentBytes' = Floor0(currentBytes - map[k].size)
            /\ list' = Without(k)
            /\ size' = Floor0(size - 1)
            /\ map' = Forget(k)
       ELSE UNCHANGED <<list, map, size, currentBytes>>
    /\ ret' = Result("delete", k, k \in DOMAIN map, NoValue)
    /\ UNCHANGED <<pc, op>>

Clear ==
    /\ pc = "idle"
    /\ list' = <<>> /\ map' = [k \in {} |-> NoValue]
    /\ size' = 0 /\ currentBytes' = 0
    /\ ret' = Result("clear", NoValue, TRUE, NoValue)
    /\ UNCHANGED <<pc, op>>

Next ==
    \/ \E k \in Keys : Get(k) \/ Delete(k)
    \/ \E k \in Keys, v \in Values : PutUpdate(k, v) \/ PutNew(k, v)
    \/ \E v \in Values : PutRefused(v)
    \/ EvictLRU \/ Insert \/ Bound \/ Updated
    \/ Clear

Spec == Init /\ [][Next]_vars

-----------------------------------------------------------------------------
(* The Map and the list hold the same nodes, each once, and both hand-kept
   counters tell the truth about them. *)
Sizes == [k \in DOMAIN map |-> map[k].size]

MapMatchesList ==
    /\ IsInjective(list) /\ Range(list) = DOMAIN map
    /\ size = Len(list)
    /\ currentBytes = MapThenSumSet(LAMBDA k : Sizes[k], DOMAIN map)
    /\ \A k \in DOMAIN map : map[k].size = Weight[map[k].val]

(* ARCHITECTURE.md:83, the eviction strategy: between operations the item
   count and the memory footprint satisfy the configured budget. *)
WithinLimits == pc = "idle" => size <= MaxEntries /\ currentBytes <= MaxBytes

(* What a client knows of the cache: a put has no effect until it is done. *)
Shown == IF pc = "idle" THEN Listing ELSE op.before

Store == INSTANCE LRUStore
            WITH ItemLimits <- {MaxItemBytes}, PutReplaces <- TRUE,
                 entries <- Shown

(* The cache is the bounded recency-ordered map: an update replaces the
   value and, like an insertion, drops the shortest possible suffix of the
   other entries. *)
ImplementsLRUStore == Store!Spec
=============================================================================
