------------------------------ MODULE LRUStore ------------------------------
(***************************************************************************)
(* What a client of either cache is promised: a bounded map in recency     *)
(* order.  Each operation is one step; a put makes room by dropping as few *)
(* of the least recently used entries as possible.  src/lruCache.js and    *)
(* src/sharedMemoryLRU.js implement it with linked lists; they differ in   *)
(* what a put does to a key that is present (PutReplaces).                 *)
(***************************************************************************)
EXTENDS Integers, SequencesExt

CONSTANTS Keys, Values, Weight, MaxEntries, MaxBytes, ItemLimits, PutReplaces, NoValue

(* Every limit in ItemLimits is at most MaxBytes: an entry that passes it fits
   in an empty store.  The instances in the cache modules see to it. *)

VARIABLES
    entries,    \* sequence of [key, val], most recently used first
    ret         \* the last operation, its key and what it returned

vars == <<entries, ret>>

Result(kind, k, ok, val) == [kind |-> kind, key |-> k, ok |-> ok, val |-> val]

Holds(k) == \E i \in DOMAIN entries : entries[i].key = k
Lookup(k) == CHOOSE i \in DOMAIN entries : entries[i].key = k
Without(k) == IF Holds(k) THEN RemoveAt(entries, Lookup(k)) ELSE entries

Bytes(es) ==
    LET weights == [i \in DOMAIN es |-> Weight[es[i].val]]
    IN MapThenSumSet(LAMBDA i : weights[i], DOMAIN es)

(* The longest prefix of es, in recency order, next to which w bytes fit; it
   may be empty. *)
Fits(es, w) == Len(es) < MaxEntries /\ Bytes(es) + w <= MaxBytes

Retained(es, w) ==
    SubSeq(es, 1, Max({0} \cup {n \in 1..Len(es) : Fits(SubSeq(es, 1, n), w)}))

NoResult == Result("none", NoValue, FALSE, NoValue)

Init == entries = <<>> /\ ret = NoResult

(* The next call begins: the last result has been taken. *)
Call == ret' = NoResult /\ UNCHANGED entries

GetHit(k) ==
    /\ Holds(k)
    /\ entries' = <<entries[Lookup(k)]>> \o Without(k)
    /\ ret' = Result("get", k, TRUE, entries[Lookup(k)].val)

GetMiss(k) == ~Holds(k) /\ ret' = Result("get", k, FALSE, NoValue) /\ UNCHANGED entries

PutRefused(v, limit) ==
    /\ Weight[v] > limit
    /\ ret' = Result("put", NoValue, FALSE, NoValue)
    /\ UNCHANGED entries

(* PutReplaces says whether the key that is present takes the new value. *)
PutPresent(k, v, limit) ==
    /\ Weight[v] <= limit /\ Holds(k)
    /\ entries' = IF PutReplaces
                  THEN <<[key |-> k, val |-> v]>> \o Retained(Without(k), Weight[v])
                  ELSE <<entries[Lookup(k)]>> \o Without(k)
    /\ ret' = Result("put", k, TRUE, NoValue)

PutAbsent(k, v, limit) ==
    /\ Weight[v] <= limit /\ ~Holds(k)
    /\ entries' = <<[key |-> k, val |-> v]>> \o Retained(entries, Weight[v])
    /\ ret' = Result("put", k, TRUE, NoValue)

Delete(k) ==
    /\ entries' = Without(k)
    /\ ret' = Result("delete", k, Holds(k), NoValue)

Clear == entries' = <<>> /\ ret' = Result("clear", NoValue, TRUE, NoValue)

Next ==
    \/ \E k \in Keys : GetHit(k) \/ GetMiss(k) \/ Delete(k)
    \/ \E v \in Values, limit \in ItemLimits : PutRefused(v, limit)
    \/ \E k \in Keys, v \in Values, limit \in ItemLimits :
          PutPresent(k, v, limit) \/ PutAbsent(k, v, limit)
    \/ Call \/ Clear

Spec == Init /\ [][Next]_vars
=============================================================================
