--------------------------- MODULE LRUCacheProofs ---------------------------
(***************************************************************************)
(* LRUCache, for any keys, values, weights and limits:                     *)
(*   LInv     the Map, the list and the two counters agree, and while room *)
(*            is made the new key is not in the Map (Sizable ..            *)
(*            MapCorrect);                                                 *)
(*   Limited  neither limit is exceeded, except by an update that has not  *)
(*            dropped enough yet (StepLimited .. LimitsCorrect);           *)
(*   History  what a running put has left of the entries before it, from   *)
(*            which it follows that the cache is an LRUStore (Others ..    *)
(*            StoreCorrect).                                               *)
(* The last two need an entry of the largest size allowed to fit into the  *)
(* budget, as it does in the default configuration.                        *)
(***************************************************************************)
EXTENDS LRUCache, CollectionLemmas

Nodes == [val : Values, size : Nat]
Bodies == [key : Keys, val : Values]

(* The Map and the list hold the same nodes, each with the size of its value. *)
Linked ==
    /\ list \in Seq(Keys) /\ IsInjective(list) /\ ToSet(list) = DOMAIN map
    /\ \A k \in DOMAIN map : map[k] \in Nodes /\ map[k].size = Weight[map[k].val]

Counted ==
    /\ size = Cardinality(DOMAIN map)
    /\ currentBytes = Total(Sizes, DOMAIN map)

(* The running put. *)
Putting ==
    /\ pc \in {"idle", "evict", "bound"}
    /\ pc # "idle" => op.key \in Keys /\ op.val \in Values /\ Weight[op.val] <= MaxItemBytes
    /\ pc = "evict" => op.key \notin DOMAIN map

LInv == Linked /\ Counted /\ Putting

(* Only an update may go beyond the budget, until it has dropped enough. *)
Limited == size <= MaxEntries /\ (pc # "bound" => currentBytes <= MaxBytes)

(* The sum over the sizes is one over numbers. *)
LEMMA Sizable ==
    ASSUME Linked
    PROVE  /\ Summable(Sizes, DOMAIN map) /\ IsFiniteSet(DOMAIN map)
           /\ Cardinality(DOMAIN map) = Len(list) /\ DOMAIN map \subseteq Keys
           /\ \A k \in DOMAIN map : Sizes[k] = map[k].size /\ map[k].size \in Nat
<1>1. IsFiniteSet(DOMAIN map) /\ Cardinality(DOMAIN map) = Len(list)
  BY LengthCounts DEF Linked
<1>2. \A k \in DOMAIN map : Sizes[k] = map[k].size /\ map[k].size \in Nat
  BY DEF Linked, Sizes, Nodes
<1>3. DOMAIN map \subseteq Keys
  BY DEF Linked, ToSet
<1> QED
  BY <1>1, <1>2, <1>3 DEF Summable

(* The counters are natural numbers, and what one node occupies is in the account. *)
LEMMA CountersTyped ==
    ASSUME Linked, Counted
    PROVE  /\ size \in Nat /\ currentBytes \in Nat /\ size = Len(list)
           /\ list = <<>> => DOMAIN map = {} /\ currentBytes = 0 /\ size = 0
           /\ \A k \in DOMAIN map :
                 /\ size >= 1 /\ map[k].size \in Nat /\ map[k].size <= currentBytes
                 /\ currentBytes - map[k].size = Total(Sizes, DOMAIN map \ {k})
                 /\ size - 1 = Cardinality(DOMAIN map \ {k})
<1>1. /\ Summable(Sizes, DOMAIN map) /\ IsFiniteSet(DOMAIN map)
      /\ Cardinality(DOMAIN map) = Len(list) /\ DOMAIN map \subseteq Keys
      /\ \A k \in DOMAIN map : Sizes[k] = map[k].size /\ map[k].size \in Nat
  BY Sizable
<1>2. size \in Nat /\ currentBytes \in Nat
  BY <1>1, FS_CardinalityType, TotalRemove DEF Counted
<1>3. ASSUME list = <<>> PROVE DOMAIN map = {} /\ currentBytes = 0 /\ size = 0
  <2>1. DOMAIN map = {}
    BY <1>3 DEF Linked, ToSet
  <2> QED
    BY <2>1, TotalEmpty, FS_EmptySet DEF Counted
<1>4. ASSUME NEW k \in DOMAIN map
      PROVE  /\ size >= 1 /\ map[k].size \in Nat /\ map[k].size <= currentBytes
             /\ currentBytes - map[k].size = Total(Sizes, DOMAIN map \ {k})
             /\ size - 1 = Cardinality(DOMAIN map \ {k})
  <2> DEFINE rest == DOMAIN map \ {k}
             t == Total(Sizes, rest)
             n == Cardinality(rest)
  <2>1. IsFiniteSet(rest) /\ n = size - 1
    BY <1>1, FS_RemoveElement DEF Counted
  <2>2. n \in Nat
    BY <2>1, FS_CardinalityType
  <2>3. currentBytes = map[k].size + t
    BY <1>1, TotalRemove DEF Counted
  <2>4. t \in Nat
    <3>1. Summable(Sizes, rest)
      BY <1>1, <2>1 DEF Summable
    <3> QED
      BY <3>1, TotalRemove
  <2>5. map[k].size \in Nat
    BY <1>1
  <2> HIDE DEF t, n
  <2>6. size >= 1 /\ map[k].size <= currentBytes /\ currentBytes - map[k].size = t /\ size - 1 = n
    BY <1>2, <2>1, <2>2, <2>3, <2>4, <2>5
  <2> QED
    BY <2>5, <2>6 DEF t, n
<1> QED
  BY <1>1, <1>2, <1>3, <1>4 DEF Counted

LEMMA CountersNat == LInv => size \in Nat /\ currentBytes \in Nat
BY CountersTyped DEF LInv

(* A node that leaves takes its part off both counters. *)
LEMMA Dropped ==
    ASSUME Linked, Counted, NEW k \in DOMAIN map, map' = Forget(k),
           currentBytes' = Floor0(currentBytes - map[k].size), size' = Floor0(size - 1),
           (list \in Seq(Keys) /\ IsInjective(list))', ToSet(list') = ToSet(list) \ {k}
    PROVE  /\ Linked' /\ Counted' /\ DOMAIN map' = DOMAIN map \ {k}
           /\ size' <= size /\ currentBytes' <= currentBytes
<1>1. /\ size \in Nat /\ size >= 1 /\ currentBytes \in Nat
      /\ map[k].size \in Nat /\ map[k].size <= currentBytes
      /\ currentBytes - map[k].size = Total(Sizes, DOMAIN map \ {k})
      /\ size - 1 = Cardinality(DOMAIN map \ {k})
  BY CountersTyped
<1>2. /\ size' = size - 1 /\ size' <= size
      /\ currentBytes' = currentBytes - map[k].size /\ currentBytes' <= currentBytes
  BY <1>1 DEF Floor0
<1>3. DOMAIN map' = DOMAIN map \ {k} /\ \A x \in DOMAIN map' : map'[x] = map[x]
  BY DEF Forget
<1>4. Linked'
  BY <1>3 DEF Linked
<1>5. Total(Sizes', DOMAIN map') = Total(Sizes, DOMAIN map')
  <2>1. \A x \in DOMAIN map' : Sizes'[x] = Sizes[x]
    BY <1>3 DEF Sizes
  <2>2. Summable(Sizes', DOMAIN map')
    <3>1. Summable(Sizes, DOMAIN map)
      BY Sizable
    <3> QED
      BY <1>3, <2>1, <3>1, FS_RemoveElement DEF Summable
  <2> QED
    BY <2>1, <2>2, TotalAgree
<1> QED
  BY <1>1, <1>2, <1>3, <1>4, <1>5 DEF Counted

(* What _remove leaves of the list, and what _add makes of that. *)
LEMMA Moved ==
    ASSUME Linked, NEW k \in DOMAIN map
    PROVE  /\ Without(k) \in Seq(Keys) /\ IsInjective(Without(k))
           /\ ToSet(Without(k)) = DOMAIN map \ {k}
           /\ <<k>> \o Without(k) \in Seq(Keys) /\ IsInjective(<<k>> \o Without(k))
           /\ ToSet(<<k>> \o Without(k)) = DOMAIN map
<1>1. /\ Without(k) \in Seq(Keys) /\ IsInjective(Without(k))
      /\ ToSet(Without(k)) = DOMAIN map \ {k}
  BY FirstRemoved DEF Linked, Without
<1>2. k \in Keys /\ k \notin ToSet(Without(k))
  BY <1>1, Sizable
<1> HIDE DEF Without
<1>3. /\ <<k>> \o Without(k) \in Seq(Keys) /\ IsInjective(<<k>> \o Without(k))
      /\ ToSet(<<k>> \o Without(k)) = ToSet(Without(k)) \cup {k}
  BY <1>1, <1>2, Prepended
<1> QED
  BY <1>1, <1>3

(* The entry at the tail is dropped. *)
LEMMA TailDropped ==
    ASSUME Linked, Counted, DropLast, list # <<>>
    PROVE  /\ Linked' /\ Counted' /\ DOMAIN map' \subseteq DOMAIN map
           /\ size' <= size /\ currentBytes' <= currentBytes
<1> DEFINE k == Last(list)
<1>1. /\ Front(list) \in Seq(Keys) /\ IsInjective(Front(list)) /\ k \in ToSet(list)
      /\ ToSet(Front(list)) = ToSet(list) \ {k}
  BY LastDropped DEF Linked
<1>2. k \in DOMAIN map
  BY <1>1 DEF Linked
<1>3. /\ map' = Forget(k) /\ list' = Front(list)
      /\ currentBytes' = Floor0(currentBytes - map[k].size) /\ size' = Floor0(size - 1)
  BY DEF DropLast
<1> HIDE DEF k
<1>4. (list \in Seq(Keys) /\ IsInjective(list))' /\ ToSet(list') = ToSet(list) \ {k}
  BY <1>1, <1>3
<1> QED
  BY <1>2, <1>3, <1>4, Dropped

(* A get moves the node to the front and counts it down and up. *)
LEMMA GetKeeps == ASSUME LInv, NEW k \in Keys, Get(k)
                  PROVE  LInv' /\ UNCHANGED <<size, currentBytes, pc>>
<1> USE DEF LInv
<1>1. UNCHANGED <<map, currentBytes, pc, op>>
  BY DEF Get
<1>2. Putting' /\ Sizes' = Sizes
  BY <1>1 DEF Putting, Sizes
<1>3. CASE k \in DOMAIN map
  <2>1. list' = <<k>> \o Without(k) /\ size' = Floor0(size - 1) + 1
    BY <1>3 DEF Get
  <2>2. size' = size
    BY <1>3, <2>1, CountersTyped DEF Floor0
  <2>3. Linked'
    BY <1>1, <1>3, <2>1, Moved DEF Linked
  <2> QED
    BY <1>1, <1>2, <2>2, <2>3 DEF Counted
<1>4. CASE k \notin DOMAIN map
  <2>1. UNCHANGED <<list, size>>
    BY <1>4 DEF Get
  <2> QED
    BY <1>1, <1>2, <2>1 DEF Counted, Linked
<1> QED
  BY <1>3, <1>4

(* A delete takes the node out. *)
LEMMA DeleteKeeps == ASSUME LInv, NEW k \in Keys, Delete(k)
                     PROVE  /\ LInv' /\ size' <= size /\ currentBytes' <= currentBytes
                            /\ UNCHANGED pc
<1> USE DEF LInv
<1>1. UNCHANGED <<pc, op>> /\ pc = "idle"
  BY DEF Delete
<1>2. Putting'
  BY <1>1 DEF Putting
<1>3. CASE k \in DOMAIN map
  <2>1. /\ map' = Forget(k) /\ list' = Without(k)
        /\ currentBytes' = Floor0(currentBytes - map[k].size) /\ size' = Floor0(size - 1)
    BY <1>3 DEF Delete
  <2>2. (list \in Seq(Keys) /\ IsInjective(list))' /\ ToSet(list') = ToSet(list) \ {k}
    BY <1>3, <2>1, Moved DEF Linked
  <2> QED
    BY <1>1, <1>2, <1>3, <2>1, <2>2, Dropped
<1>4. CASE k \notin DOMAIN map
  <2>1. UNCHANGED <<list, map, size, currentBytes>>
    BY <1>4 DEF Delete
  <2>2. Linked' /\ Counted'
    BY <2>1 DEF Counted, Linked, Sizes
  <2> QED
    BY <1>1, <1>2, <2>1, <2>2, CountersTyped
<1> QED
  BY <1>3, <1>4

(* A put whose key is present replaces the size of its node in the account. *)
LEMMA UpdateKeeps == ASSUME LInv, NEW k \in Keys, NEW v \in Values, PutUpdate(k, v)
                     PROVE  LInv' /\ pc' = "bound" /\ UNCHANGED size
<1> USE LimitsAssumption DEF LInv, LimitsAssumption
<1> DEFINE rest == DOMAIN map \ {k}
<1>1. /\ k \in DOMAIN map /\ Weight[v] <= MaxItemBytes /\ Weight[v] \in Nat
      /\ pc' = "bound" /\ op' = [key |-> k, val |-> v, before |-> Listing]
      /\ currentBytes' = Floor0(currentBytes - map[k].size + Weight[v])
      /\ map' = [map EXCEPT ![k] = [val |-> v, size |-> Weight[v]]]
      /\ list' = <<k>> \o Without(k) /\ size' = Floor0(size - 1) + 1
  BY DEF PutUpdate, Begin
<1>2. /\ size \in Nat /\ size >= 1 /\ currentBytes \in Nat
      /\ map[k].size \in Nat /\ map[k].size <= currentBytes
      /\ currentBytes - map[k].size = Total(Sizes, rest)
  BY <1>1, CountersTyped
<1>3. size' = size /\ currentBytes' = Total(Sizes, rest) + Weight[v]
  BY <1>1, <1>2 DEF Floor0
<1>4. /\ DOMAIN map' = DOMAIN map /\ map'[k] = [val |-> v, size |-> Weight[v]]
      /\ \A x \in rest : map'[x] = map[x]
  BY <1>1
<1>5. Linked'
  <2>1. (list \in Seq(Keys) /\ IsInjective(list))' /\ ToSet(list') = DOMAIN map'
    BY <1>1, <1>4, Moved
  <2>2. \A x \in DOMAIN map' : map'[x] \in Nodes /\ map'[x].size = Weight[map'[x].val]
    <3>1. map'[k] \in Nodes /\ map'[k].size = Weight[map'[k].val]
      BY <1>1, <1>4 DEF Nodes
    <3>2. \A x \in rest : map'[x] \in Nodes /\ map'[x].size = Weight[map'[x].val]
      BY <1>4 DEF Linked
    <3> QED
      BY <1>4, <3>1, <3>2
  <2> QED
    BY <2>1, <2>2 DEF Linked
<1>6. Counted'
  <2>1. Summable(Sizes, DOMAIN map)
    BY Sizable
  <2>2. /\ \A x \in rest : Sizes'[x] = Sizes[x]
        /\ k \in DOMAIN map' /\ Sizes'[k] = Weight[v]
    BY <1>1, <1>4 DEF Sizes
  <2>3. Summable(Sizes', DOMAIN map') /\ Summable(Sizes', rest)
    BY <1>1, <1>4, <2>1, <2>2, FS_RemoveElement DEF Summable
  <2>4. Total(Sizes', rest) = Total(Sizes, rest) /\ Total(Sizes', rest) \in Nat
    BY <2>2, <2>3, TotalAgree, TotalRemove
  <2>5. Total(Sizes', DOMAIN map') = Weight[v] + Total(Sizes', rest)
    BY <1>4, <2>2, <2>3, TotalRemove
  <2> QED
    BY <1>1, <1>3, <1>4, <2>4, <2>5 DEF Counted
<1>7. Putting'
  BY <1>1 DEF Putting
<1> QED
  BY <1>1, <1>3, <1>5, <1>6, <1>7

(* The new node is inserted. *)
LEMMA InsertKeeps == ASSUME LInv, Insert
                     PROVE  /\ LInv' /\ size' = size + 1
                            /\ currentBytes' = currentBytes + Weight[op.val]
<1> USE LimitsAssumption DEF LInv, LimitsAssumption
<1> DEFINE k == op.key
           v == op.val
<1>1. /\ k \in Keys /\ v \in Values /\ Weight[v] \in Nat /\ k \notin DOMAIN map
      /\ list' = <<k>> \o list /\ pc' = "idle"
      /\ map' = [x \in DOMAIN map \cup {k} |->
                   IF x = k THEN [val |-> v, size |-> Weight[v]] ELSE map[x]]
      /\ size' = size + 1 /\ currentBytes' = currentBytes + Weight[v]
  BY DEF Insert, Done, Putting
<1> HIDE DEF k, v
<1>2. /\ DOMAIN map' = DOMAIN map \cup {k} /\ map'[k] = [val |-> v, size |-> Weight[v]]
      /\ \A x \in DOMAIN map : map'[x] = map[x]
  BY <1>1
<1>3. Linked'
  <2>1. (list \in Seq(Keys) /\ IsInjective(list))' /\ ToSet(list') = DOMAIN map'
    BY <1>1, <1>2, Prepended DEF Linked
  <2>2. map'[k] \in Nodes /\ map'[k].size = Weight[map'[k].val]
    BY <1>1, <1>2 DEF Nodes
  <2>3. \A x \in DOMAIN map : map'[x] \in Nodes /\ map'[x].size = Weight[map'[x].val]
    BY <1>2 DEF Linked
  <2> QED
    BY <1>2, <2>1, <2>2, <2>3 DEF Linked
<1>4. Counted'
  <2>1. Summable(Sizes, DOMAIN map) /\ IsFiniteSet(DOMAIN map)
    BY Sizable
  <2>2. /\ \A x \in DOMAIN map : Sizes'[x] = Sizes[x]
        /\ k \in DOMAIN map' /\ Sizes'[k] = Weight[v]
    BY <1>1, <1>2 DEF Sizes
  <2>3. Cardinality(DOMAIN map') = Cardinality(DOMAIN map) + 1 /\ IsFiniteSet(DOMAIN map')
    BY <1>1, <1>2, <2>1, FS_AddElement
  <2>4. Summable(Sizes', DOMAIN map') /\ Summable(Sizes', DOMAIN map)
    BY <1>1, <1>2, <2>1, <2>2, <2>3 DEF Summable
  <2>5. /\ Total(Sizes', DOMAIN map) = Total(Sizes, DOMAIN map)
        /\ Total(Sizes', DOMAIN map) \in Nat
    BY <2>2, <2>4, TotalAgree, TotalRemove
  <2>6. Total(Sizes', DOMAIN map') = Weight[v] + Total(Sizes', DOMAIN map)
    <3>1. DOMAIN map' \ {k} = DOMAIN map
      BY <1>1, <1>2
    <3> QED
      BY <2>2, <2>4, <3>1, TotalRemove
  <2>7. currentBytes + Weight[v] = Weight[v] + currentBytes
    BY <1>1, <2>5 DEF Counted
  <2> QED
    BY <1>1, <2>3, <2>5, <2>6, <2>7 DEF Counted
<1>5. Putting'
  BY <1>1 DEF Putting
<1> QED
  BY <1>1, <1>3, <1>4, <1>5 DEF v

(* No step breaks the invariant. *)
LEMMA StepLInv == LInv /\ [Next]_vars => LInv'
<1> SUFFICES ASSUME LInv, [Next]_vars PROVE LInv'
  OBVIOUS
<1>1. ASSUME NEW k \in Keys, Get(k) PROVE LInv'
  BY <1>1, GetKeeps
<1>2. ASSUME NEW k \in Keys, Delete(k) PROVE LInv'
  BY <1>2, DeleteKeeps
<1>3. ASSUME NEW k \in Keys, NEW v \in Values, PutUpdate(k, v) PROVE LInv'
  BY <1>3, UpdateKeeps
<1>4. ASSUME NEW k \in Keys, NEW v \in Values, PutNew(k, v) PROVE LInv'
  BY <1>4 DEF PutNew, Begin, LInv, Linked, Counted, Putting, Sizes
<1>5. ASSUME UNCHANGED <<list, map, size, currentBytes>>, Putting' PROVE LInv'
  BY <1>5 DEF LInv, Linked, Counted, Sizes
<1>6. ASSUME NEW v \in Values, PutRefused(v) PROVE LInv'
  BY <1>5, <1>6 DEF PutRefused, LInv, Putting
<1>7. CASE EvictLRU \/ Bound
  <2>1. /\ DropLast /\ list # <<>> /\ UNCHANGED <<pc, op>>
    BY <1>7 DEF EvictLRU, Bound
  <2>2. Linked' /\ Counted' /\ DOMAIN map' \subseteq DOMAIN map
    BY <2>1, TailDropped DEF LInv
  <2>3. Putting'
    BY <2>1, <2>2 DEF LInv, Putting
  <2> QED
    BY <2>2, <2>3 DEF LInv
<1>8. CASE Insert
  BY <1>8, InsertKeeps
<1>9. CASE Updated
  BY <1>5, <1>9 DEF Updated, Done, Putting
<1>10. CASE Clear
  BY <1>10, TotalEmpty, FS_EmptySet
     DEF Clear, LInv, Linked, Counted, Putting, ToSet, IsInjective
<1>11. CASE UNCHANGED vars
  BY <1>5, <1>11 DEF vars, LInv, Putting
<1> QED
  BY <1>1, <1>2, <1>3, <1>4, <1>6, <1>7, <1>8, <1>9, <1>10, <1>11 DEF Next

LEMMA InitLInv == Init => LInv
<1> SUFFICES ASSUME Init PROVE LInv
  OBVIOUS
<1>1. list = <<>> /\ DOMAIN map = {} /\ size = 0 /\ currentBytes = 0 /\ pc = "idle"
  BY DEF Init
<1>2. list \in Seq(Keys) /\ IsInjective(list) /\ ToSet(list) = {}
  BY <1>1 DEF IsInjective, ToSet
<1> QED
  BY <1>1, <1>2, TotalEmpty, FS_EmptySet DEF LInv, Linked, Counted, Putting

LEMMA LInvCorrect == Spec => []LInv
<1> QED
  BY InitLInv, StepLInv, PTL DEF Spec

(* The Map and the list hold the same nodes, each once, and size and
   currentBytes tell the truth about them, after every step of a put too. *)
THEOREM MapCorrect == Spec => []MapMatchesList
<1>1. LInv => MapMatchesList
  <2> SUFFICES ASSUME LInv PROVE MapMatchesList
    OBVIOUS
  <2>1. size = Len(list)
    BY CountersTyped DEF LInv
  <2>2. currentBytes = MapThenSumSet(LAMBDA k : Sizes[k], DOMAIN map)
    BY DEF LInv, Counted, Total
  <2>3. Range(list) = DOMAIN map
    BY DEF LInv, Linked, Range, ToSet
  <2> QED
    BY <2>1, <2>2, <2>3 DEF MapMatchesList, LInv, Linked
<1> QED
  BY <1>1, LInvCorrect, PTL

(* An entry of the largest size allowed fits into the budget. *)
BudgetHoldsOne == MaxItemBytes <= MaxBytes

(* Room is made before a node is inserted and after one has grown. *)
LEMMA StepLimited == ASSUME BudgetHoldsOne, LInv, Limited, [Next]_vars PROVE Limited'
<1> USE LimitsAssumption DEF LimitsAssumption, BudgetHoldsOne
<1>1. /\ size \in Nat /\ currentBytes \in Nat /\ size = Len(list)
      /\ list = <<>> => currentBytes = 0 /\ size = 0
  BY CountersTyped DEF LInv
<1>2. LInv'
  BY StepLInv
<1>3. size' \in Nat /\ currentBytes' \in Nat
  <2>1. LInv' => (size \in Nat /\ currentBytes \in Nat)'
    BY CountersNat, PTL
  <2> QED
    BY <1>2, <2>1
<1>4. ASSUME NEW k \in Keys, Get(k) PROVE Limited'
  BY <1>4, GetKeeps DEF Limited
<1>5. ASSUME NEW k \in Keys, Delete(k) PROVE Limited'
  <2>1. size' <= size /\ currentBytes' <= currentBytes /\ pc' = pc
    BY <1>5, DeleteKeeps
  <2> QED
    BY <1>1, <1>3, <2>1 DEF Limited
<1>6. ASSUME NEW k \in Keys, NEW v \in Values, PutUpdate(k, v) PROVE Limited'
  BY <1>6, UpdateKeeps DEF Limited
<1>7. ASSUME NEW k \in Keys, NEW v \in Values, PutNew(k, v) PROVE Limited'
  BY <1>7 DEF PutNew, Begin, Limited
<1>8. ASSUME NEW v \in Values, PutRefused(v) PROVE Limited'
  BY <1>8 DEF PutRefused, Limited
<1>9. CASE EvictLRU \/ Bound
  <2>1. DropLast /\ list # <<>> /\ pc' = pc
    BY <1>9 DEF EvictLRU, Bound
  <2>2. size' <= size /\ currentBytes' <= currentBytes
    BY <2>1, TailDropped DEF LInv
  <2> QED
    BY <1>1, <1>3, <2>1, <2>2 DEF Limited
<1>10. CASE Insert
  <2>1. size' = size + 1 /\ currentBytes' = currentBytes + Weight[op.val]
    BY <1>10, InsertKeeps
  <2>2. Weight[op.val] \in Nat /\ Weight[op.val] <= MaxBytes
    BY <1>10 DEF Insert, LInv, Putting
  <2>3. CASE list = <<>>
    BY <1>1, <2>1, <2>2, <2>3 DEF Limited
  <2>4. CASE ~Full
    <3>1. Cardinality(DOMAIN map) = size
      BY DEF LInv, Counted
    <3>2. ~(size >= MaxEntries) /\ ~(currentBytes + Weight[op.val] > MaxBytes)
      BY <2>4, <3>1 DEF Full
    <3> QED
      BY <1>1, <2>1, <2>2, <3>2 DEF Limited
  <2> QED
    BY <1>10, <2>3, <2>4 DEF Insert
<1>11. CASE Updated
  BY <1>1, <1>11 DEF Updated, Limited
<1>12. CASE Clear
  BY <1>12 DEF Clear, Limited
<1>13. CASE UNCHANGED vars
  BY <1>13 DEF vars, Limited
<1> QED
  BY <1>4, <1>5, <1>6, <1>7, <1>8, <1>9, <1>10, <1>11, <1>12, <1>13 DEF Next

LEMMA LimitedCorrect == ASSUME BudgetHoldsOne PROVE Spec => []Limited
<1>1. Init => Limited
  BY LimitsAssumption DEF Init, Limited, LimitsAssumption
<1>2. LInv /\ Limited /\ [Next]_vars => Limited'
  BY StepLimited
<1> QED
  BY <1>1, <1>2, LInvCorrect, PTL DEF Spec

(* Between operations neither limit is exceeded. *)
THEOREM LimitsCorrect == ASSUME BudgetHoldsOne PROVE Spec => []WithinLimits
<1>1. Limited => WithinLimits
  BY DEF Limited, WithinLimits
<1> QED
  BY <1>1, LimitedCorrect, PTL

-----------------------------------------------------------------------------
(* The refinement.  A put maps to one step of the store, the one that ends it;
   while it runs, History relates the list to the entries before the put. *)

(* The entries before the put, without the one of its key. *)
Others == Store!Without(op.key)

(* How many of the others are left, and their place in the list: behind the
   updated node. *)
Ahead == IF pc = "bound" THEN 1 ELSE 0
Kept == Len(list) - Ahead

(* The first of the others are left, and no more of them would have fitted. *)
History ==
    pc # "idle" =>
      /\ Kept \in 0..Len(Others) /\ \A i \in 1..Kept : Others[i] = Listing[i + Ahead]
      /\ \A n \in 1..Len(Others) :
            n > Kept => ~Store!Fits(SubSeq(Others, 1, n), Weight[op.val])
      /\ Others \in Seq(Bodies)
      /\ pc = "bound" => list[1] = op.key /\ map[op.key].val = op.val
      /\ Store!Holds(op.key) <=> pc = "bound"

(* The weight of entries is the sum over their places. *)
LEMMA BytesTotal == \A es : Store!Bytes(es) = Total([i \in DOMAIN es |-> Weight[es[i].val]], DOMAIN es)
  BY DEF Store!Bytes, Store!MapThenSumSet, Store!MapThenFoldSet, Total, MapThenSumSet, MapThenFoldSet

(* Entries of nodes weigh what the nodes occupy. *)
LEMMA BytesOfNodes ==
    ASSUME Linked, NEW ks \in Seq(Keys), IsInjective(ks), ToSet(ks) \subseteq DOMAIN map,
           NEW es, DOMAIN es = DOMAIN ks, \A i \in DOMAIN ks : es[i].val = map[ks[i]].val
    PROVE  Store!Bytes(es) = Total(Sizes, ToSet(ks))
<1> DEFINE g == [i \in DOMAIN es |-> Weight[es[i].val]]
<1>1. \A i \in DOMAIN ks : ks[i] \in DOMAIN map
  BY DEF ToSet
<1>2. \A i \in DOMAIN ks : g[i] = map[ks[i]].size
  BY <1>1 DEF Linked
<1>3. \A i \in DOMAIN ks : Sizes[ks[i]] \in Nat /\ g[i] = Sizes[ks[i]]
  BY <1>1, <1>2, Sizable
<1>4. Store!Bytes(es) = Total(g, DOMAIN ks)
  BY BytesTotal
<1> HIDE DEF g
<1> QED
  BY <1>3, <1>4, TotalReindexed

(* What Retained keeps, if m of the entries fit and no more. *)
LEMMA RetainedIs ==
    ASSUME NEW es, Len(es) \in Nat, NEW n, NEW m \in 0..Len(es),
           m # 0 => Store!Fits(SubSeq(es, 1, m), n),
           \A i \in 1..Len(es) : i > m => ~Store!Fits(SubSeq(es, 1, i), n)
    PROVE  Store!Retained(es, n) = SubSeq(es, 1, m)
<1> DEFINE S == {0} \cup {i \in 1..Len(es) : Store!Fits(SubSeq(es, 1, i), n)}
<1>1. S \in SUBSET (0..Len(es)) /\ S # {} /\ m \in S
  OBVIOUS
<1>2. \A i \in S : i \in Nat /\ i <= m
  OBVIOUS
<1>3. Store!Retained(es, n) = SubSeq(es, 1, Max(S))
  BY DEF Store!Retained, Store!Max, Max
<1> HIDE DEF S
<1>4. Max(S) \in S /\ m <= Max(S)
  BY <1>1, LargestUpTo
<1>5. Max(S) = m
  BY <1>2, <1>4
<1> QED
  BY <1>3, <1>5

(* The listing has an entry for each place of the list. *)
LEMMA ListingTyped ==
    ASSUME Linked
    PROVE  /\ Len(list) \in Nat /\ DOMAIN list = 1..Len(list) /\ Listing \in Seq(Bodies)
           /\ Len(Listing) = Len(list)
           /\ \A i \in 1..Len(list) : /\ Listing[i] = [key |-> list[i], val |-> map[list[i]].val]
                                       /\ Listing[i].key = list[i]
                                       /\ Listing[i].val = map[list[i]].val
                                       /\ list[i] \in DOMAIN map /\ Listing[i] \in Bodies
<1>1. Len(list) \in Nat /\ DOMAIN list = 1..Len(list) /\ DOMAIN map \subseteq Keys
  BY Sizable DEF Linked
<1>2. \A i \in 1..Len(list) : list[i] \in DOMAIN map
  BY <1>1 DEF Linked, ToSet
<1>3. \A i \in 1..Len(list) : /\ Listing[i] = [key |-> list[i], val |-> map[list[i]].val]
                              /\ Listing[i].key = list[i] /\ Listing[i].val = map[list[i]].val
  BY <1>1 DEF Listing
<1>4. \A k \in DOMAIN map : [key |-> k, val |-> map[k].val] \in Bodies
  BY <1>1 DEF Linked, Nodes, Bodies
<1>5. \A i \in 1..Len(list) : Listing[i] \in Bodies
  BY <1>2, <1>3, <1>4
<1>6. Listing \in [1..Len(list) -> Bodies]
  BY <1>1, <1>5 DEF Listing
<1> QED
  BY <1>1, <1>2, <1>3, <1>5, <1>6

(* The store holds what the Map holds. *)
LEMMA HoldsListing ==
    ASSUME Linked, Shown = Listing
    PROVE  \A k : /\ Store!Holds(k) <=> k \in DOMAIN map
                  /\ k \in DOMAIN map => /\ Store!Lookup(k) \in 1..Len(list)
                                         /\ list[Store!Lookup(k)] = k
<1> SUFFICES ASSUME NEW k
             PROVE  /\ Store!Holds(k) <=> k \in DOMAIN map
                    /\ k \in DOMAIN map => /\ Store!Lookup(k) \in 1..Len(list)
                                           /\ list[Store!Lookup(k)] = k
  OBVIOUS
<1>1. /\ DOMAIN list = 1..Len(list) /\ DOMAIN Listing = 1..Len(list)
      /\ \A i \in 1..Len(list) : Listing[i].key = list[i] /\ list[i] \in DOMAIN map
  <2>1. /\ DOMAIN list = 1..Len(list)
        /\ \A i \in 1..Len(list) : Listing[i].key = list[i] /\ list[i] \in DOMAIN map
    BY ListingTyped
  <2>2. DOMAIN Listing = DOMAIN list
    BY DEF Listing
  <2> QED
    BY <2>1, <2>2
<1>2. k \in DOMAIN map => \E i \in 1..Len(list) : list[i] = k
  BY <1>1 DEF Linked, ToSet
<1>3. Store!Holds(k) <=> k \in DOMAIN map
  BY <1>1, <1>2 DEF Store!Holds
<1>4. k \in DOMAIN map => /\ Store!Lookup(k) \in DOMAIN Listing
                         /\ Listing[Store!Lookup(k)].key = k
  BY <1>3 DEF Store!Holds, Store!Lookup
<1> QED
  BY <1>1, <1>3, <1>4

(* _remove takes out of the list what Without takes out of the entries. *)
LEMMA ListingWithout ==
    ASSUME Linked, Shown = Listing, NEW k \in DOMAIN map
    PROVE  /\ Store!Without(k) \in Seq(Bodies) /\ Len(list) \in Nat /\ Len(list) >= 1
           /\ Len(Store!Without(k)) = Len(list) - 1 /\ Len(Without(k)) = Len(list) - 1
           /\ \A i \in 1..(Len(list) - 1) :
                 Store!Without(k)[i] = [key |-> Without(k)[i], val |-> map[Without(k)[i]].val]
<1> DEFINE j == Store!Lookup(k)
<1>1. Store!Holds(k) /\ j \in 1..Len(list) /\ list[j] = k
  BY HoldsListing
<1>2. Store!Without(k) = RemoveAt(Listing, j)
  BY <1>1 DEF Store!Without, Store!RemoveAt, RemoveAt
<1> HIDE DEF j
<1>3. /\ Len(list) \in Nat /\ Listing \in Seq(Bodies) /\ Len(Listing) = Len(list)
      /\ \A i \in 1..Len(list) : Listing[i] = [key |-> list[i], val |-> map[list[i]].val]
  BY ListingTyped
<1>4. Without(k) = RemoveAt(list, j)
  BY <1>1, RemovedFirst DEF Linked, Without
<1>5. /\ RemoveAt(Listing, j) \in Seq(Bodies) /\ Len(RemoveAt(Listing, j)) = Len(list) - 1
      /\ \A i \in 1..(Len(list) - 1) :
            RemoveAt(Listing, j)[i] = IF i < j THEN Listing[i] ELSE Listing[i + 1]
  <2>1. j \in 1..Len(Listing)
    BY <1>1, <1>3
  <2> QED
    BY <1>3, <2>1, RemovedAt, Zenon
<1>6. /\ Len(RemoveAt(list, j)) = Len(list) - 1
      /\ \A i \in 1..(Len(list) - 1) :
            RemoveAt(list, j)[i] = IF i < j THEN list[i] ELSE list[i + 1]
  <2>1. list \in Seq(Keys)
    BY DEF Linked
  <2> QED
    BY <1>1, <2>1, RemovedAt, Zenon
<1>7. \A i \in 1..(Len(list) - 1) : i \in 1..Len(list) /\ i + 1 \in 1..Len(list)
  BY <1>3
<1>8. ASSUME NEW i \in 1..(Len(list) - 1)
      PROVE  RemoveAt(Listing, j)[i]
               = [key |-> RemoveAt(list, j)[i], val |-> map[RemoveAt(list, j)[i]].val]
  BY <1>3, <1>5, <1>6, <1>7
<1>9. Len(list) >= 1
  BY <1>1, <1>3
<1> QED
  BY <1>2, <1>3, <1>4, <1>5, <1>6, <1>8, <1>9

(* What the others that are left weigh together. *)
LEMMA OthersWeigh ==
    ASSUME LInv, History, pc # "idle"
    PROVE  /\ Kept \in Nat /\ Kept = Len(list) - Ahead /\ Len(SubSeq(Others, 1, Kept)) = Kept
           /\ pc = "evict" => Store!Bytes(SubSeq(Others, 1, Kept)) = currentBytes
           /\ pc = "bound" =>
                 /\ Store!Bytes(SubSeq(Others, 1, Kept)) = currentBytes - Weight[op.val]
                 /\ op.key \in DOMAIN map
<1> USE DEF LInv
<1> DEFINE es == SubSeq(Others, 1, Kept)
           m == Kept
<1>1. /\ Len(list) \in Nat /\ DOMAIN list = 1..Len(list) /\ list \in Seq(Keys)
      /\ \A i \in 1..Len(list) : Listing[i].val = map[list[i]].val /\ list[i] \in DOMAIN map
  <2>1. list \in Seq(Keys)
    BY DEF Linked
  <2> QED
    BY <2>1, ListingTyped
<1>2. /\ m = Len(list) - Ahead /\ Others \in Seq(Bodies) /\ Len(Others) \in Nat
      /\ m \in 0..Len(Others) /\ \A i \in 1..m : Others[i] = Listing[i + Ahead]
  BY DEF History, Kept
<1> HIDE DEF m
<1>3. es \in Seq(Bodies) /\ Len(es) = m /\ \A i \in 1..m : es[i] = Others[i]
  BY <1>2 DEF m
<1>4. DOMAIN es = 1..m
  BY <1>3
<1> HIDE DEF es
<1>5. ASSUME pc = "evict" PROVE Store!Bytes(es) = currentBytes
  <2>1. m = Len(list) /\ \A i \in 1..m : i + Ahead = i
    BY <1>1, <1>2, <1>5 DEF Ahead
  <2>2. DOMAIN es = DOMAIN list /\ \A i \in DOMAIN list : es[i].val = map[list[i]].val
    BY <1>1, <1>2, <1>3, <1>4, <2>1
  <2>3. Store!Bytes(es) = Total(Sizes, ToSet(list))
    BY <1>1, <2>2, BytesOfNodes DEF Linked
  <2> QED
    BY <2>3 DEF Linked, Counted
<1>6. ASSUME pc = "bound"
      PROVE  Store!Bytes(es) = currentBytes - Weight[op.val] /\ op.key \in DOMAIN map
  <2> DEFINE ks == SubSeq(list, 2, Len(list))
  <2>1. m = Len(list) - 1 /\ Ahead = 1 /\ Len(list) >= 1
    BY <1>1, <1>2, <1>6 DEF Ahead
  <2>2. list[1] = op.key /\ map[op.key].val = op.val
    BY <1>6 DEF History
  <2>3. op.key \in DOMAIN map /\ map[op.key].size = Weight[op.val]
    BY <1>1, <2>1, <2>2 DEF Linked
  <2>4. /\ ks \in Seq(Keys) /\ IsInjective(ks)
        /\ ToSet(ks) = {list[i] : i \in 2..Len(list)}
    <3>1. 1 \in 0..Len(list) /\ 1 + 1 = 2
      BY <1>1, <2>1
    <3> QED
      BY <1>1, <3>1, Cut DEF Linked
  <2>5. Len(ks) = m /\ \A i \in 1..m : ks[i] = list[i + 1]
    BY <1>1, <2>1
  <2> HIDE DEF ks
  <2>6. ToSet(ks) = DOMAIN map \ {op.key}
    <3>1. \A i \in 1..Len(list) : i \in 2..Len(list) <=> list[i] # op.key
      BY <1>1, <2>1, <2>2 DEF Linked, IsInjective
    <3>2. 2..Len(list) \subseteq 1..Len(list)
      BY <1>1
    <3>3. DOMAIN map = {list[i] : i \in 1..Len(list)}
      BY <1>1 DEF Linked, ToSet
    <3> QED
      BY <2>4, <3>1, <3>2, <3>3
  <2>7. DOMAIN es = DOMAIN ks /\ \A i \in DOMAIN ks : es[i].val = map[ks[i]].val
    <3>1. DOMAIN ks = 1..m
      BY <2>4, <2>5
    <3>2. \A i \in 1..m : i + 1 \in 1..Len(list)
      BY <1>1, <2>1
    <3>3. \A i \in 1..m : es[i] = Listing[i + 1] /\ ks[i] = list[i + 1]
      BY <1>2, <1>3, <2>1, <2>5
    <3> QED
      BY <1>1, <1>4, <3>1, <3>2, <3>3
  <2>8. Store!Bytes(es) = Total(Sizes, ToSet(ks))
    BY <2>4, <2>6, <2>7, BytesOfNodes
  <2>9. currentBytes - map[op.key].size = Total(Sizes, DOMAIN map \ {op.key})
    BY <2>3, CountersTyped
  <2> QED
    BY <2>3, <2>6, <2>8, <2>9
<1> QED
  BY <1>2, <1>3, <1>5, <1>6 DEF es, m

(* As long as a put runs, the entries before it stay what they are. *)
LEMMA ShownStays ==
    ASSUME Shown' = Shown
    PROVE  \A k : Store!Holds(k)' = Store!Holds(k) /\ Store!Without(k)' = Store!Without(k)
  BY DEF Store!Holds, Store!Without, Store!Lookup, Store!RemoveAt

(* At first all the others are left. *)
LEMMA UpdateHistory ==
    ASSUME LInv, NEW k \in Keys, NEW v \in Values, PutUpdate(k, v)
    PROVE  History'
<1> USE DEF LInv
<1>1. /\ k \in DOMAIN map /\ pc = "idle" /\ pc' = "bound" /\ op'.key = k /\ op'.val = v
      /\ op'.before = Listing /\ map' = [map EXCEPT ![k] = [val |-> v, size |-> Weight[v]]]
      /\ list' = <<k>> \o Without(k)
  BY DEF PutUpdate, Begin
<1>2. Shown = Listing /\ Shown' = Shown
  BY <1>1 DEF Shown
<1>3. Others' = Store!Without(k) /\ Store!Holds(op.key)'
  <2>1. (Store!Without(op.key))' = Store!Without(k) /\ (Store!Holds(op.key))' = Store!Holds(k)
    BY <1>1, <1>2 DEF Store!Holds, Store!Without, Store!Lookup, Store!RemoveAt
  <2>2. Store!Holds(k)
    BY <1>1, <1>2, HoldsListing
  <2> QED
    BY <2>1, <2>2 DEF Others
<1>4. /\ Store!Without(k) \in Seq(Bodies) /\ Len(list) \in Nat /\ Len(list) >= 1
      /\ Len(Store!Without(k)) = Len(list) - 1 /\ Len(Without(k)) = Len(list) - 1
      /\ \A i \in 1..(Len(list) - 1) :
            Store!Without(k)[i] = [key |-> Without(k)[i], val |-> map[Without(k)[i]].val]
  BY <1>1, <1>2, ListingWithout
<1>5. /\ Without(k) \in Seq(Keys) /\ ToSet(Without(k)) = DOMAIN map \ {k}
  BY <1>1, Moved
<1> DEFINE u == Without(k)
           o == Store!Without(k)
<1>6. /\ Len(u) = Len(list) - 1 /\ u \in Seq(Keys) /\ list' = <<k>> \o u /\ o \in Seq(Bodies)
      /\ Len(o) = Len(list) - 1
      /\ \A i \in 1..(Len(list) - 1) : o[i] = [key |-> u[i], val |-> map[u[i]].val]
  BY <1>1, <1>4, <1>5
<1>7. \A i \in 1..Len(u) : u[i] \in DOMAIN map /\ u[i] # k
  BY <1>5, <1>6 DEF ToSet
<1> HIDE DEF u, o
<1>8. /\ Len(list') = Len(u) + 1 /\ DOMAIN list' = 1..(Len(u) + 1) /\ list'[1] = k
      /\ \A i \in 1..Len(u) : i + 1 \in 1..(Len(u) + 1) /\ list'[i + 1] = u[i]
  BY <1>1, <1>4, <1>6
<1>9. \A i \in 1..Len(u) : o[i] = Listing'[i + 1]
  <2>1. \A i \in DOMAIN list' : Listing'[i] = [key |-> list'[i], val |-> map'[list'[i]].val]
    BY DEF Listing
  <2>2. \A i \in 1..Len(u) : map'[u[i]] = map[u[i]]
    BY <1>1, <1>7
  <2> SUFFICES ASSUME NEW i \in 1..Len(u) PROVE o[i] = Listing'[i + 1]
    OBVIOUS
  <2>3. o[i] = [key |-> u[i], val |-> map[u[i]].val]
    BY <1>6
  <2>4. i + 1 \in DOMAIN list' /\ list'[i + 1] = u[i]
    BY <1>8
  <2>5. Listing'[i + 1] = [key |-> u[i], val |-> map'[u[i]].val]
    BY <2>1, <2>4
  <2> QED
    BY <2>2, <2>3, <2>5
<1>10. Kept' = Len(u) /\ Ahead' = 1
  BY <1>1, <1>4, <1>6, <1>8 DEF Kept, Ahead
<1>11. map'[k].val = v
  BY <1>1
<1>12. Others' = o
  BY <1>3 DEF o
<1> QED
  BY <1>1, <1>3, <1>4, <1>6, <1>8, <1>9, <1>10, <1>11, <1>12 DEF History

LEMMA NewHistory ==
    ASSUME LInv, NEW k \in Keys, NEW v \in Values, PutNew(k, v)
    PROVE  History'
<1> USE DEF LInv
<1>1. /\ k \notin DOMAIN map /\ pc = "idle" /\ pc' = "evict" /\ op'.key = k /\ op'.val = v
      /\ op'.before = Listing /\ UNCHANGED <<list, map>>
  BY DEF PutNew, Begin
<1>2. Shown = Listing /\ Shown' = Shown /\ Listing' = Listing
  BY <1>1 DEF Shown, Listing
<1>3. Others' = Listing /\ ~Store!Holds(op.key)'
  <2>1. (Store!Without(op.key))' = Store!Without(k) /\ (Store!Holds(op.key))' = Store!Holds(k)
    BY <1>1, <1>2 DEF Store!Holds, Store!Without, Store!Lookup, Store!RemoveAt
  <2>2. ~Store!Holds(k)
    BY <1>1, <1>2, HoldsListing
  <2> QED
    BY <1>2, <2>1, <2>2 DEF Others, Store!Without
<1>4. /\ Len(list) \in Nat /\ Listing \in Seq(Bodies) /\ Len(Listing) = Len(list)
  BY ListingTyped
<1>5. Kept' = Len(list) /\ Ahead' = 0
  BY <1>1, <1>4 DEF Kept, Ahead
<1> QED
  BY <1>1, <1>2, <1>3, <1>4, <1>5 DEF History

(* One more of the others goes, because the ones before it and it do not fit. *)
LEMMA DropHistory ==
    ASSUME BudgetHoldsOne, LInv, Limited, History, EvictLRU \/ Bound
    PROVE  History'
<1> USE LimitsAssumption DEF LInv, LimitsAssumption
<1> DEFINE k == Last(list)
<1>1. /\ DropLast /\ list # <<>> /\ UNCHANGED <<pc, op>> /\ pc # "idle"
      /\ list' = Front(list) /\ map' = Forget(k)
  BY DEF EvictLRU, Bound, DropLast
<1>2. Shown' = Shown /\ Ahead' = Ahead
  BY <1>1 DEF Shown, Ahead
<1>3. Others' = Others /\ Store!Holds(op.key)' = Store!Holds(op.key)
  BY <1>1, <1>2 DEF Others, Store!Holds, Store!Without, Store!Lookup, Store!RemoveAt
<1>4. /\ Len(list) \in Nat /\ DOMAIN list = 1..Len(list) /\ Len(list) >= 1
      /\ \A i \in 1..Len(list) : /\ Listing[i] = [key |-> list[i], val |-> map[list[i]].val]
                                  /\ list[i] \in DOMAIN map
  BY <1>1, ListingTyped DEF Linked
<1>5. /\ Len(list') = Len(list) - 1 /\ DOMAIN list' = 1..(Len(list) - 1)
      /\ \A i \in 1..(Len(list) - 1) : list'[i] = list[i] /\ list[i] # k
  <2>1. /\ Len(list') = Len(list) - 1 /\ DOMAIN list' = 1..(Len(list) - 1)
        /\ \A i \in 1..(Len(list) - 1) : list'[i] = list[i]
    BY <1>1, <1>4 DEF Front, Linked
  <2>2. k = list[Len(list)]
    BY DEF Last
  <2>3. \A i \in 1..(Len(list) - 1) : i \in 1..Len(list) /\ i # Len(list)
    BY <1>4
  <2>4. Len(list) \in 1..Len(list)
    BY <1>4
  <2>5. \A i, h \in 1..Len(list) : list[i] = list[h] => i = h
    BY <1>4 DEF Linked, IsInjective
  <2> QED
    BY <2>1, <2>2, <2>3, <2>4, <2>5
<1>6. \A i \in 1..(Len(list) - 1) : Listing'[i] = Listing[i]
  <2> SUFFICES ASSUME NEW i \in 1..(Len(list) - 1) PROVE Listing'[i] = Listing[i]
    OBVIOUS
  <2>1. i \in 1..Len(list) /\ i \in DOMAIN list'
    BY <1>4, <1>5
  <2>2. \A j \in DOMAIN list' : Listing'[j] = [key |-> list'[j], val |-> map'[list'[j]].val]
    BY DEF Listing
  <2>3. list'[i] = list[i] /\ list[i] # k /\ list[i] \in DOMAIN map
    BY <1>4, <1>5, <2>1
  <2>4. map'[list[i]] = map[list[i]]
    BY <1>1, <2>3 DEF Forget
  <2>5. Listing'[i] = [key |-> list[i], val |-> map'[list[i]].val]
    BY <2>1, <2>2, <2>3
  <2> QED
    BY <1>4, <2>1, <2>4, <2>5
<1>7. /\ Kept \in Nat /\ Kept = Len(list) - Ahead /\ Len(SubSeq(Others, 1, Kept)) = Kept
      /\ pc = "evict" => Store!Bytes(SubSeq(Others, 1, Kept)) = currentBytes
      /\ pc = "bound" =>
            /\ Store!Bytes(SubSeq(Others, 1, Kept)) = currentBytes - Weight[op.val]
            /\ op.key \in DOMAIN map
  BY <1>1, OthersWeigh
<1>8. currentBytes \in Nat /\ Weight[op.val] \in Nat /\ size = Len(list)
  BY <1>1, CountersTyped DEF Putting
<1>9. Kept >= 1 /\ ~Store!Fits(SubSeq(Others, 1, Kept), Weight[op.val])
  <2>1. CASE EvictLRU
    <3>1. Full /\ pc = "evict" /\ Kept = Len(list)
      BY <1>4, <1>7, <2>1 DEF EvictLRU, Ahead
    <3>2. Cardinality(DOMAIN map) = Len(list)
      BY Sizable
    <3> QED
      BY <1>4, <1>7, <1>8, <3>1, <3>2 DEF Full, Store!Fits
  <2>2. CASE Bound
    <3>1. pc = "bound" /\ currentBytes > MaxBytes /\ Ahead = 1 /\ Kept = Len(list) - 1
      BY <1>7, <2>2 DEF Bound, Ahead
    <3>2. ASSUME Kept = 0 PROVE FALSE
      <4>1. Len(list) \in Nat /\ Kept = Len(list) - 1
        BY <1>4, <3>1
      <4>2. Len(list) = 1
        BY <3>2, <4>1
      <4>3. Cardinality(DOMAIN map) = 1 /\ IsFiniteSet(DOMAIN map) /\ op.key \in DOMAIN map
        BY <1>7, <3>1, <4>2, Sizable
      <4>4. DOMAIN map \ {op.key} = {}
        <5>1. /\ IsFiniteSet(DOMAIN map \ {op.key})
              /\ Cardinality(DOMAIN map \ {op.key}) = Cardinality(DOMAIN map) - 1
          BY <4>3, FS_RemoveElement
        <5>2. Cardinality(DOMAIN map \ {op.key}) = 0
          BY <4>3, <5>1
        <5> QED
          BY <5>1, <5>2, FS_EmptySet
      <4>5. currentBytes - map[op.key].size = 0 /\ map[op.key].size \in Nat
        BY <4>3, <4>4, CountersTyped, TotalEmpty
      <4>6. map[op.key].size <= MaxItemBytes
        <5>1. map[op.key].size = Weight[map[op.key].val] /\ map[op.key].val = op.val
          BY <3>1, <4>3 DEF Linked, History
        <5> QED
          BY <3>1, <5>1 DEF Putting
      <4> QED
        BY <1>8, <3>1, <4>5, <4>6 DEF BudgetHoldsOne
    <3>3. ~Store!Fits(SubSeq(Others, 1, Kept), Weight[op.val])
      BY <1>7, <1>8, <3>1 DEF Store!Fits
    <3> QED
      BY <1>7, <3>2, <3>3
  <2> QED
    BY <2>1, <2>2
<1> DEFINE m == Kept
<1>10. m \in Nat /\ m >= 1 /\ m = Len(list) - Ahead /\ Kept' = m - 1 /\ Ahead \in {0, 1}
  BY <1>2, <1>4, <1>5, <1>7, <1>9 DEF Kept, Ahead
<1>11. /\ m \in 0..Len(Others) /\ \A i \in 1..m : Others[i] = Listing[i + Ahead]
       /\ \A n \in 1..Len(Others) :
             n > m => ~Store!Fits(SubSeq(Others, 1, n), Weight[op.val])
       /\ Others \in Seq(Bodies) /\ Len(Others) \in Nat
       /\ pc = "bound" => list[1] = op.key /\ map[op.key].val = op.val
       /\ Store!Holds(op.key) <=> pc = "bound"
  BY <1>1 DEF History
<1>12. ~Store!Fits(SubSeq(Others, 1, m), Weight[op.val])
  BY <1>9
<1> HIDE DEF m
<1>13. \A es : Store!Fits(es, Weight[op.val])' = Store!Fits(es, Weight[op.val])
  BY <1>1
<1>14. m - 1 \in 0..Len(Others) /\ \A i \in 1..(m - 1) : Others[i] = Listing'[i + Ahead]
  <2>1. \A i \in 1..(m - 1) : i \in 1..m /\ i + Ahead \in 1..(Len(list) - 1)
    BY <1>4, <1>10
  <2> QED
    BY <1>6, <1>10, <1>11, <2>1
<1>15. \A n \in 1..Len(Others) : n > m - 1 => ~Store!Fits(SubSeq(Others, 1, n), Weight[op.val])
  <2>1. \A n \in 1..Len(Others) : n > m - 1 => n = m \/ n > m
    BY <1>10
  <2> QED
    BY <1>11, <1>12, <2>1
<1>16. pc = "bound" => list'[1] = op.key /\ map'[op.key].val = op.val
  <2> SUFFICES ASSUME pc = "bound" PROVE list'[1] = op.key /\ map'[op.key].val = op.val
    OBVIOUS
  <2>1. 1 \in 1..(Len(list) - 1) /\ 1 \in 1..Len(list)
    BY <1>4, <1>10 DEF Ahead
  <2>2. list'[1] = list[1] /\ list[1] # k /\ list[1] \in DOMAIN map
    BY <1>4, <1>5, <2>1
  <2> QED
    BY <1>1, <1>11, <2>2 DEF Forget
<1> QED
  BY <1>1, <1>2, <1>3, <1>10, <1>11, <1>13, <1>14, <1>15, <1>16 DEF History

LEMMA StepHistory ==
    ASSUME BudgetHoldsOne, LInv, Limited, History, [Next]_vars
    PROVE  History'
<1>1. ASSUME NEW k \in Keys, Get(k) \/ Delete(k) PROVE History'
  BY <1>1 DEF Get, Delete, History
<1>2. ASSUME NEW k \in Keys, NEW v \in Values, PutUpdate(k, v) \/ PutNew(k, v) PROVE History'
  BY <1>2, UpdateHistory, NewHistory
<1>3. ASSUME NEW v \in Values, PutRefused(v) PROVE History'
  BY <1>3 DEF PutRefused, History
<1>4. CASE EvictLRU \/ Bound
  BY <1>4, DropHistory
<1>5. CASE Insert \/ Updated \/ Clear
  BY <1>5 DEF Insert, Updated, Clear, Done, History
<1>6. CASE UNCHANGED vars
  <2>1. UNCHANGED <<list, map, pc, op>>
    BY <1>6 DEF vars
  <2>2. Shown' = Shown /\ Listing' = Listing /\ Kept' = Kept /\ Ahead' = Ahead
    BY <2>1 DEF Shown, Listing, Kept, Ahead
  <2>3. Others' = Others /\ Store!Holds(op.key)' = Store!Holds(op.key)
    BY <2>1, <2>2 DEF Others, Store!Holds, Store!Without, Store!Lookup, Store!RemoveAt
  <2>4. \A es : Store!Fits(es, Weight[op.val])' = Store!Fits(es, Weight[op.val])
    BY <2>1
  <2> QED
    BY <2>1, <2>2, <2>3, <2>4 DEF History
<1> QED
  BY <1>1, <1>2, <1>3, <1>4, <1>5, <1>6 DEF Next

(* A hit moves the entry to the front. *)
LEMMA GetRefines ==
    ASSUME LInv, NEW k \in Keys, Get(k)
    PROVE  Store!GetHit(k) \/ Store!GetMiss(k)
<1> USE DEF LInv
<1>1. pc = "idle" /\ pc' = "idle" /\ map' = map /\ Shown = Listing /\ Shown' = Listing'
  BY DEF Get, Shown
<1>2. CASE k \notin DOMAIN map
  <2>1. ret' = Result("get", k, FALSE, NoValue) /\ list' = list
    BY <1>2 DEF Get
  <2>2. Shown' = Shown /\ ~Store!Holds(k)
    BY <1>1, <1>2, <2>1, HoldsListing DEF Listing
  <2> QED
    BY <2>1, <2>2 DEF Store!GetMiss, Store!Result, Result
<1>3. CASE k \in DOMAIN map
  <2>1. ret' = Result("get", k, TRUE, map[k].val) /\ list' = <<k>> \o Without(k)
    BY <1>3 DEF Get
  <2> DEFINE j == Store!Lookup(k)
  <2>2. Store!Holds(k) /\ j \in 1..Len(list) /\ list[j] = k
    BY <1>1, <1>3, HoldsListing
  <2>3. Shown[j] = [key |-> k, val |-> map[k].val] /\ Shown[j].val = map[k].val
    BY <1>1, <2>2, ListingTyped
  <2>4. Shown' = <<Shown[j]>> \o Store!Without(k)
    <3> DEFINE u == Without(k)
               o == Store!Without(k)
    <3>1. /\ o \in Seq(Bodies) /\ Len(list) \in Nat /\ Len(list) >= 1
          /\ Len(o) = Len(list) - 1 /\ Len(u) = Len(list) - 1
          /\ \A i \in 1..(Len(list) - 1) : o[i] = [key |-> u[i], val |-> map[u[i]].val]
      BY <1>1, <1>3, ListingWithout
    <3>2. u \in Seq(Keys) /\ list' = <<k>> \o u
      BY <1>3, <2>1, Moved
    <3>3. Listing' = [i \in DOMAIN list' |-> [key |-> list'[i], val |-> map[list'[i]].val]]
      BY <1>1 DEF Listing
    <3> HIDE DEF u, o, j
    <3>4. Listing' = <<Shown[j]>> \o o
      BY <2>3, <3>1, <3>2, <3>3
    <3> QED
      BY <1>1, <3>4 DEF o
  <2> QED
    BY <2>1, <2>2, <2>3, <2>4 DEF Store!GetHit, Store!Result, Result
<1> QED
  BY <1>2, <1>3

LEMMA DeleteRefines == ASSUME LInv, NEW k \in Keys, Delete(k) PROVE Store!Delete(k)
<1> USE DEF LInv
<1>1. /\ pc = "idle" /\ pc' = "idle" /\ Shown = Listing /\ Shown' = Listing'
      /\ ret' = Result("delete", k, k \in DOMAIN map, NoValue)
  BY DEF Delete, Shown
<1>2. Store!Holds(k) <=> k \in DOMAIN map
  BY <1>1, HoldsListing
<1>3. CASE k \notin DOMAIN map
  <2>1. Shown' = Store!Without(k)
    BY <1>1, <1>2, <1>3 DEF Delete, Listing, Store!Without
  <2>2. Store!Holds(k) = FALSE /\ (k \in DOMAIN map) = FALSE
    BY <1>2, <1>3
  <2>3. ret' = Result("delete", k, FALSE, NoValue)
    BY <1>1, <2>2, Zenon
  <2>4. Store!Result("delete", k, Store!Holds(k), NoValue) = Result("delete", k, FALSE, NoValue)
    BY <2>2, Zenon DEF Store!Result, Result
  <2> QED
    BY <2>1, <2>3, <2>4 DEF Store!Delete
<1>4. CASE k \in DOMAIN map
  <2> DEFINE u == Without(k)
             o == Store!Without(k)
  <2>1. list' = u /\ map' = Forget(k)
    BY <1>4 DEF Delete
  <2>2. /\ o \in Seq(Bodies) /\ Len(list) \in Nat /\ Len(list) >= 1
        /\ Len(o) = Len(list) - 1 /\ Len(u) = Len(list) - 1
        /\ \A i \in 1..(Len(list) - 1) : o[i] = [key |-> u[i], val |-> map[u[i]].val]
    BY <1>1, <1>4, ListingWithout
  <2>3. u \in Seq(Keys) /\ ToSet(u) = DOMAIN map \ {k}
    BY <1>4, Moved
  <2> HIDE DEF u, o
  <2>4. DOMAIN u = 1..(Len(list) - 1) /\ DOMAIN o = 1..(Len(list) - 1)
    BY <2>2, <2>3
  <2>5. \A i \in DOMAIN u : Listing'[i] = o[i]
    <3> SUFFICES ASSUME NEW i \in DOMAIN u PROVE Listing'[i] = o[i]
      OBVIOUS
    <3>1. u[i] \in DOMAIN map /\ u[i] # k
      BY <2>3 DEF ToSet
    <3>2. Listing'[i] = [key |-> u[i], val |-> map'[u[i]].val]
      BY <2>1 DEF Listing
    <3>3. map'[u[i]] = map[u[i]]
      BY <2>1, <3>1 DEF Forget
    <3> QED
      BY <2>2, <2>4, <3>2, <3>3
  <2>6. Listing' = [i \in DOMAIN u |-> Listing'[i]]
    BY <2>1 DEF Listing
  <2>7. o = [i \in DOMAIN u |-> o[i]]
    BY <2>2, <2>4
  <2>8. Listing' = o
    BY <2>5, <2>6, <2>7
  <2> QED
    BY <1>1, <1>2, <1>4, <2>8 DEF Store!Delete, Store!Result, Result, o
<1> QED
  BY <1>3, <1>4

(* The put of a new key ends. *)
LEMMA InsertRefines ==
    ASSUME LInv, Limited, History, Insert
    PROVE  op.key \in Keys /\ op.val \in Values /\ Store!PutAbsent(op.key, op.val, MaxItemBytes)
<1> USE LimitsAssumption DEF LInv, LimitsAssumption
<1> DEFINE k == op.key
           v == op.val
           b == op.before
           e == [key |-> k, val |-> v]
<1>1. /\ pc = "evict" /\ pc' = "idle" /\ Shown = b /\ Shown' = Listing'
      /\ ret' = Result("put", k, TRUE, NoValue)
      /\ list' = <<k>> \o list /\ (~Full \/ list = <<>>)
      /\ map' = [x \in DOMAIN map \cup {k} |->
                   IF x = k THEN [val |-> v, size |-> Weight[v]] ELSE map[x]]
  BY DEF Insert, Done, Shown
<1>2. k \in Keys /\ v \in Values /\ Weight[v] <= MaxItemBytes /\ k \notin DOMAIN map
  BY <1>1 DEF Putting
<1>3. ~Store!Holds(k) /\ Others = b /\ Kept = Len(list) /\ Ahead = 0 /\ Len(list) \in Nat
  <2>1. ~Store!Holds(k)
    BY <1>1 DEF History
  <2>2. Others = b
    BY <1>1, <2>1 DEF Others, Store!Without
  <2> QED
    BY <1>1, <2>1, <2>2, ListingTyped DEF Kept, Ahead
<1>4. /\ Len(list) \in 0..Len(b) /\ b \in Seq(Bodies)
      /\ \A i \in 1..Len(list) : b[i] = Listing[i]
      /\ \A n \in 1..Len(b) : n > Len(list) => ~Store!Fits(SubSeq(b, 1, n), Weight[v])
  BY <1>1, <1>3 DEF History
<1>5. Len(list) # 0 => Store!Fits(SubSeq(b, 1, Len(list)), Weight[v])
  <2> SUFFICES ASSUME Len(list) # 0 PROVE Store!Fits(SubSeq(b, 1, Len(list)), Weight[v])
    OBVIOUS
  <2>1. ~Full
    BY <1>1
  <2>2. Cardinality(DOMAIN map) = Len(list)
    BY Sizable
  <2>3. /\ Store!Bytes(SubSeq(b, 1, Len(list))) = currentBytes
        /\ Len(SubSeq(b, 1, Len(list))) = Len(list)
    BY <1>1, <1>3, OthersWeigh
  <2>4. currentBytes \in Nat /\ Weight[v] \in Nat
    BY <1>2, CountersTyped
  <2> QED
    BY <1>3, <2>1, <2>2, <2>3, <2>4 DEF Full, Store!Fits
<1>6. Store!Retained(Shown, Weight[v]) = SubSeq(b, 1, Len(list))
  <2>1. Len(b) \in Nat
    BY <1>4
  <2> QED
    BY <1>1, <1>4, <1>5, <2>1, RetainedIs
<1> HIDE DEF k, v, b
<1> DEFINE o == SubSeq(b, 1, Len(list))
<1>7. o \in Seq(Bodies) /\ Len(o) = Len(list) /\ \A i \in 1..Len(list) : o[i] = Listing[i]
  BY <1>3, <1>4
<1> HIDE DEF o, e
<1>8. \A i \in 1..Len(list) : o[i] = [key |-> list[i], val |-> map'[list[i]].val]
  <2> SUFFICES ASSUME NEW i \in 1..Len(list)
               PROVE  o[i] = [key |-> list[i], val |-> map'[list[i]].val]
    OBVIOUS
  <2>1. Listing[i] = [key |-> list[i], val |-> map[list[i]].val] /\ list[i] \in DOMAIN map
    BY ListingTyped
  <2>2. map'[list[i]] = map[list[i]]
    BY <1>1, <1>2, <2>1
  <2> QED
    BY <1>7, <2>1, <2>2
<1>9. map'[k].val = v
  BY <1>1
<1>10. Listing' = <<e>> \o o
  <2>1. Listing' = [i \in DOMAIN (<<k>> \o list) |->
                      [key |-> (<<k>> \o list)[i], val |-> map'[(<<k>> \o list)[i]].val]]
    BY <1>1 DEF Listing
  <2>2. e = [key |-> k, val |-> map'[k].val]
    BY <1>9 DEF e
  <2>3. list \in Seq(Keys)
    BY DEF Linked
  <2> QED
    BY <1>3, <1>7, <1>8, <2>1, <2>2, <2>3
<1> QED
  BY <1>1, <1>2, <1>3, <1>6, <1>10 DEF Store!PutAbsent, Store!Result, Result, e, o, k, v

(* The put of a key that was present ends. *)
LEMMA UpdatedRefines ==
    ASSUME LInv, Limited, History, Updated
    PROVE  op.key \in Keys /\ op.val \in Values /\ Store!PutPresent(op.key, op.val, MaxItemBytes)
<1> USE LimitsAssumption DEF LInv, LimitsAssumption
<1> DEFINE k == op.key
           v == op.val
           e == [key |-> k, val |-> v]
           w == Others
           u == Tail(list)
           o == SubSeq(w, 1, Len(list) - 1)
<1>1. /\ pc = "bound" /\ pc' = "idle" /\ Shown' = Listing' /\ UNCHANGED <<list, map>>
      /\ ret' = Result("put", k, TRUE, NoValue)
      /\ (currentBytes <= MaxBytes \/ list = <<>>)
  BY DEF Updated, Done, Shown
<1>2. k \in Keys /\ v \in Values /\ Weight[v] <= MaxItemBytes
  BY <1>1 DEF Putting
<1>3. /\ Len(list) \in Nat /\ Store!Holds(k) /\ Ahead = 1 /\ Kept = Len(list) - 1
      /\ list[1] = k /\ map[k].val = v
  BY <1>1, ListingTyped DEF History, Kept, Ahead
<1>4. /\ Len(list) - 1 \in 0..Len(w) /\ w \in Seq(Bodies)
      /\ \A i \in 1..(Len(list) - 1) : w[i] = Listing[i + 1]
      /\ \A n \in 1..Len(w) : n > Len(list) - 1 => ~Store!Fits(SubSeq(w, 1, n), Weight[v])
  BY <1>1, <1>3 DEF History
<1>5. Len(list) - 1 # 0 => Store!Fits(SubSeq(w, 1, Len(list) - 1), Weight[v])
  <2>1. currentBytes <= MaxBytes
    BY <1>1, <1>3, <1>4
  <2>2. size = Len(list) /\ size <= MaxEntries /\ currentBytes \in Nat /\ Weight[v] \in Nat
    BY <1>2, CountersTyped DEF Limited
  <2>3. /\ Store!Bytes(SubSeq(w, 1, Len(list) - 1)) = currentBytes - Weight[v]
        /\ Len(SubSeq(w, 1, Len(list) - 1)) = Len(list) - 1
    BY <1>1, <1>3, OthersWeigh
  <2> QED
    BY <1>3, <2>1, <2>2, <2>3 DEF Store!Fits
<1>6. Store!Retained(w, Weight[v]) = o
  <2>1. Len(w) \in Nat
    BY <1>4
  <2> QED
    BY <1>4, <1>5, <2>1, RetainedIs
<1>7. w = Store!Without(k)
  BY DEF Others
<1> HIDE DEF k, v, w, e
<1>8. o \in Seq(Bodies) /\ Len(o) = Len(list) - 1 /\ \A i \in 1..(Len(list) - 1) : o[i] = w[i]
  BY <1>3, <1>4
<1>9. list \in Seq(Keys) /\ Len(list) >= 1
  BY <1>3, <1>4 DEF Linked
<1>10. u \in Seq(Keys) /\ Len(u) = Len(list) - 1 /\ \A i \in 1..(Len(list) - 1) : u[i] = list[i + 1]
  <2>1. Len(list) \in Nat
    BY <1>3
  <2> QED
    BY <1>9, <2>1
<1>11. list = <<k>> \o u
  BY <1>3, <1>9, <1>10
<1> HIDE DEF u, o
<1>12. \A i \in 1..(Len(list) - 1) : o[i] = [key |-> u[i], val |-> map[u[i]].val]
  <2> SUFFICES ASSUME NEW i \in 1..(Len(list) - 1)
               PROVE  o[i] = [key |-> u[i], val |-> map[u[i]].val]
    OBVIOUS
  <2>1. i + 1 \in 1..Len(list)
    BY <1>3
  <2>2. Listing[i + 1] = [key |-> list[i + 1], val |-> map[list[i + 1]].val]
    BY <2>1, ListingTyped
  <2> QED
    BY <1>4, <1>8, <1>10, <2>2
<1>13. Listing' = <<e>> \o o
  <2>1. Listing' = [i \in DOMAIN (<<k>> \o u) |->
                      [key |-> (<<k>> \o u)[i], val |-> map[(<<k>> \o u)[i]].val]]
    BY <1>1, <1>11 DEF Listing
  <2>2. e = [key |-> k, val |-> map[k].val]
    BY <1>3 DEF e
  <2>3. Len(list) - 1 \in Nat
    BY <1>3, <1>9
  <2> QED
    BY <1>8, <1>10, <1>12, <2>1, <2>2, <2>3
<1> QED
  BY <1>1, <1>2, <1>3, <1>6, <1>7, <1>13 DEF Store!PutPresent, Store!Result, Result, e, k, v

(* Every step of the cache is one of the store, or none. *)
LEMMA StepRefines ==
    ASSUME LInv, Limited, History, [Next]_vars
    PROVE  [Store!Next]_(Store!vars)
<1> USE DEF Store!Next, Store!vars
<1>1. ASSUME NEW k \in Keys, Get(k) PROVE Store!Next
  BY <1>1, GetRefines
<1>2. ASSUME NEW k \in Keys, Delete(k) PROVE Store!Next
  BY <1>2, DeleteRefines
<1>3. ASSUME NEW k \in Keys, NEW v \in Values, PutUpdate(k, v) \/ PutNew(k, v) PROVE Store!Next
  <2>1. Shown' = Shown /\ ret' = NoResult
    BY <1>3 DEF PutUpdate, PutNew, Begin, Shown
  <2>2. Store!Call
    BY <2>1 DEF Store!Call, Store!NoResult, Store!Result, NoResult, Result
  <2> QED
    BY <2>2
<1>4. ASSUME NEW v \in Values, PutRefused(v) PROVE Store!Next
  <2>1. Shown' = Shown
    BY <1>4 DEF PutRefused, Shown, Listing
  <2>2. Store!PutRefused(v, MaxItemBytes)
    BY <1>4, <2>1 DEF PutRefused, Store!PutRefused, Store!Result, Result
  <2> QED
    BY <2>2
<1>5. CASE EvictLRU \/ Bound
  BY <1>5 DEF EvictLRU, Bound, Shown
<1>6. CASE Insert
  BY <1>6, InsertRefines
<1>7. CASE Updated
  BY <1>7, UpdatedRefines
<1>8. CASE Clear
  <2>1. Shown' = <<>>
    BY <1>8 DEF Clear, Shown, Listing
  <2>2. Store!Clear
    BY <1>8, <2>1 DEF Clear, Store!Clear, Store!Result, Result
  <2> QED
    BY <2>2
<1>9. CASE UNCHANGED vars
  BY <1>9 DEF vars, Shown, Listing
<1> QED
  BY <1>1, <1>2, <1>3, <1>4, <1>5, <1>6, <1>7, <1>8, <1>9 DEF Next

(* The cache is the bounded map in recency order: each operation does to the
   entries, and returns, what the store's does, and a put drops as few of the
   least recently used entries as possible. *)
THEOREM StoreCorrect == ASSUME BudgetHoldsOne PROVE Spec => ImplementsLRUStore
<1>1. Init => History /\ Store!Init
  BY DEF Init, History, Store!Init, Shown, Listing, Store!NoResult, Store!Result, NoResult, Result
<1>2. LInv /\ Limited /\ History /\ [Next]_vars => History'
  BY StepHistory
<1>3. LInv /\ Limited /\ History /\ [Next]_vars => [Store!Next]_(Store!vars)
  BY StepRefines
<1>4. Spec => []LInv /\ []Limited
  BY LInvCorrect, LimitedCorrect, PTL
<1> QED
  BY <1>1, <1>2, <1>3, <1>4, PTL DEF Spec, ImplementsLRUStore, Store!Spec
=============================================================================
