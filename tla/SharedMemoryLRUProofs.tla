----------------------- MODULE SharedMemoryLRUProofs -----------------------
(***************************************************************************)
(* SharedMemoryLRU, for every capacity, set of keys, weights, hash, budget *)
(* and arena, in three layers, each an inductive invariant:                *)
(*   IInv     the two lists are sound (Chains .. FreshSlotCorrect);        *)
(*   DataInv  every entry lies whole in an extent of its own and the byte  *)
(*            account is the sum of them, whatever a compaction has moved  *)
(*            so far (Ahead .. EntriesCorrect);                            *)
(*   BInv     the account, with the entry a put makes room for, is within  *)
(*            the budget (Within .. BudgetCorrect).                        *)
(* The action properties about refusals and evictions follow from them.    *)
(* The lock that makes each operation a critical section comes last.       *)
(*                                                                         *)
(* Lists are described by a rank, the position of each slot; every update  *)
(* of the links is met by an explicit new rank, so that no induction over  *)
(* the length of a list is needed.  What is stored where is described by   *)
(* the key and the value of each slot, which the code keeps nowhere but in *)
(* the arena itself.                                                       *)
(***************************************************************************)
EXTENDS SharedMemoryLRU, SharedMutex, CollectionLemmas

-----------------------------------------------------------------------------
(* Chains. *)

(* A chain that starts nowhere has no members, one that starts somewhere
   starts at a member. *)
LEMMA ChainFirst ==
    ASSUME NEW S, NEW first, NEW link, NEW n \in Nat, Nil \notin S,
           Chain(S, first, link, n)
    PROVE  /\ n = 0 <=> first = Nil
           /\ n = 0 => S = {}
           /\ n # 0 => first \in S
           /\ \A s \in S : link[s] \in S \cup {Nil}
<1>1. PICK rank \in [S -> 1..n] : IsChain(rank, S, first, link, n)
  BY DEF Chain
<1> QED
  BY <1>1 DEF IsChain

(* x put before the first member. *)
LEMMA ChainPush ==
    ASSUME NEW S, NEW first, NEW link, NEW n \in Nat, Chain(S, first, link, n),
           NEW x, x \notin S, Nil \notin S,
           NEW link2, link2[x] = first, \A s \in S : link2[s] = link[s]
    PROVE  Chain(S \cup {x}, x, link2, n + 1)
<1>1. PICK rank \in [S -> 1..n] : IsChain(rank, S, first, link, n)
  BY DEF Chain
<1> DEFINE rank2 == [s \in S \cup {x} |-> IF s = x THEN 1 ELSE rank[s] + 1]
<1>2. rank2 \in [S \cup {x} -> 1..(n + 1)]
  OBVIOUS
<1>3. \A i \in 1..(n + 1) : \E s \in S \cup {x} : rank2[s] = i
  <2> SUFFICES ASSUME NEW i \in 1..(n + 1) PROVE \E s \in S \cup {x} : rank2[s] = i
    OBVIOUS
  <2>1. CASE i = 1
    BY <2>1
  <2>2. CASE i # 1
    <3>1. i - 1 \in 1..n
      BY <2>2
    <3>2. PICK s \in S : rank[s] = i - 1
      BY <1>1, <3>1 DEF IsChain
    <3>3. rank2[s] = (i - 1) + 1
      BY <3>2
    <3>4. rank2[s] = i
      BY <3>3
    <3> QED
      BY <3>4
  <2> QED
    BY <2>1, <2>2
<1>4. \A s, t \in S \cup {x} : rank2[s] = rank2[t] => s = t
  BY <1>1 DEF IsChain
<1>5. \A s \in S \cup {x} : IF rank2[s] = n + 1 THEN link2[s] = Nil
                            ELSE link2[s] \in S \cup {x} /\ rank2[link2[s]] = rank2[s] + 1
  BY <1>1 DEF IsChain
<1>6. n + 1 # 0 /\ rank2[x] = 1
  OBVIOUS
<1> HIDE DEF rank2
<1>7. IsChain(rank2, S \cup {x}, x, link2, n + 1)
  BY <1>2, <1>3, <1>4, <1>5, <1>6 DEF IsChain
<1> QED
  BY <1>2, <1>7 DEF Chain

(* x taken out, wherever it is, with the member before it linked past it. *)
LEMMA ChainRemove ==
    ASSUME NEW S, NEW first, NEW link, NEW n \in Nat, Chain(S, first, link, n),
           NEW x \in S, Nil \notin S,
           NEW link2, \A s \in S \ {x} : link2[s] = IF link[s] = x THEN link[x] ELSE link[s]
    PROVE  /\ n > 0
           /\ Chain(S \ {x}, IF first = x THEN link[x] ELSE first, link2, n - 1)
<1>1. PICK rank \in [S -> 1..n] : IsChain(rank, S, first, link, n)
  BY DEF Chain
<1>2. n > 0 /\ n - 1 \in Nat
  OBVIOUS
<1> DEFINE rank2 == [s \in S \ {x} |-> IF rank[s] > rank[x] THEN rank[s] - 1 ELSE rank[s]]
           first2 == IF first = x THEN link[x] ELSE first
<1>3. \A s \in S \ {x} : rank[s] # rank[x]
  BY <1>1 DEF IsChain
<1>4. rank2 \in [S \ {x} -> 1..(n - 1)]
  BY <1>3
<1>5. \A i \in 1..(n - 1) : \E s \in S \ {x} : rank2[s] = i
  <2> SUFFICES ASSUME NEW i \in 1..(n - 1) PROVE \E s \in S \ {x} : rank2[s] = i
    OBVIOUS
  <2>1. CASE i < rank[x]
    <3>1. PICK s \in S : rank[s] = i
      BY <1>1, <1>2 DEF IsChain
    <3> QED
      BY <2>1, <3>1
  <2>2. CASE i >= rank[x]
    <3>1. i + 1 \in 1..n
      OBVIOUS
    <3>2. PICK s \in S : rank[s] = i + 1
      BY <1>1, <3>1 DEF IsChain
    <3> QED
      BY <2>2, <3>2
  <2> QED
    BY <2>1, <2>2
<1>6. \A s, t \in S \ {x} : rank2[s] = rank2[t] => s = t
  BY <1>1, <1>3 DEF IsChain
<1>7. IF n - 1 = 0 THEN first2 = Nil ELSE first2 \in S \ {x} /\ rank2[first2] = 1
  BY <1>1, <1>3 DEF IsChain
<1>8. \A s \in S \ {x} : IF rank2[s] = n - 1 THEN link2[s] = Nil
                         ELSE link2[s] \in S \ {x} /\ rank2[link2[s]] = rank2[s] + 1
  <2> SUFFICES ASSUME NEW s \in S \ {x}
               PROVE  IF rank2[s] = n - 1 THEN link2[s] = Nil
                      ELSE link2[s] \in S \ {x} /\ rank2[link2[s]] = rank2[s] + 1
    OBVIOUS
  <2>1. CASE link[s] = x
    BY <2>1, <1>1, <1>3 DEF IsChain
  <2>2. CASE link[s] # x
    BY <2>2, <1>1, <1>3 DEF IsChain
  <2> QED
    BY <2>1, <2>2
<1>9. IsChain(rank2, S \ {x}, first2, link2, n - 1)
  BY <1>4, <1>5, <1>6, <1>7, <1>8 DEF IsChain
<1> QED
  BY <1>2, <1>4, <1>9 DEF Chain

(* The first member taken off. *)
LEMMA ChainPop ==
    ASSUME NEW S, NEW first, NEW link, NEW n \in Nat, Nil \notin S,
           Chain(S, first, link, n), first # Nil
    PROVE  first \in S /\ n > 0 /\ Chain(S \ {first}, link[first], link, n - 1)
<1>1. first \in S
  BY ChainFirst
<1>2. \A s \in S : link[s] # first
  BY DEF Chain, IsChain
<1>3. /\ n > 0
      /\ Chain(S \ {first}, IF first = first THEN link[first] ELSE first, link, n - 1)
  BY <1>1, <1>2, ChainRemove
<1> QED
  BY <1>1, <1>3

-----------------------------------------------------------------------------
(* Doubly linked lists. *)

(* The back link of a member leads to the member before it, and only the
   last member leads to Nil. *)
LEMMA ListNeighbours ==
    ASSUME NEW S, NEW first, NEW last, NEW fwd, NEW back, NEW n \in Nat, Nil \notin S,
           LinkedList(S, first, last, fwd, back, n), NEW x \in S
    PROVE  /\ x = first <=> back[x] = Nil
           /\ x # first => back[x] \in S /\ fwd[back[x]] = x
           /\ back[x] # x /\ fwd[x] # x
           /\ \A s \in S : fwd[s] = x <=> s = back[x]
           /\ x = last <=> fwd[x] = Nil
           /\ fwd[x] \in S \cup {Nil}
           /\ first \in S /\ last \in S
<1>1. PICK rank \in [S -> 1..n] : IsChain(rank, S, first, fwd, n)
  BY DEF LinkedList, Chain
<1>2. first \in S /\ rank[first] = 1
  BY <1>1 DEF IsChain
<1>3. \A s \in S : fwd[s] = x => s = back[x]
  BY DEF LinkedList
<1>4. x # first => back[x] \in S /\ fwd[back[x]] = x
  <2> SUFFICES ASSUME x # first PROVE back[x] \in S /\ fwd[back[x]] = x
    OBVIOUS
  <2>1. rank[x] - 1 \in 1..n
    BY <1>1, <1>2 DEF IsChain
  <2>2. PICK s \in S : rank[s] = rank[x] - 1
    BY <1>1, <2>1 DEF IsChain
  <2>3. fwd[s] = x
    BY <1>1, <2>2 DEF IsChain
  <2> QED
    BY <1>3, <2>3
<1>5. fwd[x] # x /\ fwd[x] \in S \cup {Nil}
  BY <1>1 DEF IsChain
<1>6. first = x => back[x] = Nil
  BY <1>2 DEF LinkedList
<1>7. last \in S /\ fwd[last] = Nil
  BY <1>2 DEF LinkedList
<1>8. fwd[x] = Nil => x = last
  BY <1>1, <1>7 DEF IsChain
<1>9. back[x] \in S \cup {Nil}
  BY <1>4, <1>6
<1>10. \A s \in S : s = back[x] => fwd[s] = x
  BY <1>4, <1>6
<1> QED
  BY <1>2, <1>3, <1>4, <1>5, <1>6, <1>7, <1>8, <1>10

(* Any member unlinked. *)
LEMMA ListRemove ==
    ASSUME NEW S, NEW first, NEW last, NEW fwd, NEW back, NEW n \in Nat, Nil \notin S,
           LinkedList(S, first, last, fwd, back, n), NEW x \in S,
           NEW fwd2, \A s \in S \ {x} : fwd2[s] = IF s = back[x] THEN fwd[x] ELSE fwd[s],
           NEW back2, \A s \in S \ {x} : back2[s] = IF s = fwd[x] THEN back[x] ELSE back[s],
           NEW first2, back[x] = Nil => first2 = fwd[x], back[x] # Nil => first2 = first,
           NEW last2, fwd[x] = Nil => last2 = back[x], fwd[x] # Nil => last2 = last
    PROVE  n > 0 /\ LinkedList(S \ {x}, first2, last2, fwd2, back2, n - 1)
<1>1. Chain(S, first, fwd, n)
  BY DEF LinkedList
<1>2. /\ x = first <=> back[x] = Nil
      /\ x # first => back[x] \in S /\ fwd[back[x]] = x
      /\ back[x] # x /\ fwd[x] # x
      /\ \A s \in S : fwd[s] = x <=> s = back[x]
      /\ x = last <=> fwd[x] = Nil
      /\ fwd[x] \in S \cup {Nil}
      /\ first \in S /\ last \in S
  BY ListNeighbours
<1>3. \A s \in S \ {x} : fwd2[s] = IF fwd[s] = x THEN fwd[x] ELSE fwd[s]
  BY <1>2
<1>4. n > 0 /\ Chain(S \ {x}, IF first = x THEN fwd[x] ELSE first, fwd2, n - 1)
  BY <1>1, <1>3, ChainRemove
<1>5. first2 = IF first = x THEN fwd[x] ELSE first
  BY <1>2
<1>6. \A s \in S : fwd[s] # Nil => back[fwd[s]] = s
  BY DEF LinkedList
<1>7. first2 # Nil => back2[first2] = Nil
  <2>1. CASE first = x
    BY <2>1, <1>2, <1>6
  <2>2. CASE first # x
    <3>1. back[first] = Nil /\ first2 = first /\ first \in S \ {x}
      BY <2>2, <1>2 DEF LinkedList
    <3>2. first # fwd[x]
      BY <1>2, <1>6, <3>1
    <3> QED
      BY <3>1, <3>2
  <2> QED
    BY <2>1, <2>2
<1>8. first2 = Nil <=> last2 = Nil
  BY <1>2
<1>9. last2 # Nil => last2 \in S \ {x} /\ fwd2[last2] = Nil
  BY <1>2 DEF LinkedList
<1>10. ASSUME NEW s \in S \ {x}, fwd2[s] # Nil PROVE back2[fwd2[s]] = s
  <2>1. CASE s = back[x]
    <3>1. fwd2[s] = fwd[x] /\ fwd[x] \in S \ {x}
      BY <2>1, <1>2, <1>10
    <3> QED
      BY <2>1, <3>1
  <2>2. CASE s # back[x]
    <3>1. fwd2[s] = fwd[s] /\ back[fwd[s]] = s
      BY <2>2, <1>6, <1>10
    <3>2. fwd[s] \in S \cup {Nil}
      BY ListNeighbours
    <3>3. fwd[s] \in S \ {x} /\ fwd[s] # fwd[x]
      BY <2>2, <3>1, <3>2, <1>2, <1>6, <1>10
    <3> QED
      BY <3>1, <3>3
  <2> QED
    BY <2>1, <2>2
<1> QED
  BY <1>4, <1>5, <1>7, <1>8, <1>9, <1>10 DEF LinkedList

(* A new member linked before the first. *)
LEMMA ListPush ==
    ASSUME NEW S, NEW first, NEW last, NEW fwd, NEW back, NEW n \in Nat, Nil \notin S,
           LinkedList(S, first, last, fwd, back, n), NEW x, x \notin S, x # Nil,
           NEW fwd2, fwd2[x] = first, \A s \in S : fwd2[s] = fwd[s],
           NEW back2, back2[x] = Nil,
           \A s \in S : back2[s] = IF s = first THEN x ELSE back[s]
    PROVE  LinkedList(S \cup {x}, x, IF last = Nil THEN x ELSE last, fwd2, back2, n + 1)
<1>1. Chain(S, first, fwd, n)
  BY DEF LinkedList
<1>2. Chain(S \cup {x}, x, fwd2, n + 1)
  BY <1>1, ChainPush
<1>3. first \in S \cup {Nil} /\ (\A s \in S : fwd[s] \in S \cup {Nil})
  BY <1>1, ChainFirst
<1>4. \A s \in S : fwd[s] # first \/ fwd[s] = Nil
  BY <1>3 DEF LinkedList
<1>5. \A s \in S \cup {x} : fwd2[s] # Nil => back2[fwd2[s]] = s
  BY <1>3, <1>4 DEF LinkedList
<1>6. LET l == IF last = Nil THEN x ELSE last
      IN  l # Nil /\ l \in S \cup {x} /\ fwd2[l] = Nil
  BY DEF LinkedList
<1> QED
  BY <1>2, <1>5, <1>6 DEF LinkedList

-----------------------------------------------------------------------------
(* The updates of the cache, on a sound structure. *)

(* The part of the invariant about the linked structure alone. *)
Sound == LinksTypeOK /\ RecencySound /\ FreeSound

(* -1 names no slot. *)
LEMMA NilNoSlot == Nil \notin Slots /\ Nil \notin active \cap Slots
BY DEF Nil, Slots

(* A hit or a put of a present key permutes the recency list. *)
LEMMA MoveToHeadSound ==
    ASSUME Sound, NEW x \in active, MoveToHead(x)
    PROVE  /\ LinkedList(active, head', tail', next', prev', size)
           /\ head' \in Ptr /\ tail' \in Ptr
           /\ next' \in [Slots -> Ptr] /\ prev' \in [Slots -> Ptr]
<1> USE DEF Sound, LinksTypeOK
<1>1. Nil \notin active /\ x \in Slots /\ size \in Nat
  BY NilNoSlot
<1>2. LinkedList(active, head, tail, next, prev, size)
  BY DEF RecencySound
<1>3. CASE head = x
  BY <1>2, <1>3 DEF MoveToHead
<1>4. CASE head # x
  <2> DEFINE p == prev[x]
             n == next[x]
             rest == IF tail = x THEN p ELSE tail
             nextA == [s \in Slots |-> IF s = p THEN n ELSE next[s]]
             prevA == [s \in Slots |-> IF s = n THEN p ELSE prev[s]]
  <2>1. /\ x = head <=> prev[x] = Nil
        /\ x # head => prev[x] \in active /\ next[prev[x]] = x
        /\ prev[x] # x /\ next[x] # x
        /\ \A s \in active : next[s] = x <=> s = prev[x]
        /\ x = tail <=> next[x] = Nil
        /\ next[x] \in active \cup {Nil}
        /\ head \in active /\ tail \in active
    BY <1>1, <1>2, ListNeighbours
  <2>2. /\ \A s \in active \ {x} : nextA[s] = IF s = prev[x] THEN next[x] ELSE next[s]
        /\ \A s \in active \ {x} : prevA[s] = IF s = next[x] THEN prev[x] ELSE prev[s]
    OBVIOUS
  <2> HIDE DEF nextA, prevA
  <2>3. /\ size > 0
        /\ LinkedList(active \ {x}, IF prev[x] = Nil THEN next[x] ELSE head,
                      IF next[x] = Nil THEN prev[x] ELSE tail, nextA, prevA, size - 1)
    BY <1>1, <1>2, <2>2, ListRemove
  <2>4. LinkedList(active \ {x}, head, rest, nextA, prevA, size - 1)
    <3>1. (IF prev[x] = Nil THEN next[x] ELSE head) = head
      BY <1>4, <2>1
    <3>2. (IF next[x] = Nil THEN prev[x] ELSE tail) = rest
      BY <2>1
    <3> HIDE DEF rest
    <3> QED
      BY <2>3, <3>1, <3>2
  <2>5. /\ next'[x] = head
        /\ \A s \in active \ {x} : next'[s] = nextA[s]
        /\ prev'[x] = Nil
        /\ \A s \in active \ {x} : prev'[s] = IF s = head THEN x ELSE prevA[s]
    BY <1>1, <1>4, <2>1 DEF MoveToHead, nextA, prevA
  <2>6. head' = x /\ tail' = IF rest = Nil THEN x ELSE rest
    BY <1>4 DEF MoveToHead
  <2>7. size - 1 \in Nat /\ Nil \notin active \ {x} /\ x # Nil
    BY <1>1, <2>3
  <2> HIDE DEF rest
  <2>8. LinkedList((active \ {x}) \cup {x}, x, IF rest = Nil THEN x ELSE rest,
                   next', prev', (size - 1) + 1)
    <3> DEFINE A == active \ {x}
               m == size - 1
    <3>1. x \notin A /\ x # Nil /\ Nil \notin A /\ m \in Nat
      BY <2>7
    <3>2. LinkedList(A, head, rest, nextA, prevA, m)
      BY <2>4
    <3>3. \A s \in A : next'[s] = nextA[s]
      BY <2>5
    <3>4. \A s \in A : prev'[s] = IF s = head THEN x ELSE prevA[s]
      BY <2>5
    <3> HIDE DEF A, m, Sound, LinksTypeOK
    <3>5. LinkedList(A \cup {x}, x, IF rest = Nil THEN x ELSE rest, next', prev', m + 1)
      BY <2>5, <3>1, <3>2, <3>3, <3>4, ListPush
    <3> QED
      BY <3>5 DEF A, m
  <2>9. (active \ {x}) \cup {x} = active /\ (size - 1) + 1 = size
    BY <1>1
  <2>10. /\ head' \in Ptr /\ tail' \in Ptr
         /\ next' \in [Slots -> Ptr] /\ prev' \in [Slots -> Ptr]
    BY <1>1, <1>4, <2>1 DEF MoveToHead, Ptr
  <2> QED
    BY <2>6, <2>8, <2>9, <2>10
<1> QED
  BY <1>3, <1>4

(* Freeing a slot: the free list grows at its front by what the recency list
   loses. *)
LEMMA FreeGrows ==
    ASSUME Sound, NEW x \in active, size > 0,
           active' = active \ {x}, size' = size - 1,
           freeHead' = x, freeNext' = [freeNext EXCEPT ![x] = freeHead]
    PROVE  FreeSound' /\ freeHead' \in Ptr /\ freeNext' \in [Slots -> Ptr]
<1> USE DEF Sound, LinksTypeOK
<1>1. Nil \notin Slots \ active /\ x \in Slots /\ x \notin Slots \ active
  BY NilNoSlot
<1>2. Capacity - size \in Nat /\ size \in Nat /\ Capacity \in Nat
  BY CapacityAssumption DEF CapacityAssumption
<1>3. freeNext'[x] = freeHead /\ \A s \in Slots \ active : freeNext'[s] = freeNext[s]
  BY <1>1
<1>4. Chain((Slots \ active) \cup {x}, x, freeNext', (Capacity - size) + 1)
  BY <1>1, <1>2, <1>3, ChainPush DEF FreeSound
<1>5. (Slots \ active) \cup {x} = Slots \ active' /\ (Capacity - size) + 1 = Capacity - size'
  BY <1>1, <1>2
<1> QED
  BY <1>1, <1>4, <1>5 DEF FreeSound, Ptr

(* An eviction. *)
LEMMA EvictTailSound ==
    ASSUME Sound, tail # Nil, EvictTail, UNCHANGED <<off, len, hash, allocPtr, newPtr>>
    PROVE  /\ RecencySound' /\ FreeSound'
           /\ head' \in Ptr /\ tail' \in Ptr /\ freeHead' \in Ptr
           /\ size' = size - 1 /\ size' \in 0..Capacity /\ totalBytes' \in Nat
           /\ active' \subseteq Slots
           /\ next' \in [Slots -> Ptr] /\ prev' \in [Slots -> Ptr]
           /\ freeNext' \in [Slots -> Ptr]
           /\ head' \in active' \cup {Nil}
<1> USE DEF Sound, LinksTypeOK
<1>1. Nil \notin active /\ size \in Nat /\ Capacity \in Nat
  BY NilNoSlot, CapacityAssumption DEF CapacityAssumption
<1>2. LinkedList(active, head, tail, next, prev, size)
  BY DEF RecencySound
<1>3. tail \in active /\ next[tail] = Nil /\ tail \in Slots
  BY <1>2 DEF LinkedList
<1>4. /\ tail = head <=> prev[tail] = Nil
      /\ tail # head => prev[tail] \in active /\ next[prev[tail]] = tail
      /\ prev[tail] # tail
      /\ head \in active
  BY <1>1, <1>2, <1>3, ListNeighbours
<1>5. /\ \A s \in active \ {tail} :
           next'[s] = IF s = prev[tail] THEN next[tail] ELSE next[s]
      /\ \A s \in active \ {tail} :
           prev'[s] = IF s = next[tail] THEN prev[tail] ELSE prev[s]
  BY <1>1, <1>3 DEF EvictTail
<1>6. /\ size > 0
      /\ LinkedList(active \ {tail}, IF prev[tail] = Nil THEN next[tail] ELSE head,
                    IF next[tail] = Nil THEN prev[tail] ELSE tail, next', prev', size - 1)
  BY <1>1, <1>2, <1>3, <1>5, ListRemove
<1>7. /\ head' = IF prev[tail] = Nil THEN next[tail] ELSE head
      /\ tail' = IF next[tail] = Nil THEN prev[tail] ELSE tail
      /\ active' = active \ {tail} /\ size' = size - 1
  BY <1>1, <1>3, <1>6 DEF EvictTail, Floor0
<1>8. RecencySound'
  BY <1>6, <1>7 DEF RecencySound
<1>9. FreeSound' /\ freeHead' \in Ptr /\ freeNext' \in [Slots -> Ptr]
  BY <1>3, <1>6, <1>7, FreeGrows DEF EvictTail
<1>10. totalBytes' \in Nat
  BY <1>3 DEF EvictTail, Floor0
<1>11. next' \in [Slots -> Ptr] /\ prev' \in [Slots -> Ptr] /\ tail' \in Ptr /\ head' \in Ptr
  BY <1>1, <1>3 DEF EvictTail, Ptr
<1>12. head' \in active' \cup {Nil}
  BY <1>3, <1>4, <1>7
<1> QED
  BY <1>1, <1>6, <1>7, <1>8, <1>9, <1>10, <1>11, <1>12

(* A delete. *)
LEMMA UnlinkSound ==
    ASSUME Sound, NEW x \in active, Unlink(x)
    PROVE  /\ RecencySound' /\ FreeSound'
           /\ head' \in Ptr /\ tail' \in Ptr /\ freeHead' \in Ptr
           /\ size' \in 0..Capacity /\ totalBytes' \in Nat
           /\ active' \subseteq Slots
           /\ next' \in [Slots -> Ptr] /\ prev' \in [Slots -> Ptr]
           /\ freeNext' \in [Slots -> Ptr]
<1> USE DEF Sound, LinksTypeOK
<1>1. Nil \notin active /\ size \in Nat /\ Capacity \in Nat /\ x \in Slots
  BY NilNoSlot, CapacityAssumption DEF CapacityAssumption
<1>2. LinkedList(active, head, tail, next, prev, size)
  BY DEF RecencySound
<1>3. /\ \A s \in active \ {x} : next'[s] = IF s = prev[x] THEN next[x] ELSE next[s]
      /\ \A s \in active \ {x} : prev'[s] = IF s = next[x] THEN prev[x] ELSE prev[s]
  BY <1>1 DEF Unlink
<1>4. /\ size > 0
      /\ LinkedList(active \ {x}, IF prev[x] = Nil THEN next[x] ELSE head,
                    IF next[x] = Nil THEN prev[x] ELSE tail, next', prev', size - 1)
  <2> DEFINE fwd2 == next'
             back2 == prev'
             first2 == IF prev[x] = Nil THEN next[x] ELSE head
             last2 == IF next[x] = Nil THEN prev[x] ELSE tail
  <2>1. /\ Nil \notin active /\ size \in Nat /\ x \in active
        /\ \A s \in active \ {x} : fwd2[s] = IF s = prev[x] THEN next[x] ELSE next[s]
        /\ \A s \in active \ {x} : back2[s] = IF s = next[x] THEN prev[x] ELSE prev[s]
        /\ prev[x] = Nil => first2 = next[x]
        /\ prev[x] # Nil => first2 = head
        /\ next[x] = Nil => last2 = prev[x]
        /\ next[x] # Nil => last2 = tail
    BY <1>1, <1>3
  <2> HIDE DEF Sound, LinksTypeOK, fwd2, back2, first2, last2
  <2>2. size > 0 /\ LinkedList(active \ {x}, first2, last2, fwd2, back2, size - 1)
    BY <1>2, <2>1, ListRemove
  <2> QED
    BY <2>2 DEF fwd2, back2, first2, last2
<1>5. /\ head' = IF prev[x] = Nil THEN next[x] ELSE head
      /\ tail' = IF next[x] = Nil THEN prev[x] ELSE tail
      /\ active' = active \ {x} /\ size' = size - 1
  BY <1>1, <1>4 DEF Unlink, Floor0
<1>6. RecencySound'
  BY <1>4, <1>5 DEF RecencySound
<1>7. FreeSound' /\ freeHead' \in Ptr /\ freeNext' \in [Slots -> Ptr]
  BY <1>4, <1>5, FreeGrows DEF Unlink
<1>8. totalBytes' \in Nat
  BY <1>1 DEF Unlink, Floor0
<1>9. next' \in [Slots -> Ptr] /\ prev' \in [Slots -> Ptr] /\ tail' \in Ptr /\ head' \in Ptr
  BY <1>1 DEF Unlink
<1> QED
  BY <1>1, <1>4, <1>5, <1>6, <1>7, <1>8, <1>9

(* An insertion: the slot comes off the free list, which is not empty when
   fewer than Capacity entries are stored. *)
LEMMA LinkFreshSound ==
    ASSUME Sound, size < Capacity, NEW w \in Nat, LinkFresh(freeHead, w)
    PROVE  /\ RecencySound' /\ FreeSound'
           /\ head' \in Ptr /\ tail' \in Ptr /\ freeHead' \in Ptr
           /\ size' \in 0..Capacity /\ totalBytes' \in Nat
           /\ active' \subseteq Slots
           /\ next' \in [Slots -> Ptr] /\ prev' \in [Slots -> Ptr]
           /\ freeNext' \in [Slots -> Ptr]
<1> USE DEF Sound, LinksTypeOK
<1>1. Nil \notin active /\ Nil \notin Slots \ active /\ size \in Nat /\ Capacity \in Nat
  BY NilNoSlot, CapacityAssumption DEF CapacityAssumption
<1>2. Capacity - size \in Nat /\ Capacity - size # 0
  BY <1>1
<1>3. freeHead # Nil
  BY <1>1, <1>2, ChainFirst DEF FreeSound
<1>4. /\ freeHead \in Slots \ active
      /\ Chain((Slots \ active) \ {freeHead}, freeNext[freeHead], freeNext, (Capacity - size) - 1)
  BY <1>1, <1>2, <1>3, ChainPop DEF FreeSound
<1>5. /\ active' = active \cup {freeHead} /\ size' = size + 1
      /\ freeHead' = freeNext[freeHead] /\ freeNext' = freeNext
      /\ head' = freeHead /\ tail' = IF tail = Nil THEN freeHead ELSE tail
  BY DEF LinkFresh
<1>6. FreeSound'
  <2>1. (Slots \ active) \ {freeHead} = Slots \ active' /\ (Capacity - size) - 1 = Capacity - size'
    BY <1>1, <1>5
  <2> QED
    BY <1>4, <1>5, <2>1 DEF FreeSound
<1>7. /\ next'[freeHead] = head /\ prev'[freeHead] = Nil
      /\ \A s \in active : next'[s] = next[s]
      /\ \A s \in active : prev'[s] = IF s = head THEN freeHead ELSE prev[s]
  <2>1. head \in active \cup {Nil}
    BY <1>1, ChainFirst DEF RecencySound, LinkedList
  <2> QED
    BY <1>1, <1>4, <2>1 DEF LinkFresh
<1>8. LinkedList(active, head, tail, next, prev, size)
  BY DEF RecencySound
<1>9. LinkedList(active \cup {freeHead}, freeHead, IF tail = Nil THEN freeHead ELSE tail,
                 next', prev', size + 1)
  <2> DEFINE f == freeHead
  <2>1. f \notin active /\ f # Nil
    BY <1>3, <1>4
  <2>2. next'[f] = head /\ prev'[f] = Nil /\ \A s \in active : prev'[s] = IF s = head THEN f ELSE prev[s]
    BY <1>7
  <2> HIDE DEF f, Sound, LinksTypeOK
  <2>3. LinkedList(active \cup {f}, f, IF tail = Nil THEN f ELSE tail, next', prev', size + 1)
    BY <1>1, <1>7, <1>8, <2>1, <2>2, ListPush
  <2> QED
    BY <2>3 DEF f
<1>10. RecencySound'
  BY <1>5, <1>9 DEF RecencySound
<1>11. /\ freeHead' \in Ptr /\ head' \in Ptr /\ tail' \in Ptr
       /\ next' \in [Slots -> Ptr] /\ prev' \in [Slots -> Ptr] /\ totalBytes' \in Nat
  BY <1>1, <1>4, <1>5 DEF LinkFresh, Ptr
<1> QED
  BY <1>1, <1>4, <1>5, <1>6, <1>10, <1>11

-----------------------------------------------------------------------------
(* The inductive invariant. *)

(* What the running operation has established: it works for a call that was
   made, its cursor is on the recency list, and once a put compacts, the
   number of entries is below the capacity. *)
OpSound ==
    /\ pc = "search" => /\ op.kind \in {"get", "put", "delete"} /\ op.key \in Keys
                        /\ op.kind = "put" => op.val \in Values
    /\ pc \in {"evict", "compact", "fit"} => op.key \in Keys /\ op.val \in Values
    /\ pc \in {"search", "compact"} => cur \in active \cup {Nil}
    /\ pc \in {"compact", "fit"} => size < Capacity

(* The inductive invariant of the lists. *)
IInv == Sound /\ OpSound

(* What is reached along the recency list is active, and an empty one is
   counted as empty. *)
LEMMA HeadActive ==
    ASSUME Sound
    PROVE  /\ head \in active \cup {Nil}
           /\ \A s \in active : next[s] \in active \cup {Nil}
           /\ tail = Nil => size = 0
<1>1. Nil \notin active /\ size \in Nat
  BY NilNoSlot, CapacityAssumption DEF CapacityAssumption, Sound, LinksTypeOK
<1>2. Chain(active, head, next, size) /\ (head = Nil <=> tail = Nil)
  BY DEF Sound, RecencySound, LinkedList
<1> QED
  BY <1>1, <1>2, ChainFirst

(* Steps that leave the lists alone. *)
LEMMA ListsUnchanged ==
    ASSUME Sound, UNCHANGED lists
    PROVE  RecencySound' /\ FreeSound'
BY DEF Sound, lists, RecencySound, LinkedList, FreeSound

(* The fresh structure of the constructor and of clear. *)
LEMMA FreshSound ==
    ASSUME head' = Nil, tail' = Nil, freeHead' = 0, size' = 0, active' = {},
           next' = [s \in Slots |-> Nil], prev' = [s \in Slots |-> Nil],
           freeNext' = FreshFreeNext
    PROVE  RecencySound' /\ FreeSound'
<1>1. Capacity \in Nat /\ Capacity > 0
  BY CapacityAssumption DEF CapacityAssumption
<1>2. IsChain([s \in {} |-> 1], {}, Nil, next', 0)
  BY DEF IsChain
<1>3. [s \in {} |-> 1] \in [{} -> 1..0]
  OBVIOUS
<1>4. RecencySound'
  BY <1>2, <1>3 DEF RecencySound, LinkedList, Chain
<1> DEFINE rank == [s \in Slots |-> s + 1]
<1>5. rank \in [Slots -> 1..Capacity]
  BY <1>1 DEF Slots
<1>6. \A i \in 1..Capacity : \E s \in Slots : rank[s] = i
  <2> SUFFICES ASSUME NEW i \in 1..Capacity PROVE \E s \in Slots : rank[s] = i
    OBVIOUS
  <2>1. i - 1 \in Slots
    BY <1>1 DEF Slots
  <2>2. rank[i - 1] = i
    BY <1>1, <2>1
  <2> QED
    BY <2>1, <2>2
<1>7. \A s, t \in Slots : rank[s] = rank[t] => s = t
  BY <1>1 DEF Slots
<1>8. 0 \in Slots /\ rank[0] = 1
  BY <1>1 DEF Slots
<1>9. \A s \in Slots : IF rank[s] = Capacity THEN FreshFreeNext[s] = Nil
                       ELSE FreshFreeNext[s] \in Slots /\ rank[FreshFreeNext[s]] = rank[s] + 1
  BY <1>1 DEF Slots, FreshFreeNext, Nil
<1> HIDE DEF rank
<1>10. IsChain(rank, Slots, 0, FreshFreeNext, Capacity)
  BY <1>1, <1>5, <1>6, <1>7, <1>8, <1>9 DEF IsChain
<1>11. Chain(Slots, 0, FreshFreeNext, Capacity)
  BY <1>5, <1>10 DEF Chain
<1>12. Slots \ active' = Slots /\ Capacity - size' = Capacity
  BY <1>1
<1>13. FreeSound'
  BY <1>11, <1>12 DEF FreeSound
<1> QED
  BY <1>4, <1>13

(* The words that _initializeBuffer and clear write. *)
LEMMA FreshTypes ==
    /\ 0 \in Slots
    /\ FreshFreeNext \in [Slots -> Ptr]
    /\ [s \in Slots |-> Nil] \in [Slots -> Ptr]
    /\ [s \in Slots |-> 0] \in [Slots -> Nat]
    /\ [s \in Slots |-> 0] \in [Slots -> Int]
BY CapacityAssumption DEF CapacityAssumption, Slots, Ptr, FreshFreeNext

(* No operation is running. *)
LEMMA NoOpType ==
    NoOp \in [kind : {"none", "get", "put", "delete"},
              key : Keys \cup {NoValue}, val : Values \cup {NoValue}]
BY DEF NoOp

(* The lists that _initializeBuffer builds are sound. *)
LEMMA InitSound == Init => IInv
<1> SUFFICES ASSUME Init PROVE IInv
  OBVIOUS
<1>1. Capacity \in Nat /\ Capacity > 0
  BY CapacityAssumption DEF CapacityAssumption
<1>2. LinksTypeOK
  BY <1>1, FreshTypes, NoOpType DEF Init, LinksTypeOK, Ptr
<1>3. RecencySound
  <2>1. IsChain([s \in {} |-> 1], {}, Nil, next, 0) /\ [s \in {} |-> 1] \in [{} -> 1..0]
    BY DEF IsChain
  <2> QED
    BY <2>1 DEF Init, RecencySound, LinkedList, Chain
<1>4. FreeSound
  <2> DEFINE rank == [s \in Slots |-> s + 1]
  <2>1. rank \in [Slots -> 1..Capacity]
    BY <1>1 DEF Slots
  <2>2. \A i \in 1..Capacity : i - 1 \in Slots /\ rank[i - 1] = i
    BY <1>1 DEF Slots
  <2>3. \A s, t \in Slots : rank[s] = rank[t] => s = t
    BY <1>1 DEF Slots
  <2>4. 0 \in Slots /\ rank[0] = 1
    BY <1>1 DEF Slots
  <2>5. \A s \in Slots : IF rank[s] = Capacity THEN FreshFreeNext[s] = Nil
                         ELSE FreshFreeNext[s] \in Slots /\ rank[FreshFreeNext[s]] = rank[s] + 1
    BY <1>1 DEF Slots, FreshFreeNext, Nil
  <2> HIDE DEF rank
  <2>6. IsChain(rank, Slots, 0, FreshFreeNext, Capacity)
    BY <1>1, <2>1, <2>2, <2>3, <2>4, <2>5 DEF IsChain
  <2>7. Slots \ active = Slots /\ Capacity - size = Capacity
    BY <1>1 DEF Init
  <2> QED
    BY <2>1, <2>6, <2>7 DEF Init, FreeSound, Chain
<1>5. OpSound
  BY DEF Init, OpSound
<1> QED
  BY <1>2, <1>3, <1>4, <1>5 DEF IInv, Sound

-----------------------------------------------------------------------------
(* Every action preserves it. *)

(* Starting an operation, and clear, which rebuilds the lists. *)
LEMMA CallPreserves == IInv /\ Call => IInv'
<1> SUFFICES ASSUME IInv, Call PROVE IInv'
  OBVIOUS
<1>0. Sound /\ LinksTypeOK
  BY DEF IInv, Sound
<1>1. ASSUME NEW kind \in {"get", "put", "delete"}, NEW k \in Keys, NEW v \in Values \cup {NoValue},
             kind = "put" => v \in Values, Search(kind, k, v)
      PROVE  IInv'
  <2>1. RecencySound' /\ FreeSound'
    BY <1>0, <1>1, ListsUnchanged DEF Search
  <2>2. LinksTypeOK'
    BY <1>0, <1>1 DEF Search, LinksTypeOK, lists, extents
  <2>3. OpSound'
    BY <1>0, <1>1, HeadActive DEF Search, OpSound, lists
  <2> QED
    BY <2>1, <2>2, <2>3 DEF IInv, Sound
<1>2. ASSUME NEW v \in Values, NEW limit \in ItemLimits, PutOversize(v, limit) PROVE IInv'
  <2>1. RecencySound' /\ FreeSound'
    BY <1>0, <1>2, ListsUnchanged DEF PutOversize
  <2>2. LinksTypeOK'
    BY <1>0, <1>2, NoOpType DEF PutOversize, Return, LinksTypeOK, lists, extents, Ptr
  <2>3. OpSound'
    BY <1>2 DEF PutOversize, Return, OpSound
  <2> QED
    BY <2>1, <2>2, <2>3 DEF IInv, Sound
<1>3. ASSUME Clear PROVE IInv'
  <2>1. RecencySound' /\ FreeSound'
    BY <1>3, FreshSound DEF Clear
  <2>2. LinksTypeOK'
    BY <1>0, <1>3, FreshTypes, NoOpType, CapacityAssumption
    DEF Clear, Return, LinksTypeOK, Ptr, CapacityAssumption
  <2>3. OpSound'
    BY <1>3 DEF Clear, Return, OpSound
  <2> QED
    BY <2>1, <2>2, <2>3 DEF IInv, Sound
<1>4. ASSUME NEW k \in Keys, CallGet(k) \/ CallDelete(k) PROVE IInv'
  BY <1>1, <1>4 DEF CallGet, CallDelete
<1>5. ASSUME NEW k \in Keys, NEW v \in Values, NEW limit \in ItemLimits, CallPut(k, v, limit)
      PROVE  IInv'
  BY <1>1, <1>5 DEF CallPut
<1> QED
  BY <1>2, <1>3, <1>4, <1>5 DEF Call

(* The walk and what get, delete and put do with a slot it finds. *)
LEMMA LookupPreserves == IInv /\ Lookup => IInv'
<1> SUFFICES ASSUME IInv, Lookup PROVE IInv'
  OBVIOUS
<1>0. Sound /\ LinksTypeOK /\ OpSound
  BY DEF IInv, Sound
<1>1. CASE SearchStep
  <2>1. RecencySound' /\ FreeSound'
    BY <1>0, <1>1, ListsUnchanged DEF SearchStep
  <2>2. cur \in active /\ next[cur] \in active \cup {Nil} /\ cur' = next[cur]
    BY <1>0, <1>1, HeadActive DEF SearchStep, OpSound
  <2>3. LinksTypeOK'
    BY <1>0, <1>1, <2>2 DEF SearchStep, LinksTypeOK, lists, extents, Ptr
  <2>4. OpSound'
    BY <1>0, <1>1, <2>2 DEF SearchStep, OpSound, lists
  <2> QED
    BY <2>1, <2>3, <2>4 DEF IInv, Sound
<1>2. CASE GetHit \/ PutExisting
  <2>1. cur \in active /\ MoveToHead(cur)
    BY <1>0, <1>2 DEF GetHit, PutExisting, Found, OpSound
  <2>2. UNCHANGED <<freeHead, size, active, freeNext, totalBytes, allocPtr, extents>>
    BY <1>2 DEF GetHit, PutExisting
  <2>3. /\ LinkedList(active, head', tail', next', prev', size)
        /\ head' \in Ptr /\ tail' \in Ptr
        /\ next' \in [Slots -> Ptr] /\ prev' \in [Slots -> Ptr]
    BY <1>0, <2>1, MoveToHeadSound
  <2>4. RecencySound'
    BY <2>2, <2>3 DEF RecencySound
  <2>5. FreeSound'
    BY <1>0, <2>2 DEF Sound, FreeSound
  <2>6. pc' = "idle" /\ op' = NoOp /\ cur' = Nil /\ newPtr' = 0
    BY <1>2 DEF GetHit, PutExisting, Return
  <2>7. LinksTypeOK'
    BY <1>0, <2>2, <2>3, <2>6, NoOpType DEF LinksTypeOK, extents, Ptr
  <2>8. OpSound'
    BY <2>6 DEF OpSound
  <2> QED
    BY <2>4, <2>5, <2>7, <2>8 DEF IInv, Sound
<1>3. CASE GetMiss \/ DeleteMiss
  <2>1. UNCHANGED <<lists, totalBytes, allocPtr, extents, arena>>
    BY <1>3 DEF GetMiss, DeleteMiss
  <2>2. RecencySound' /\ FreeSound'
    BY <1>0, <2>1, ListsUnchanged
  <2>3. pc' = "idle" /\ op' = NoOp /\ cur' = Nil /\ newPtr' = 0
    BY <1>3 DEF GetMiss, DeleteMiss, Return
  <2>4. LinksTypeOK'
    BY <1>0, <2>1, <2>3, NoOpType DEF LinksTypeOK, lists, extents, Ptr
  <2>5. OpSound'
    BY <2>3 DEF OpSound
  <2> QED
    BY <2>2, <2>4, <2>5 DEF IInv, Sound
<1>4. CASE DeleteFound
  <2>1. cur \in active /\ Unlink(cur)
    BY <1>0, <1>4 DEF DeleteFound, Found, OpSound
  <2>2. /\ RecencySound' /\ FreeSound'
        /\ head' \in Ptr /\ tail' \in Ptr /\ freeHead' \in Ptr
        /\ size' \in 0..Capacity /\ totalBytes' \in Nat
        /\ active' \subseteq Slots
        /\ next' \in [Slots -> Ptr] /\ prev' \in [Slots -> Ptr]
        /\ freeNext' \in [Slots -> Ptr]
    BY <1>0, <2>1, UnlinkSound
  <2>3. /\ pc' = "idle" /\ op' = NoOp /\ cur' = Nil /\ newPtr' = 0
        /\ UNCHANGED <<allocPtr, extents>>
    BY <1>4 DEF DeleteFound, Return
  <2>4. LinksTypeOK'
    BY <1>0, <2>2, <2>3, NoOpType DEF LinksTypeOK, extents, Ptr
  <2>5. OpSound'
    BY <2>3 DEF OpSound
  <2> QED
    BY <2>2, <2>4, <2>5 DEF IInv, Sound
<1>5. CASE PutAbsent
  <2>1. RecencySound' /\ FreeSound'
    BY <1>0, <1>5, ListsUnchanged DEF PutAbsent
  <2>2. LinksTypeOK'
    BY <1>0, <1>5 DEF PutAbsent, LinksTypeOK, lists, extents, locals
  <2>3. OpSound'
    BY <1>0, <1>5 DEF PutAbsent, Absent, OpSound
  <2> QED
    BY <2>1, <2>2, <2>3 DEF IInv, Sound
<1> QED
  BY <1>1, <1>2, <1>3, <1>4, <1>5 DEF Lookup

(* Evictions and compaction. *)
LEMMA MakeRoomPreserves == IInv /\ MakeRoom => IInv'
<1> SUFFICES ASSUME IInv, MakeRoom PROVE IInv'
  OBVIOUS
<1>0. Sound /\ LinksTypeOK /\ OpSound
  BY DEF IInv, Sound
<1>1. CASE EvictForEntries \/ EvictForBytes \/ EvictForArena
  <2>1. tail # Nil /\ EvictTail /\ UNCHANGED <<off, len, hash, allocPtr, newPtr, op>>
    BY <1>1 DEF EvictForEntries, EvictForBytes, EvictForArena, NoSlotLeft, OverBudget, extents, locals
  <2>2. /\ RecencySound' /\ FreeSound'
        /\ head' \in Ptr /\ tail' \in Ptr /\ freeHead' \in Ptr
        /\ size' = size - 1 /\ size' \in 0..Capacity /\ totalBytes' \in Nat
        /\ active' \subseteq Slots
        /\ next' \in [Slots -> Ptr] /\ prev' \in [Slots -> Ptr]
        /\ freeNext' \in [Slots -> Ptr]
        /\ head' \in active' \cup {Nil}
    BY <1>0, <2>1, EvictTailSound
  <2>3. \/ pc = "evict" /\ pc' = "evict" /\ cur' = cur
        \/ pc = "fit" /\ pc' = "compact" /\ cur' = head'
    BY <1>1 DEF EvictForEntries, EvictForBytes, EvictForArena, locals
  <2>4. LinksTypeOK'
    BY <1>0, <2>1, <2>2, <2>3 DEF LinksTypeOK
  <2>5. size' < Capacity
    BY <2>2, CapacityAssumption, <1>0 DEF CapacityAssumption, LinksTypeOK
  <2>6. OpSound'
    BY <1>0, <2>1, <2>2, <2>3, <2>5 DEF OpSound
  <2> QED
    BY <2>2, <2>4, <2>6 DEF IInv, Sound
<1>2. CASE CompactStart
  <2>1. RecencySound' /\ FreeSound'
    BY <1>0, <1>2, ListsUnchanged DEF CompactStart
  <2>2. LinksTypeOK'
    BY <1>0, <1>2 DEF CompactStart, LinksTypeOK, lists, extents
  <2>3. size < Capacity
    BY <1>0, <1>2, HeadActive, CapacityAssumption
    DEF CompactStart, NoSlotLeft, CapacityAssumption, LinksTypeOK
  <2>4. OpSound'
    BY <1>0, <1>2, <2>3, HeadActive DEF CompactStart, OpSound, lists
  <2> QED
    BY <2>1, <2>2, <2>4 DEF IInv, Sound
<1>3. CASE CompactStep
  <2>1. RecencySound' /\ FreeSound'
    BY <1>0, <1>3, ListsUnchanged DEF CompactStep
  <2>2. cur \in active /\ next[cur] \in active \cup {Nil} /\ cur' = next[cur]
    BY <1>0, <1>3, HeadActive DEF CompactStep, OpSound
  <2>3. LinksTypeOK'
    BY <1>0, <1>3, <2>2 DEF CompactStep, LinksTypeOK, lists, Ptr
  <2>4. OpSound'
    BY <1>0, <1>3, <2>2 DEF CompactStep, OpSound, lists
  <2> QED
    BY <2>1, <2>3, <2>4 DEF IInv, Sound
<1>4. CASE CompactEnd
  <2>1. RecencySound' /\ FreeSound'
    BY <1>0, <1>4, ListsUnchanged DEF CompactEnd
  <2>2. LinksTypeOK'
    BY <1>0, <1>4 DEF CompactEnd, LinksTypeOK, lists, extents
  <2>3. OpSound'
    BY <1>0, <1>4 DEF CompactEnd, OpSound, lists
  <2> QED
    BY <2>1, <2>2, <2>3 DEF IInv, Sound
<1> QED
  BY <1>1, <1>2, <1>3, <1>4 DEF MakeRoom

(* Once a put may write, a slot is left for it. *)
LEMMA ReadyBelowCapacity ==
    ASSUME IInv, ReadyToWrite
    PROVE  size < Capacity /\ op.val \in Values /\ op.key \in Keys /\ Need \in Nat
<1>1. Sound /\ OpSound /\ LinksTypeOK
  BY DEF IInv, Sound
<1>2. size < Capacity
  BY <1>1, HeadActive, CapacityAssumption
  DEF ReadyToWrite, NoSlotLeft, OpSound, CapacityAssumption, LinksTypeOK
<1>3. op.val \in Values /\ op.key \in Keys
  BY <1>1 DEF ReadyToWrite, OpSound
<1> QED
  BY <1>2, <1>3, WeightAssumption DEF WeightAssumption, Need

(* The end of a put. *)
LEMMA FinishPreserves == IInv /\ Finish => IInv'
<1> SUFFICES ASSUME IInv, Finish PROVE IInv'
  OBVIOUS
<1>0. Sound /\ LinksTypeOK /\ OpSound
  BY DEF IInv, Sound
<1>1. ASSUME UNCHANGED <<lists, totalBytes, allocPtr, extents, arena>>,
             Return("put", FALSE, NoValue)
      PROVE  IInv'
  <2>1. RecencySound' /\ FreeSound'
    BY <1>0, <1>1, ListsUnchanged
  <2>2. LinksTypeOK'
    BY <1>0, <1>1, NoOpType DEF Return, LinksTypeOK, lists, extents, Ptr
  <2>3. OpSound'
    BY <1>1 DEF Return, OpSound
  <2> QED
    BY <2>1, <2>2, <2>3 DEF IInv, Sound
<1>2. CASE PutCannotFit
  BY <1>1, <1>2 DEF PutCannotFit
<1>3. CASE PutWrite /\ freeHead = Nil
  BY <1>1, <1>3 DEF PutWrite
<1>4. CASE PutWrite /\ freeHead # Nil
  <2>1. size < Capacity /\ op.val \in Values /\ op.key \in Keys /\ Need \in Nat
    BY <1>4, ReadyBelowCapacity DEF PutWrite
  <2>2. LinkFresh(freeHead, Need)
    BY <1>4 DEF PutWrite
  <2>3. /\ RecencySound' /\ FreeSound'
        /\ head' \in Ptr /\ tail' \in Ptr /\ freeHead' \in Ptr
        /\ size' \in 0..Capacity /\ totalBytes' \in Nat
        /\ active' \subseteq Slots
        /\ next' \in [Slots -> Ptr] /\ prev' \in [Slots -> Ptr]
        /\ freeNext' \in [Slots -> Ptr]
    BY <1>0, <2>1, <2>2, LinkFreshSound
  <2>4. /\ off' = [off EXCEPT ![freeHead] = allocPtr]
        /\ len' = [len EXCEPT ![freeHead] = Need]
        /\ hash' = [hash EXCEPT ![freeHead] = Hash[op.key]]
        /\ allocPtr' = allocPtr + Need
    BY <1>4 DEF PutWrite
  <2>5. /\ off' \in [Slots -> Nat] /\ len' \in [Slots -> Nat] /\ hash' \in [Slots -> Int]
        /\ allocPtr' \in Nat
    <3>1. Hash[op.key] \in Int
      BY <2>1, HashAssumption DEF HashAssumption
    <3>2. /\ off \in [Slots -> Nat] /\ len \in [Slots -> Nat] /\ hash \in [Slots -> Int]
          /\ allocPtr \in Nat
      BY <1>0 DEF LinksTypeOK
    <3>3. hash' \in [Slots -> Int]
      BY <2>4, <3>1, <3>2
    <3>4. off' \in [Slots -> Nat] /\ len' \in [Slots -> Nat]
      BY <2>1, <2>4, <3>2
    <3> QED
      BY <2>1, <2>4, <3>2, <3>3, <3>4
  <2>6. pc' = "idle" /\ op' = NoOp /\ cur' = Nil /\ newPtr' = 0
    BY <1>4 DEF PutWrite, Return
  <2>7. LinksTypeOK'
    BY <2>3, <2>5, <2>6, NoOpType DEF LinksTypeOK, Ptr
  <2>8. OpSound'
    BY <2>6 DEF OpSound
  <2> QED
    BY <2>3, <2>7, <2>8 DEF IInv, Sound
<1> QED
  BY <1>2, <1>3, <1>4 DEF Finish

(* A step that changes nothing. *)
LEMMA StutterPreserves == IInv /\ UNCHANGED vars => IInv'
<1> SUFFICES ASSUME IInv, UNCHANGED vars PROVE IInv'
  OBVIOUS
<1>1. RecencySound' /\ FreeSound'
  BY ListsUnchanged DEF IInv, vars
<1>2. LinksTypeOK'
  BY DEF IInv, Sound, LinksTypeOK, vars, lists, extents, locals
<1>3. OpSound'
  BY DEF IInv, OpSound, vars, lists, locals
<1> QED
  BY <1>1, <1>2, <1>3 DEF IInv, Sound

(* The lists stay sound. *)
LEMMA Invariance == Spec => []IInv
<1>1. IInv /\ [Next]_vars => IInv'
  BY CallPreserves, LookupPreserves, MakeRoomPreserves, FinishPreserves, StutterPreserves
  DEF Next, Step
<1> QED
  BY <1>1, InitSound, PTL DEF Spec

-----------------------------------------------------------------------------
(* All pointers are slots or -1, all counters and offsets are numbers, and
   HDR_SIZE never exceeds the capacity. *)
THEOREM LinksTypeCorrect == Spec => []LinksTypeOK
<1>1. IInv => LinksTypeOK
  BY DEF IInv, Sound
<1> QED
  BY <1>1, Invariance, PTL

(* The recency list is the active slots, each once, linked both ways. *)
THEOREM RecencyCorrect == Spec => []RecencySound
<1>1. IInv => RecencySound
  BY DEF IInv, Sound
<1> QED
  BY <1>1, Invariance, PTL

(* The free list is the other slots, each once. *)
THEOREM FreeCorrect == Spec => []FreeSound
<1>1. IInv => FreeSound
  BY DEF IInv, Sound
<1> QED
  BY <1>1, Invariance, PTL

(* An entry is always written to a slot that is not in use, and there is
   one: the branch of put for an empty free list is never taken. *)
THEOREM FreshSlotCorrect == Spec => []FreshSlot
<1>1. IInv => FreshSlot
  <2> SUFFICES ASSUME IInv PROVE FreshSlot
    OBVIOUS
  <2>1. Nil \notin Slots \ active /\ size \in 0..Capacity /\ Capacity \in Nat
    BY NilNoSlot, CapacityAssumption DEF IInv, Sound, LinksTypeOK, CapacityAssumption
  <2>2. Capacity - size \in Nat
    BY <2>1
  <2>3. Chain(Slots \ active, freeHead, freeNext, Capacity - size)
    BY DEF IInv, Sound, FreeSound
  <2> DEFINE F == Slots \ active
             n == Capacity - size
  <2> HIDE DEF F, n
  <2>4. /\ n = 0 <=> freeHead = Nil
        /\ n # 0 => freeHead \in F
    <3>1. Nil \notin F /\ n \in Nat /\ Chain(F, freeHead, freeNext, n)
      BY <2>1, <2>2, <2>3 DEF F, n
    <3> QED
      BY <3>1, ChainFirst
  <2>5. freeHead # Nil => freeHead \in Slots \ active
    BY <2>4 DEF F
  <2>6. ReadyToWrite => Capacity - size # 0
    BY <2>1, ReadyBelowCapacity
  <2>7. ReadyToWrite => freeHead # Nil
    BY <2>6, <2>4 DEF n
  <2> QED
    BY <2>5, <2>7 DEF FreshSlot
<1> QED
  BY <1>1, Invariance, PTL
-----------------------------------------------------------------------------
(* The arena and the byte account. *)

(* The slots the running walk has not come to yet; all of them when no walk
   is under way. *)
Ahead(todo) ==
    IF pc \in {"search", "compact"} THEN \E m \in 0..Capacity : Chain(todo, cur, next, m)
    ELSE todo = active

(* The members of S hold one whole entry each in cells, below bound, none
   overlapping another, under the keys and values given by keyOf and valOf. *)
Laid(cells, S, bound, keyOf, valOf) ==
    /\ \A s \in S : /\ off[s] + len[s] <= bound
                    /\ hash[s] = Hash[keyOf[s]] /\ len[s] = Weight[valOf[s]]
                    /\ \A i \in off[s]..(off[s] + len[s] - 1) :
                          cells[i] = [key |-> keyOf[s], val |-> valOf[s]]
    /\ \A s, t \in S : s # t => off[s] + len[s] <= off[t] \/ off[t] + len[t] <= off[s]

(* What is stored where.  While a compaction runs, the entries the walk has
   passed are in the copy and their descriptors say so already; the others
   are still in the arena.  No key is stored twice, and a put goes on only
   with a key that is not stored. *)
Layout(keyOf, valOf, todo) ==
    /\ Ahead(todo)
    /\ \A s, t \in active : keyOf[s] = keyOf[t] => s = t
    /\ pc = "search" => \A s \in active \ todo : keyOf[s] # op.key
    /\ pc \in {"evict", "compact", "fit"} => \A s \in active : keyOf[s] # op.key
    /\ IF pc = "compact"
       THEN /\ Laid(arena, todo, allocPtr, keyOf, valOf)
            /\ Laid(temp, active \ todo, newPtr, keyOf, valOf)
            /\ newPtr + Total(len, todo) = totalBytes
       ELSE Laid(arena, active, allocPtr, keyOf, valOf)

(* Some keys and values account for all that the arena holds. *)
LayoutSound ==
    \E keyOf \in [active -> Keys], valOf \in [active -> Values], todo \in SUBSET active :
        Layout(keyOf, valOf, todo)

(* The account is exact, covers what the arena holds, and is all that the
   arena holds right after a compaction. *)
Accounted ==
    /\ totalBytes = Total(len, active)
    /\ totalBytes <= allocPtr /\ allocPtr <= ArenaSize
    /\ pc = "fit" => allocPtr = totalBytes
    /\ pc # "compact" => newPtr = 0

(* What is copied and returned was read from entries; which operation runs
   at which point of the control. *)
MemoryTyped ==
    /\ arena \in [Offsets -> Cell] /\ temp \in [Offsets -> Cell]
    /\ ret \in [kind : {"none", "get", "put", "delete", "clear"}, ok : BOOLEAN,
                val : Values \cup {NoValue}]
    /\ pc = "idle" => op = NoOp
    /\ pc \in {"evict", "compact", "fit"} => op.kind = "put"

(* The inductive invariant of the data, given that of the lists. *)
DataInv == LayoutSound /\ Accounted /\ MemoryTyped

-----------------------------------------------------------------------------
(* Facts the data proofs share. *)

(* The sizes of any active slots can be summed. *)
LEMMA LengthsSum ==
    ASSUME Sound, NEW S \in SUBSET active
    PROVE  IsFiniteSet(S) /\ Summable(len, S) /\ len \in [Slots -> Nat]
<1>1. active \subseteq Slots /\ len \in [Slots -> Nat]
  BY DEF Sound, LinksTypeOK
<1>2. IsFiniteSet(Slots)
  BY CapacityAssumption, FS_Interval DEF CapacityAssumption, Slots
<1>3. S \in SUBSET Slots
  BY <1>1
<1>4. IsFiniteSet(S)
  BY <1>2, <1>3, FS_Subset
<1> QED
  BY <1>1, <1>3, <1>4 DEF Summable

(* Taking an entry off the account is exact: the floor at zero is never hit. *)
LEMMA AccountShrinks ==
    ASSUME Sound, Accounted, NEW x \in active, active' = active \ {x}, len' = len,
           totalBytes' = Floor0(totalBytes - len[x])
    PROVE  /\ totalBytes' = Total(len', active')
           /\ totalBytes' = totalBytes - len[x]
           /\ totalBytes' \in Nat /\ totalBytes' <= totalBytes
<1>1. Summable(len, active) /\ Summable(len, active \ {x}) /\ len[x] \in Nat
  <2>1. active \in SUBSET active /\ active \ {x} \in SUBSET active /\ x \in Slots
    BY DEF Sound, LinksTypeOK
  <2> QED
    BY <2>1, LengthsSum
<1>2. Total(len, active) = len[x] + Total(len, active \ {x})
  BY <1>1, TotalRemove
<1>3. Total(len, active \ {x}) \in Nat
  BY <1>1, TotalRemove
<1>4. totalBytes - len[x] = Total(len, active \ {x})
  BY <1>1, <1>2, <1>3 DEF Accounted
<1>5. totalBytes' = totalBytes - len[x]
  BY <1>3, <1>4 DEF Floor0
<1>6. totalBytes' <= totalBytes
  BY <1>1, <1>2, <1>3, <1>4, <1>5 DEF Accounted
<1> QED
  BY <1>3, <1>4, <1>5, <1>6

(* No entry is empty: its key takes bytes. *)
LEMMA WeightPositive == \A v \in Values : Weight[v] \in Nat /\ Weight[v] >= 1
BY WeightAssumption DEF WeightAssumption

(* An operation that returns leaves the entries where they are, in whatever
   order the list now has them. *)
LEMMA LayoutOnReturn ==
    ASSUME LayoutSound, pc # "compact", pc' = "idle",
           UNCHANGED <<active, arena, off, len, hash, allocPtr>>
    PROVE  LayoutSound'
<1>1. PICK keyOf \in [active -> Keys], valOf \in [active -> Values], todo \in SUBSET active :
             Layout(keyOf, valOf, todo)
  BY DEF LayoutSound
<1>2. Layout(keyOf, valOf, active)'
  BY <1>1 DEF Layout, Ahead, Laid
<1> QED
  BY <1>2 DEF LayoutSound

(* An entry that goes leaves the others where they are. *)
LEMMA LayoutShrinks ==
    ASSUME LayoutSound, pc # "compact", NEW x \in active, active' = active \ {x},
           UNCHANGED <<arena, off, len, hash, allocPtr>>
    PROVE  \E keyOf \in [active' -> Keys], valOf \in [active' -> Values] :
              /\ \A s, t \in active' : keyOf[s] = keyOf[t] => s = t
              /\ pc \in {"evict", "fit"} => \A s \in active' : keyOf[s] # op.key
              /\ Laid(arena, active, allocPtr, keyOf, valOf)'
<1>1. PICK keyOf \in [active -> Keys], valOf \in [active -> Values], todo \in SUBSET active :
             Layout(keyOf, valOf, todo)
  BY DEF LayoutSound
<1>2. PICK k \in [active' -> Keys], v \in [active' -> Values] :
             \A s \in active' : k[s] = keyOf[s] /\ v[s] = valOf[s]
  <2>1. [s \in active' |-> keyOf[s]] \in [active' -> Keys]
    OBVIOUS
  <2>2. [s \in active' |-> valOf[s]] \in [active' -> Values]
    OBVIOUS
  <2> QED
    BY <2>1, <2>2
<1>3. \A s \in active' : k[s] = keyOf[s] /\ v[s] = valOf[s] /\ s \in active
  BY <1>2
<1>4. Laid(arena, active, allocPtr, k, v)'
  <2>1. Laid(arena, active, allocPtr, keyOf, valOf)
    BY <1>1 DEF Layout
  <2>2. \A s \in active' : /\ off[s] + len[s] <= allocPtr
                           /\ hash[s] = Hash[k[s]] /\ len[s] = Weight[v[s]]
                           /\ \A i \in off[s]..(off[s] + len[s] - 1) :
                                 arena[i] = [key |-> k[s], val |-> v[s]]
    BY <1>3, <2>1 DEF Laid
  <2>3. \A s, t \in active' : s # t => off[s] + len[s] <= off[t] \/ off[t] + len[t] <= off[s]
    BY <1>3, <2>1 DEF Laid
  <2> QED
    BY <2>2, <2>3 DEF Laid
<1>5. \A s, t \in active' : k[s] = k[t] => s = t
  BY <1>1, <1>3 DEF Layout
<1>6. pc \in {"evict", "fit"} => \A s \in active' : k[s] # op.key
  BY <1>1, <1>3 DEF Layout
<1> QED
  BY <1>4, <1>5, <1>6

(* What the bounds of an extent say in numbers. *)
LEMMA ExtentTypes ==
    ASSUME Sound, NEW s \in active
    PROVE  /\ s \in Slots /\ off[s] \in Nat /\ len[s] \in Nat /\ hash[s] \in Int
           /\ allocPtr \in Nat /\ newPtr \in Nat /\ totalBytes \in Nat
BY DEF Sound, LinksTypeOK

(* The next entry goes where no other is. *)
LEMMA LayoutGrows ==
    ASSUME Sound, LayoutSound, Accounted, pc \in {"evict", "fit"}, ~NoRoom,
           op.key \in Keys, op.val \in Values, NEW f \in Slots, f \notin active,
           active' = active \cup {f},
           arena' = [i \in Offsets |-> IF i \in allocPtr..(allocPtr + Need - 1)
                                       THEN [key |-> op.key, val |-> op.val]
                                       ELSE arena[i]],
           off' = [off EXCEPT ![f] = allocPtr], len' = [len EXCEPT ![f] = Need],
           hash' = [hash EXCEPT ![f] = Hash[op.key]], allocPtr' = allocPtr + Need,
           pc' = "idle"
    PROVE  LayoutSound'
<1>1. PICK keyOf \in [active -> Keys], valOf \in [active -> Values], todo \in SUBSET active :
             Layout(keyOf, valOf, todo)
  BY DEF LayoutSound
<1>2. PICK k \in [active' -> Keys], v \in [active' -> Values] :
             /\ \A s \in active : k[s] = keyOf[s] /\ v[s] = valOf[s]
             /\ k[f] = op.key /\ v[f] = op.val
  <2> DEFINE kk == [s \in active' |-> IF s = f THEN op.key ELSE keyOf[s]]
             vv == [s \in active' |-> IF s = f THEN op.val ELSE valOf[s]]
  <2>1. kk \in [active' -> Keys] /\ vv \in [active' -> Values]
    OBVIOUS
  <2>2. \A s \in active : kk[s] = keyOf[s] /\ vv[s] = valOf[s]
    OBVIOUS
  <2>3. kk[f] = op.key /\ vv[f] = op.val
    OBVIOUS
  <2> HIDE DEF kk, vv
  <2> QED
    BY <2>1, <2>2, <2>3
<1>3. /\ Need \in Nat /\ Need >= 1 /\ Need = Weight[op.val]
      /\ allocPtr \in Nat /\ ArenaSize \in Nat /\ allocPtr + Need <= ArenaSize
  BY WeightPositive, ArenaAssumption DEF Need, NoRoom, ArenaAssumption, Sound, LinksTypeOK
<1>4. off \in [Slots -> Nat] /\ len \in [Slots -> Nat] /\ hash \in [Slots -> Int] /\ active \subseteq Slots
  BY DEF Sound, LinksTypeOK
<1>5. /\ off'[f] = allocPtr /\ len'[f] = Need /\ hash'[f] = Hash[op.key]
      /\ \A s \in active : off'[s] = off[s] /\ len'[s] = len[s] /\ hash'[s] = hash[s]
  BY <1>4
<1>6. Laid(arena, active, allocPtr, keyOf, valOf)
  BY <1>1 DEF Layout
<1>7. \A s \in active : /\ off[s] \in Nat /\ len[s] \in Nat /\ off[s] + len[s] <= allocPtr
                        /\ hash[s] = Hash[k[s]] /\ len[s] = Weight[v[s]]
                        /\ \A i \in off[s]..(off[s] + len[s] - 1) :
                              arena[i] = [key |-> k[s], val |-> v[s]]
  BY <1>2, <1>4, <1>6 DEF Laid
<1>8. ASSUME NEW s \in active', NEW i \in off'[s]..(off'[s] + len'[s] - 1)
      PROVE  arena'[i] = [key |-> k[s], val |-> v[s]]
  <2>1. CASE s = f
    <3>1. i \in allocPtr..(allocPtr + Need - 1) /\ i \in Offsets
      BY <1>3, <1>5, <1>8, <2>1 DEF Offsets
    <3> QED
      BY <1>2, <2>1, <3>1
  <2>2. CASE s # f
    <3>1. s \in active /\ i \in off[s]..(off[s] + len[s] - 1)
      BY <1>5, <1>8, <2>2
    <3>2. off[s] \in Nat /\ len[s] \in Nat /\ off[s] + len[s] <= allocPtr
      BY <1>7, <3>1
    <3>3. i \in Int /\ 0 <= i /\ i < allocPtr
      BY <1>3, <3>1, <3>2
    <3>4. i \in Offsets /\ i \notin allocPtr..(allocPtr + Need - 1)
      BY <1>3, <3>3 DEF Offsets
    <3>5. arena'[i] = arena[i]
      BY <3>4
    <3> QED
      BY <1>7, <3>1, <3>5
  <2> QED
    BY <2>1, <2>2
<1>9. ASSUME NEW s \in active'
      PROVE  off'[s] + len'[s] <= allocPtr' /\ hash'[s] = Hash[k[s]] /\ len'[s] = Weight[v[s]]
  <2>1. CASE s = f
    BY <1>2, <1>3, <1>5, <2>1
  <2>2. CASE s # f
    <3>1. s \in active
      BY <2>2
    <3>2. off[s] \in Nat /\ len[s] \in Nat /\ off[s] + len[s] <= allocPtr
      BY <1>7, <3>1
    <3>3. off[s] + len[s] <= allocPtr + Need
      BY <1>3, <3>2
    <3> QED
      BY <1>5, <1>7, <3>1, <3>3
  <2> QED
    BY <2>1, <2>2
<1>10. ASSUME NEW s \in active', NEW t \in active', s # t
       PROVE  off'[s] + len'[s] <= off'[t] \/ off'[t] + len'[t] <= off'[s]
  <2>1. CASE s = f
    BY <1>5, <1>7, <1>10, <2>1
  <2>2. CASE t = f
    BY <1>5, <1>7, <1>10, <2>2
  <2>3. CASE s # f /\ t # f
    <3>1. s \in active /\ t \in active
      BY <2>3
    <3>2. off[s] + len[s] <= off[t] \/ off[t] + len[t] <= off[s]
      BY <1>6, <1>10, <3>1 DEF Laid
    <3> QED
      BY <1>5, <3>1, <3>2
  <2> QED
    BY <2>1, <2>2, <2>3
<1>11. Laid(arena, active, allocPtr, k, v)'
  BY <1>8, <1>9, <1>10 DEF Laid
<1>12. \A s, t \in active' : k[s] = k[t] => s = t
  BY <1>1, <1>2 DEF Layout
<1>13. Layout(k, v, active)'
  BY <1>11, <1>12 DEF Layout, Ahead
<1> QED
  BY <1>13 DEF LayoutSound

(* Compacting one entry moves it, whole, to the end of the copy. *)
LEMMA LayoutCompacts ==
    ASSUME Sound, LayoutSound, Accounted, CompactStep
    PROVE  LayoutSound' /\ newPtr' <= ArenaSize
<1>1. PICK keyOf \in [active -> Keys], valOf \in [active -> Values], todo \in SUBSET active :
             Layout(keyOf, valOf, todo)
  BY DEF LayoutSound
<1>2. /\ pc = "compact" /\ cur # Nil /\ cur' = next[cur] /\ newPtr' = newPtr + len[cur]
      /\ temp' = [i \in Offsets |-> IF i \in newPtr..(newPtr + len[cur] - 1)
                                    THEN arena[off[cur] + (i - newPtr)] ELSE temp[i]]
      /\ off' = [off EXCEPT ![cur] = newPtr]
      /\ UNCHANGED <<lists, totalBytes, allocPtr, len, hash, arena, pc, op>>
  BY DEF CompactStep
<1>3. PICK rest \in SUBSET todo : rest = todo \ {cur}
  OBVIOUS
<1> DEFINE done == active \ todo
<1>4. cur \in todo /\ \E m \in 0..Capacity : Chain(rest, next[cur], next, m)
  <2>1. PICK m \in 0..Capacity : Chain(todo, cur, next, m)
    BY <1>1, <1>2 DEF Layout, Ahead
  <2>2. Nil \notin todo /\ m \in Nat /\ m - 1 < Capacity /\ Capacity \in Nat
    BY NilNoSlot, CapacityAssumption DEF Sound, LinksTypeOK, CapacityAssumption
  <2>3. cur \in todo /\ m > 0 /\ Chain(todo \ {cur}, next[cur], next, m - 1)
    BY <1>2, <2>1, <2>2, ChainPop
  <2> QED
    BY <1>3, <2>2, <2>3
<1>5. /\ off \in [Slots -> Nat] /\ len \in [Slots -> Nat] /\ active \subseteq Slots
      /\ newPtr \in Nat /\ allocPtr \in Nat /\ totalBytes \in Nat /\ ArenaSize \in Nat
  BY ArenaAssumption DEF Sound, LinksTypeOK, ArenaAssumption
<1>6. /\ Laid(arena, todo, allocPtr, keyOf, valOf)
      /\ Laid(temp, done, newPtr, keyOf, valOf)
      /\ newPtr + Total(len, todo) = totalBytes
      /\ totalBytes <= allocPtr /\ allocPtr <= ArenaSize
  BY <1>1, <1>2 DEF Layout, Accounted
<1>7. Total(len, todo) = len[cur] + Total(len, rest) /\ Total(len, rest) \in Nat
  <2>1. Summable(len, todo) /\ Summable(len, rest)
    BY LengthsSum
  <2> QED
    BY <1>3, <1>4, <2>1, TotalRemove
<1>8. len[cur] \in Nat /\ off[cur] \in Nat /\ cur \in Slots
  BY <1>4, <1>5
<1>9. newPtr + len[cur] + Total(len, rest) = totalBytes /\ newPtr + len[cur] <= ArenaSize
  BY <1>5, <1>6, <1>7, <1>8
<1>10. off'[cur] = newPtr /\ \A s \in active : s # cur => off'[s] = off[s]
  BY <1>2, <1>5, <1>8
<1> HIDE DEF done
<1>11. Laid(arena, rest, allocPtr, keyOf, valOf)'
  BY <1>3, <1>2, <1>6, <1>10 DEF Laid
<1>12. \A s \in done : /\ s \in active /\ s # cur /\ off[s] \in Nat /\ len[s] \in Nat
                       /\ off[s] + len[s] <= newPtr
                       /\ hash[s] = Hash[keyOf[s]] /\ len[s] = Weight[valOf[s]]
                       /\ \A i \in off[s]..(off[s] + len[s] - 1) :
                             temp[i] = [key |-> keyOf[s], val |-> valOf[s]]
  BY <1>4, <1>5, <1>6 DEF Laid, done
<1>13. /\ hash[cur] = Hash[keyOf[cur]] /\ len[cur] = Weight[valOf[cur]]
       /\ off[cur] + len[cur] <= allocPtr
       /\ \A i \in off[cur]..(off[cur] + len[cur] - 1) :
             arena[i] = [key |-> keyOf[cur], val |-> valOf[cur]]
  BY <1>4, <1>6 DEF Laid
<1>14. active \ rest = done \cup {cur}
  BY <1>3, <1>4 DEF done
<1>15. ASSUME NEW s \in done \cup {cur}, NEW i \in off'[s]..(off'[s] + len[s] - 1)
       PROVE  temp'[i] = [key |-> keyOf[s], val |-> valOf[s]]
  <2>1. CASE s = cur
    <3>1. i \in newPtr..(newPtr + len[cur] - 1) /\ i \in Offsets
      BY <1>5, <1>8, <1>9, <1>10, <1>15, <2>1 DEF Offsets
    <3>2. off[cur] + (i - newPtr) \in off[cur]..(off[cur] + len[cur] - 1)
      BY <1>5, <1>8, <3>1
    <3>3. temp'[i] = arena[off[cur] + (i - newPtr)]
      BY <1>2, <3>1
    <3> QED
      BY <1>13, <2>1, <3>2, <3>3
  <2>2. CASE s # cur
    <3>1. s \in done /\ off'[s] = off[s]
      BY <1>10, <1>12, <2>2
    <3>2. i \in off[s]..(off[s] + len[s] - 1)
      BY <1>15, <3>1
    <3>3. off[s] \in Nat /\ len[s] \in Nat /\ off[s] + len[s] <= newPtr
      BY <1>12, <3>1
    <3>4. i \in Int /\ 0 <= i /\ i < newPtr
      BY <1>5, <3>2, <3>3
    <3>5. i \in Offsets /\ i \notin newPtr..(newPtr + len[cur] - 1)
      BY <1>5, <1>8, <1>9, <3>4 DEF Offsets
    <3>6. temp'[i] = temp[i]
      BY <1>2, <3>5
    <3> QED
      BY <1>12, <3>1, <3>2, <3>6
  <2> QED
    BY <2>1, <2>2
<1>16. ASSUME NEW s \in done \cup {cur}
       PROVE  off'[s] + len[s] <= newPtr' /\ hash[s] = Hash[keyOf[s]] /\ len[s] = Weight[valOf[s]]
  <2>1. CASE s = cur
    BY <1>2, <1>5, <1>8, <1>10, <1>13, <2>1
  <2>2. CASE s # cur
    <3>1. s \in done /\ off'[s] = off[s]
      BY <1>10, <1>12, <2>2
    <3>2. off[s] \in Nat /\ len[s] \in Nat /\ off[s] + len[s] <= newPtr
      BY <1>12, <3>1
    <3>3. off[s] + len[s] <= newPtr + len[cur]
      BY <1>5, <1>8, <3>2
    <3> QED
      BY <1>2, <1>12, <3>1, <3>3
  <2> QED
    BY <2>1, <2>2
<1>17. ASSUME NEW s \in done \cup {cur}, NEW t \in done \cup {cur}, s # t
       PROVE  off'[s] + len[s] <= off'[t] \/ off'[t] + len[t] <= off'[s]
  <2>1. CASE s = cur
    BY <1>5, <1>10, <1>12, <1>17, <2>1
  <2>2. CASE t = cur
    BY <1>5, <1>10, <1>12, <1>17, <2>2
  <2>3. CASE s # cur /\ t # cur
    <3>1. s \in done /\ t \in done /\ off'[s] = off[s] /\ off'[t] = off[t]
      BY <1>10, <1>12, <2>3
    <3>2. off[s] + len[s] <= off[t] \/ off[t] + len[t] <= off[s]
      BY <1>6, <1>17, <3>1 DEF Laid
    <3> QED
      BY <3>1, <3>2
  <2> QED
    BY <2>1, <2>2, <2>3
<1>18. Laid(temp, active \ rest, newPtr, keyOf, valOf)'
  <2>1. active' = active /\ len' = len /\ hash' = hash
    BY <1>2 DEF lists
  <2> QED
    BY <1>14, <1>15, <1>16, <1>17, <2>1 DEF Laid
<1>19. Layout(keyOf, valOf, rest)'
  <2>1. Ahead(rest)'
    BY <1>2, <1>4 DEF Ahead, lists
  <2>2. (newPtr + Total(len, rest) = totalBytes)'
    BY <1>2, <1>9
  <2> QED
    BY <1>1, <1>2, <1>11, <1>18, <2>1, <2>2 DEF Layout, lists
<1> QED
  BY <1>2, <1>9, <1>19 DEF LayoutSound, lists

(* Writing the copy back puts every entry where its descriptor says. *)
LEMMA LayoutCopiedBack ==
    ASSUME Sound, LayoutSound, Accounted, CompactEnd
    PROVE  LayoutSound' /\ newPtr = totalBytes
<1>1. PICK keyOf \in [active -> Keys], valOf \in [active -> Values], todo \in SUBSET active :
             Layout(keyOf, valOf, todo)
  BY DEF LayoutSound
<1>2. /\ pc = "compact" /\ cur = Nil /\ pc' = "fit" /\ allocPtr' = newPtr
      /\ arena' = [i \in Offsets |-> IF i < newPtr THEN temp[i] ELSE arena[i]]
      /\ UNCHANGED <<lists, totalBytes, extents, op>>
  BY DEF CompactEnd
<1>3. todo = {}
  <2>1. PICK m \in 0..Capacity : Chain(todo, cur, next, m)
    BY <1>1, <1>2 DEF Layout, Ahead
  <2>2. Nil \notin todo /\ m \in Nat
    BY NilNoSlot DEF Sound, LinksTypeOK
  <2> QED
    BY <1>2, <2>1, <2>2, ChainFirst
<1>4. newPtr \in Nat /\ totalBytes \in Nat /\ ArenaSize \in Nat
  BY ArenaAssumption DEF Sound, LinksTypeOK, ArenaAssumption
<1>5. newPtr = totalBytes
  <2>1. newPtr + Total(len, {}) = totalBytes
    BY <1>1, <1>2, <1>3 DEF Layout
  <2> QED
    BY <1>4, <2>1, TotalEmpty
<1>6. newPtr <= ArenaSize
  BY <1>4, <1>5 DEF Accounted, Sound, LinksTypeOK
<1>7. Laid(temp, active, newPtr, keyOf, valOf)
  BY <1>1, <1>2, <1>3 DEF Layout
<1>8. ASSUME NEW s \in active, NEW i \in off[s]..(off[s] + len[s] - 1)
      PROVE  arena'[i] = temp[i]
  <2>1. off[s] \in Nat /\ len[s] \in Nat
    BY ExtentTypes
  <2>2. off[s] + len[s] <= newPtr
    BY <1>7 DEF Laid
  <2>3. i \in Int /\ 0 <= i /\ i < newPtr
    BY <1>4, <1>8, <2>1, <2>2
  <2>4. i \in Offsets
    BY <1>4, <1>6, <2>3 DEF Offsets
  <2> QED
    BY <1>2, <2>3, <2>4
<1>9. Laid(arena, active, allocPtr, keyOf, valOf)'
  BY <1>2, <1>7, <1>8 DEF Laid, extents, lists
<1>10. Layout(keyOf, valOf, active)'
  BY <1>1, <1>2, <1>9 DEF Layout, Ahead, lists
<1> QED
  BY <1>2, <1>5, <1>10 DEF LayoutSound, lists

(* A walk starts with the whole list ahead of it. *)
LEMMA WalkStarts ==
    ASSUME Sound
    PROVE  \E m \in 0..Capacity : Chain(active, head, next, m)
BY DEF Sound, RecencySound, LinkedList, LinksTypeOK

(* An empty buffer. *)
LEMMA DataInit == Init => DataInv
<1> SUFFICES ASSUME Init PROVE DataInv
  OBVIOUS
<1>1. LayoutSound
  <2>1. Layout([s \in {} |-> 0], [s \in {} |-> 0], {})
    BY DEF Init, Layout, Ahead, Laid
  <2>2. [s \in {} |-> 0] \in [{} -> Keys] /\ [s \in {} |-> 0] \in [{} -> Values]
    OBVIOUS
  <2> QED
    BY <2>1, <2>2 DEF LayoutSound, Init
<1>2. Accounted
  BY ArenaAssumption, TotalEmpty DEF Init, Accounted, ArenaAssumption
<1>3. MemoryTyped
  BY DEF Init, MemoryTyped, EmptyArena, Cell, NoResult, Result
<1> QED
  BY <1>1, <1>2, <1>3 DEF DataInv

(* What a step that returns does to the arena's types: nothing. *)
LEMMA ReturnTyped ==
    ASSUME MemoryTyped, arena' = arena, NEW kind \in {"get", "put", "delete", "clear"},
           NEW ok \in BOOLEAN, NEW val \in Values \cup {NoValue}, Return(kind, ok, val)
    PROVE  MemoryTyped'
BY DEF MemoryTyped, Return, Result, EmptyArena, Cell

(* A walk starts with all entries ahead of it. *)
LEMMA CallData == IInv /\ DataInv /\ Call => DataInv'
<1> SUFFICES ASSUME IInv, DataInv, Call PROVE DataInv'
  OBVIOUS
<1>0. Sound /\ LayoutSound /\ Accounted /\ MemoryTyped
  BY DEF IInv, DataInv
<1>1. ASSUME NEW kind \in {"get", "put", "delete"}, NEW k \in Keys, NEW v \in Values \cup {NoValue},
             Search(kind, k, v)
      PROVE  DataInv'
  <2>1. LayoutSound'
    <3>1. PICK keyOf \in [active -> Keys], valOf \in [active -> Values], todo \in SUBSET active :
                 Layout(keyOf, valOf, todo)
      BY <1>0 DEF LayoutSound
    <3>2. Layout(keyOf, valOf, active)'
      <4>1. Ahead(active)'
        BY <1>0, <1>1, WalkStarts DEF Search, Ahead, lists
      <4> QED
        BY <1>1, <3>1, <4>1 DEF Search, Layout, Laid, lists, extents
    <3> QED
      BY <1>1, <3>2 DEF LayoutSound, Search, lists
  <2>2. Accounted'
    BY <1>0, <1>1 DEF Search, Accounted, lists, extents
  <2>3. MemoryTyped'
    BY <1>0, <1>1 DEF Search, MemoryTyped, NoResult, Result
  <2> QED
    BY <2>1, <2>2, <2>3 DEF DataInv
<1>2. ASSUME NEW v \in Values, NEW limit \in ItemLimits, PutOversize(v, limit) PROVE DataInv'
  <2>1. LayoutSound'
    BY <1>0, <1>2, LayoutOnReturn DEF PutOversize, Return, lists, extents
  <2>2. Accounted'
    BY <1>0, <1>2 DEF PutOversize, Return, Accounted, lists, extents
  <2>3. MemoryTyped'
    BY <1>0, <1>2, ReturnTyped DEF PutOversize
  <2> QED
    BY <2>1, <2>2, <2>3 DEF DataInv
<1>3. ASSUME Clear PROVE DataInv'
  <2>1. LayoutSound'
    <3>1. Layout([s \in {} |-> 0], [s \in {} |-> 0], {})'
      BY <1>3 DEF Clear, Return, Layout, Ahead, Laid
    <3>2. [s \in {} |-> 0] \in [{} -> Keys] /\ [s \in {} |-> 0] \in [{} -> Values]
      OBVIOUS
    <3> QED
      BY <1>3, <3>1, <3>2 DEF LayoutSound, Clear
  <2>2. Accounted'
    BY <1>3, ArenaAssumption, TotalEmpty DEF Clear, Return, Accounted, ArenaAssumption
  <2>3. MemoryTyped'
    BY <1>0, <1>3, ReturnTyped DEF Clear
  <2> QED
    BY <2>1, <2>2, <2>3 DEF DataInv
<1>4. ASSUME NEW k \in Keys, CallGet(k) \/ CallDelete(k) PROVE DataInv'
  BY <1>1, <1>4 DEF CallGet, CallDelete
<1>5. ASSUME NEW k \in Keys, NEW v \in Values, NEW limit \in ItemLimits, CallPut(k, v, limit)
      PROVE  DataInv'
  BY <1>1, <1>5 DEF CallPut
<1> QED
  BY <1>2, <1>3, <1>4, <1>5 DEF Call

(* Reading an entry through its extent. *)
LEMMA EntryReads ==
    ASSUME Sound, MemoryTyped, NEW cells, NEW S \in SUBSET active, NEW bound \in Nat,
           NEW keyOf \in [active -> Keys], NEW valOf \in [active -> Values],
           Laid(cells, S, bound, keyOf, valOf), NEW s \in S
    PROVE  /\ cells[off[s]] = [key |-> keyOf[s], val |-> valOf[s]]
           /\ cells[off[s] + len[s] - 1] = [key |-> keyOf[s], val |-> valOf[s]]
           /\ keyOf[s] \in Keys /\ valOf[s] \in Values
           /\ cells[off[s]] # Blank
<1>1. keyOf[s] \in Keys /\ valOf[s] \in Values /\ off[s] \in Nat
  BY ExtentTypes
<1>2. len[s] \in Nat /\ len[s] >= 1
  BY <1>1, WeightPositive DEF Laid
<1>3. /\ off[s] \in off[s]..(off[s] + len[s] - 1)
      /\ off[s] + len[s] - 1 \in off[s]..(off[s] + len[s] - 1)
  BY <1>1, <1>2
<1>4. /\ cells[off[s]] = [key |-> keyOf[s], val |-> valOf[s]]
      /\ cells[off[s] + len[s] - 1] = [key |-> keyOf[s], val |-> valOf[s]]
  BY <1>3 DEF Laid
<1>5. [key |-> keyOf[s], val |-> valOf[s]] # Blank
  BY <1>1, BlankAssumption DEF BlankAssumption
<1> QED
  BY <1>1, <1>4, <1>5

(* The walk leaves behind only entries under other keys: two slots with equal
   hashes are told apart by the stored key. *)
LEMMA LookupData == IInv /\ DataInv /\ Lookup => DataInv'
<1> SUFFICES ASSUME IInv, DataInv, Lookup PROVE DataInv'
  OBVIOUS
<1>0. Sound /\ OpSound /\ LayoutSound /\ Accounted /\ MemoryTyped
  BY DEF IInv, DataInv
<1>1. PICK keyOf \in [active -> Keys], valOf \in [active -> Values], todo \in SUBSET active :
             Layout(keyOf, valOf, todo)
  BY <1>0 DEF LayoutSound
<1>2. CASE SearchStep
  <2>1. PICK rest \in SUBSET todo : rest = todo \ {cur}
    OBVIOUS
  <2>2. cur \in todo /\ \E m \in 0..Capacity : Chain(rest, next[cur], next, m)
    <3>1. PICK m \in 0..Capacity : Chain(todo, cur, next, m)
      BY <1>1, <1>2 DEF SearchStep, Layout, Ahead
    <3>2. Nil \notin todo /\ m \in Nat /\ m - 1 < Capacity /\ Capacity \in Nat /\ cur # Nil
      BY <1>0, <1>2, NilNoSlot, CapacityAssumption
      DEF Sound, LinksTypeOK, CapacityAssumption, SearchStep
    <3>3. cur \in todo /\ m > 0 /\ Chain(todo \ {cur}, next[cur], next, m - 1)
      BY <3>1, <3>2, ChainPop
    <3> QED
      BY <2>1, <3>2, <3>3
  <2>3. Laid(arena, active, allocPtr, keyOf, valOf)
    BY <1>1, <1>2 DEF SearchStep, Layout
  <2>4. keyOf[cur] # op.key
    <3>1. cur \in active /\ allocPtr \in Nat
      BY <1>0, <2>2 DEF Sound, LinksTypeOK
    <3>2. arena[off[cur]] = [key |-> keyOf[cur], val |-> valOf[cur]] /\ arena[off[cur]] # Blank
      BY <1>0, <2>3, <3>1, EntryReads
    <3>3. arena[off[cur]].key = keyOf[cur] /\ hash[cur] = Hash[keyOf[cur]]
      BY <2>3, <3>1, <3>2 DEF Laid
    <3> QED
      BY <1>2, <3>1, <3>2, <3>3 DEF SearchStep, Matches
  <2>5. Ahead(rest)'
    BY <1>2, <2>2 DEF SearchStep, Ahead, lists
  <2>6. \A s \in active \ rest : keyOf[s] # op.key
    BY <1>1, <1>2, <2>1, <2>4 DEF SearchStep, Layout
  <2>7. Layout(keyOf, valOf, rest)'
    BY <1>1, <1>2, <2>3, <2>5, <2>6 DEF SearchStep, Layout, Laid, lists, extents
  <2>8. LayoutSound'
    BY <1>2, <2>7 DEF LayoutSound, SearchStep, lists
  <2>9. Accounted' /\ MemoryTyped'
    BY <1>0, <1>2 DEF SearchStep, Accounted, MemoryTyped, lists, extents
  <2> QED
    BY <2>8, <2>9 DEF DataInv
<1>3. CASE GetHit \/ PutExisting
  <2>1. /\ pc = "search" /\ pc' = "idle" /\ cur \in active /\ newPtr' = 0
        /\ UNCHANGED <<size, active, totalBytes, allocPtr, extents, arena>>
    BY <1>0, <1>3 DEF GetHit, PutExisting, Found, Return, OpSound
  <2>2. LayoutSound'
    BY <1>0, <2>1, LayoutOnReturn DEF extents
  <2>3. Accounted'
    BY <1>0, <2>1 DEF Accounted, extents
  <2>4. arena[off[cur] + len[cur] - 1].val \in Values
    <3>1. Laid(arena, active, allocPtr, keyOf, valOf) /\ allocPtr \in Nat
      BY <1>0, <1>1, <2>1 DEF Layout, Sound, LinksTypeOK
    <3>2. /\ arena[off[cur] + len[cur] - 1] = [key |-> keyOf[cur], val |-> valOf[cur]]
          /\ valOf[cur] \in Values
      BY <1>0, <2>1, <3>1, EntryReads
    <3> QED
      BY <3>2
  <2>5. MemoryTyped'
    <3>1. CASE GetHit
      BY <1>0, <2>1, <2>4, <3>1, ReturnTyped DEF GetHit
    <3>2. CASE PutExisting
      BY <1>0, <2>1, <3>2, ReturnTyped DEF PutExisting
    <3> QED
      BY <1>3, <3>1, <3>2
  <2> QED
    BY <2>2, <2>3, <2>5 DEF DataInv
<1>4. CASE GetMiss \/ DeleteMiss
  <2>1. /\ pc = "search" /\ pc' = "idle" /\ newPtr' = 0
        /\ UNCHANGED <<lists, totalBytes, allocPtr, extents, arena>>
    BY <1>4 DEF GetMiss, DeleteMiss, Absent, Return
  <2>2. LayoutSound'
    BY <1>0, <2>1, LayoutOnReturn DEF extents, lists
  <2>3. Accounted'
    BY <1>0, <2>1 DEF Accounted, extents, lists
  <2>4. MemoryTyped'
    BY <1>0, <1>4, <2>1, ReturnTyped DEF GetMiss, DeleteMiss
  <2> QED
    BY <2>2, <2>3, <2>4 DEF DataInv
<1>5. CASE DeleteFound
  <2>1. /\ pc = "search" /\ pc' = "idle" /\ cur \in active /\ newPtr' = 0
        /\ active' = active \ {cur} /\ totalBytes' = Floor0(totalBytes - len[cur])
        /\ UNCHANGED <<allocPtr, off, len, hash, arena>>
    BY <1>0, <1>5 DEF DeleteFound, Found, Unlink, Return, OpSound, extents
  <2>2. PICK k \in [active' -> Keys], v \in [active' -> Values] :
              /\ \A s, t \in active' : k[s] = k[t] => s = t
              /\ Laid(arena, active, allocPtr, k, v)'
    BY <1>0, <2>1, LayoutShrinks
  <2>3. Layout(k, v, active)'
    BY <2>1, <2>2 DEF Layout, Ahead
  <2>4. LayoutSound'
    BY <2>3 DEF LayoutSound
  <2>5. Accounted'
    <3>1. totalBytes' = Total(len', active') /\ totalBytes' \in Nat /\ totalBytes' <= totalBytes
      BY <1>0, <2>1, AccountShrinks
    <3>2. totalBytes \in Nat /\ allocPtr \in Nat
      BY <1>0 DEF Sound, LinksTypeOK
    <3>3. totalBytes' <= allocPtr'
      BY <1>0, <2>1, <3>1, <3>2 DEF Accounted
    <3> QED
      BY <1>0, <2>1, <3>1, <3>3 DEF Accounted
  <2>6. MemoryTyped'
    BY <1>0, <1>5, <2>1, ReturnTyped DEF DeleteFound
  <2> QED
    BY <2>4, <2>5, <2>6 DEF DataInv
<1>6. CASE PutAbsent
  <2>1. /\ pc = "search" /\ cur = Nil /\ pc' = "evict" /\ op.kind = "put"
        /\ UNCHANGED <<lists, totalBytes, allocPtr, extents, arena, op, locals, ret>>
    BY <1>6 DEF PutAbsent, Absent
  <2>2. todo = {}
    <3>1. PICK m \in 0..Capacity : Chain(todo, cur, next, m)
      BY <1>1, <2>1 DEF Layout, Ahead
    <3>2. Nil \notin todo /\ m \in Nat
      BY <1>0, NilNoSlot DEF Sound, LinksTypeOK
    <3> QED
      BY <2>1, <3>1, <3>2, ChainFirst
  <2>3. Layout(keyOf, valOf, active)'
    BY <1>1, <2>1, <2>2 DEF Layout, Ahead, Laid, lists, extents
  <2>4. LayoutSound'
    BY <2>1, <2>3 DEF LayoutSound, lists
  <2>5. Accounted' /\ MemoryTyped'
    BY <1>0, <2>1 DEF Accounted, MemoryTyped, lists, extents, locals
  <2> QED
    BY <2>4, <2>5 DEF DataInv
<1> QED
  BY <1>2, <1>3, <1>4, <1>5, <1>6 DEF Lookup

(* What a compaction copies lies inside the arena. *)
LEMMA CopiedCells ==
    ASSUME Sound, LayoutSound, Accounted, MemoryTyped, CompactStep,
           NEW i \in newPtr..(newPtr + len[cur] - 1)
    PROVE  arena[off[cur] + (i - newPtr)] \in Cell
<1>1. PICK keyOf \in [active -> Keys], valOf \in [active -> Values], todo \in SUBSET active :
             Layout(keyOf, valOf, todo)
  BY DEF LayoutSound
<1>2. cur \in todo
  <2>1. PICK m \in 0..Capacity : Chain(todo, cur, next, m)
    BY <1>1 DEF Layout, Ahead, CompactStep
  <2>2. Nil \notin todo /\ m \in Nat /\ cur # Nil
    BY NilNoSlot DEF Sound, LinksTypeOK, CompactStep
  <2> QED
    BY <2>1, <2>2, ChainPop
<1>3. off[cur] + len[cur] <= allocPtr /\ allocPtr <= ArenaSize
  BY <1>1, <1>2 DEF Layout, Laid, CompactStep, Accounted
<1>4. off[cur] \in Nat /\ len[cur] \in Nat /\ newPtr \in Nat /\ allocPtr \in Nat /\ ArenaSize \in Nat
  BY <1>2, ExtentTypes, ArenaAssumption DEF ArenaAssumption
<1>5. off[cur] + (i - newPtr) \in Offsets
  BY <1>3, <1>4 DEF Offsets
<1> QED
  BY <1>5 DEF MemoryTyped

(* Evictions take entries off the account; compaction moves them. *)
LEMMA MakeRoomData == IInv /\ DataInv /\ MakeRoom => DataInv'
<1> SUFFICES ASSUME IInv, DataInv, MakeRoom PROVE DataInv'
  OBVIOUS
<1>0. Sound /\ OpSound /\ LayoutSound /\ Accounted /\ MemoryTyped
  BY DEF IInv, DataInv
<1>1. CASE EvictForEntries \/ EvictForBytes \/ EvictForArena
  <2>1. /\ tail # Nil /\ EvictTail /\ pc \in {"evict", "fit"}
        /\ UNCHANGED <<off, len, hash, allocPtr, arena, newPtr, temp, op, ret>>
    BY <1>1 DEF EvictForEntries, EvictForBytes, EvictForArena, NoSlotLeft, OverBudget, extents, locals
  <2>2. tail \in active
    BY <1>0, <2>1 DEF Sound, RecencySound, LinkedList
  <2>3. active' = active \ {tail} /\ totalBytes' = Floor0(totalBytes - len[tail])
    BY <2>1 DEF EvictTail
  <2>4. PICK k \in [active' -> Keys], v \in [active' -> Values] :
              /\ \A s, t \in active' : k[s] = k[t] => s = t
              /\ \A s \in active' : k[s] # op.key
              /\ Laid(arena, active, allocPtr, k, v)'
    BY <1>0, <2>1, <2>2, <2>3, LayoutShrinks
  <2>5. totalBytes' = Total(len', active') /\ totalBytes' \in Nat /\ totalBytes' <= totalBytes
    BY <1>0, <2>1, <2>2, <2>3, AccountShrinks
  <2>6. totalBytes' <= allocPtr' /\ allocPtr' <= ArenaSize
    <3>1. totalBytes \in Nat /\ allocPtr \in Nat
      BY <1>0 DEF Sound, LinksTypeOK
    <3> QED
      BY <1>0, <2>1, <2>5, <3>1 DEF Accounted
  <2>7. \/ pc = "evict" /\ pc' = "evict"
        \/ pc = "fit" /\ pc' = "compact" /\ cur' = head'
    BY <1>1 DEF EvictForEntries, EvictForBytes, EvictForArena
  <2>8. newPtr' = 0
    BY <1>0, <2>1 DEF Accounted
  <2>9. Layout(k, v, active)'
    <3>1. Ahead(active)'
      <4>1. IInv'
        BY MakeRoomPreserves
      <4>2. RecencySound' /\ LinksTypeOK'
        BY <4>1 DEF IInv, Sound
      <4> QED
        BY <2>7, <4>2 DEF Ahead, RecencySound, LinkedList, LinksTypeOK
    <3>2. ASSUME pc' = "compact"
          PROVE  /\ Laid(temp, active \ active, newPtr, k, v)'
                 /\ (newPtr + Total(len, active) = totalBytes)'
      BY <2>5, <2>8 DEF Laid
    <3> QED
      BY <2>1, <2>4, <2>7, <3>1, <3>2 DEF Layout
  <2>10. LayoutSound'
    BY <2>9 DEF LayoutSound
  <2>11. Accounted'
    BY <2>5, <2>6, <2>7, <2>8 DEF Accounted
  <2>12. MemoryTyped'
    BY <1>0, <2>1, <2>7 DEF MemoryTyped
  <2> QED
    BY <2>10, <2>11, <2>12 DEF DataInv
<1>2. CASE CompactStart
  <2>1. PICK keyOf \in [active -> Keys], valOf \in [active -> Values], todo \in SUBSET active :
               Layout(keyOf, valOf, todo)
    BY <1>0 DEF LayoutSound
  <2>2. /\ pc = "evict" /\ pc' = "compact" /\ cur' = head
        /\ UNCHANGED <<lists, totalBytes, allocPtr, extents, arena, op, newPtr, temp, ret>>
    BY <1>2 DEF CompactStart
  <2>3. Ahead(active)'
    BY <1>0, <2>2, WalkStarts DEF Ahead, lists
  <2>4. newPtr = 0 /\ totalBytes \in Nat /\ totalBytes = Total(len, active)
    BY <1>0, <2>2 DEF Accounted, Sound, LinksTypeOK
  <2>5. (newPtr + Total(len, active) = totalBytes)'
    BY <2>2, <2>4 DEF lists, extents
  <2>6. Layout(keyOf, valOf, active)'
    BY <2>1, <2>2, <2>3, <2>5 DEF Layout, Laid, lists, extents
  <2>7. LayoutSound'
    BY <2>2, <2>6 DEF LayoutSound, lists
  <2>8. Accounted' /\ MemoryTyped'
    BY <1>0, <2>2 DEF Accounted, MemoryTyped, lists, extents
  <2> QED
    BY <2>7, <2>8 DEF DataInv
<1>3. CASE CompactStep
  <2>1. LayoutSound'
    BY <1>0, <1>3, LayoutCompacts
  <2>2. Accounted'
    BY <1>0, <1>3 DEF CompactStep, Accounted, lists
  <2>3. MemoryTyped'
    <3>1. temp' \in [Offsets -> Cell]
      <4>1. \A i \in newPtr..(newPtr + len[cur] - 1) : arena[off[cur] + (i - newPtr)] \in Cell
        BY <1>0, <1>3, CopiedCells
      <4> QED
        BY <1>0, <1>3, <4>1 DEF CompactStep, MemoryTyped
    <3> QED
      BY <1>0, <1>3, <3>1 DEF CompactStep, MemoryTyped
  <2> QED
    BY <2>1, <2>2, <2>3 DEF DataInv
<1>4. CASE CompactEnd
  <2>1. LayoutSound' /\ newPtr = totalBytes
    BY <1>0, <1>4, LayoutCopiedBack
  <2>2. Accounted'
    <3>1. totalBytes \in Nat /\ allocPtr \in Nat /\ ArenaSize \in Nat
      BY <1>0, ArenaAssumption DEF Sound, LinksTypeOK, ArenaAssumption
    <3>2. totalBytes = Total(len, active) /\ totalBytes <= ArenaSize
      BY <1>0, <3>1 DEF Accounted
    <3>3. /\ totalBytes' = totalBytes /\ len' = len /\ active' = active
          /\ allocPtr' = totalBytes /\ newPtr' = 0
      BY <1>4, <2>1 DEF CompactEnd, lists, extents
    <3> QED
      BY <3>1, <3>2, <3>3 DEF Accounted
  <2>3. MemoryTyped'
    BY <1>0, <1>4 DEF CompactEnd, MemoryTyped, EmptyArena, Cell
  <2> QED
    BY <2>1, <2>2, <2>3 DEF DataInv
<1> QED
  BY <1>1, <1>2, <1>3, <1>4 DEF MakeRoom

(* The new entry is put on the account and behind the others. *)
LEMMA FinishData == IInv /\ DataInv /\ Finish => DataInv'
<1> SUFFICES ASSUME IInv, DataInv, Finish PROVE DataInv'
  OBVIOUS
<1>0. Sound /\ OpSound /\ LayoutSound /\ Accounted /\ MemoryTyped
  BY DEF IInv, DataInv
<1>1. ASSUME pc \in {"evict", "fit"}, UNCHANGED <<lists, totalBytes, allocPtr, extents, arena>>,
             Return("put", FALSE, NoValue)
      PROVE  DataInv'
  <2>1. LayoutSound'
    BY <1>0, <1>1, LayoutOnReturn DEF Return, lists, extents
  <2>2. Accounted'
    BY <1>0, <1>1 DEF Return, Accounted, lists, extents
  <2>3. MemoryTyped'
    BY <1>0, <1>1, ReturnTyped
  <2> QED
    BY <2>1, <2>2, <2>3 DEF DataInv
<1>2. CASE PutCannotFit
  BY <1>1, <1>2 DEF PutCannotFit
<1>3. CASE PutWrite /\ freeHead = Nil
  BY <1>1, <1>3 DEF PutWrite, ReadyToWrite
<1>4. CASE PutWrite /\ freeHead # Nil
  <2>1. op.val \in Values /\ op.key \in Keys /\ pc \in {"evict", "fit"} /\ ~NoRoom
    BY <1>4, ReadyBelowCapacity DEF PutWrite, ReadyToWrite
  <2>2. freeHead \in Slots /\ freeHead \notin active
    <3>1. Nil \notin Slots \ active /\ Capacity - size \in Nat
      BY <1>0, NilNoSlot, CapacityAssumption DEF CapacityAssumption, Sound, LinksTypeOK
    <3>2. Chain(Slots \ active, freeHead, freeNext, Capacity - size)
      BY <1>0 DEF Sound, FreeSound
    <3> QED
      BY <1>4, <3>1, <3>2, ChainPop
  <2>3. /\ active' = active \cup {freeHead} /\ totalBytes' = totalBytes + Need
        /\ off' = [off EXCEPT ![freeHead] = allocPtr]
        /\ len' = [len EXCEPT ![freeHead] = Need]
        /\ hash' = [hash EXCEPT ![freeHead] = Hash[op.key]]
        /\ allocPtr' = allocPtr + Need
        /\ Return("put", TRUE, NoValue)
    BY <1>4 DEF PutWrite, LinkFresh
  <2>4. arena' = [i \in Offsets |-> IF i \in allocPtr..(allocPtr + Need - 1)
                                    THEN [key |-> op.key, val |-> op.val] ELSE arena[i]]
    BY <1>4 DEF PutWrite
  <2>5. LayoutSound'
    BY <1>0, <2>1, <2>2, <2>3, <2>4, LayoutGrows DEF Return
  <2>6. Accounted'
    <3>1. /\ Need \in Nat /\ totalBytes \in Nat /\ allocPtr \in Nat /\ ArenaSize \in Nat
          /\ len \in [Slots -> Nat] /\ active \subseteq Slots
      BY <1>0, <2>1, WeightPositive, ArenaAssumption
      DEF Need, Sound, LinksTypeOK, ArenaAssumption
    <3>2. len'[freeHead] = Need /\ \A s \in active : len'[s] = len[s]
      BY <2>2, <2>3, <3>1
    <3>3. Summable(len, active) /\ IsFiniteSet(active)
      BY <1>0, LengthsSum
    <3>4. Summable(len', active') /\ Summable(len', active)
      BY <2>3, <3>1, <3>2, <3>3, FS_AddElement DEF Summable
    <3>5. Total(len', active') = Need + Total(len', active)
      <4>1. freeHead \in active' /\ active' \ {freeHead} = active
        BY <2>2, <2>3
      <4> QED
        BY <3>2, <3>4, <4>1, TotalRemove
    <3>6. Total(len', active) = Total(len, active)
      BY <3>2, <3>3, TotalAgree
    <3>7. totalBytes' = Total(len', active')
      BY <1>0, <2>3, <3>1, <3>5, <3>6 DEF Accounted
    <3>8. totalBytes' <= allocPtr' /\ allocPtr' <= ArenaSize
      BY <1>0, <2>1, <2>3, <3>1 DEF Accounted, NoRoom
    <3>9. pc' = "idle" /\ newPtr' = 0
      BY <2>3 DEF Return
    <3> QED
      BY <3>7, <3>8, <3>9 DEF Accounted
  <2>7. MemoryTyped'
    <3>1. [key |-> op.key, val |-> op.val] \in Cell
      BY <2>1 DEF Cell
    <3>2. arena' \in [Offsets -> Cell]
      BY <1>0, <2>4, <3>1 DEF MemoryTyped
    <3> QED
      BY <2>3, <3>2 DEF MemoryTyped, Return, Result, EmptyArena, Cell
  <2> QED
    BY <2>5, <2>6, <2>7 DEF DataInv
<1> QED
  BY <1>2, <1>3, <1>4 DEF Finish

(* A step that changes nothing. *)
LEMMA StutterData == DataInv /\ UNCHANGED vars => DataInv'
<1> SUFFICES ASSUME DataInv, UNCHANGED vars PROVE DataInv'
  OBVIOUS
<1>1. PICK keyOf \in [active -> Keys], valOf \in [active -> Values], todo \in SUBSET active :
             Layout(keyOf, valOf, todo)
  BY DEF DataInv, LayoutSound
<1>2. Layout(keyOf, valOf, todo)'
  BY <1>1 DEF Layout, Ahead, Laid, vars, lists, extents, locals
<1>3. LayoutSound'
  BY <1>2 DEF LayoutSound, vars, lists
<1>4. Accounted' /\ MemoryTyped'
  BY DEF DataInv, Accounted, MemoryTyped, vars, lists, extents, locals
<1> QED
  BY <1>3, <1>4 DEF DataInv

(* The data stay sound. *)
LEMMA DataInvariance == Spec => []DataInv
<1>1. IInv /\ DataInv /\ [Next]_vars => DataInv'
  BY CallData, LookupData, MakeRoomData, FinishData, StutterData DEF Next, Step
<1> QED
  BY <1>1, DataInit, Invariance, PTL DEF Spec

-----------------------------------------------------------------------------
(* Every word keeps its range; above all the bump pointer and the compaction
   pointer never leave the arena, and what a get returns was stored. *)
THEOREM TypeCorrect == Spec => []TypeOK
<1>1. IInv /\ DataInv => TypeOK
  <2> SUFFICES ASSUME IInv, DataInv PROVE TypeOK
    OBVIOUS
  <2>1. LinksTypeOK /\ Accounted /\ MemoryTyped /\ Sound
    BY DEF IInv, DataInv, Sound
  <2>2. allocPtr \in Nat /\ newPtr \in Nat /\ totalBytes \in Nat /\ ArenaSize \in Nat
    BY <2>1, ArenaAssumption DEF LinksTypeOK, ArenaAssumption
  <2>3. newPtr <= ArenaSize
    <3>1. CASE pc = "compact"
      <4>1. PICK keyOf \in [active -> Keys], valOf \in [active -> Values], todo \in SUBSET active :
                   Layout(keyOf, valOf, todo)
        BY DEF DataInv, LayoutSound
      <4>2. Total(len, todo) \in Nat
        <5>1. Summable(len, todo)
          BY <2>1, LengthsSum
        <5> QED
          BY <5>1, TotalRemove
      <4>3. newPtr + Total(len, todo) = totalBytes
        BY <3>1, <4>1 DEF Layout
      <4> QED
        BY <2>1, <2>2, <4>2, <4>3 DEF Accounted
    <3>2. CASE pc # "compact"
      BY <2>1, <2>2, <3>2 DEF Accounted
    <3> QED
      BY <3>1, <3>2
  <2>4. DataTypeOK
    BY <2>1, <2>3 DEF Accounted, MemoryTyped, DataTypeOK
  <2> QED
    BY <2>1, <2>4 DEF TypeOK
<1> QED
  BY <1>1, Invariance, DataInvariance, PTL

(* The byte account is exact at every step, whatever is evicted, deleted or
   stored: none of the places that floor it at zero ever does. *)
THEOREM BytesCorrect == Spec => []BytesAccounted
<1>1. DataInv => BytesAccounted
  BY DEF DataInv, Accounted, BytesAccounted, Total
<1> QED
  BY <1>1, DataInvariance, PTL

(* No two entries overlap and none reaches beyond the bump pointer. *)
THEOREM ExtentsCorrect == Spec => []ExtentsDisjoint
<1>1. DataInv => ExtentsDisjoint
  BY DEF DataInv, LayoutSound, Layout, Laid, ExtentsDisjoint
<1> QED
  BY <1>1, DataInvariance, PTL

(* Every entry reads back whole, under its own key, and no key is stored
   twice: neither a later put nor a compaction damages an entry. *)
THEOREM EntriesCorrect == Spec => []EntriesIntact
<1>1. IInv /\ DataInv => EntriesIntact
  <2> SUFFICES ASSUME IInv, DataInv, pc # "compact" PROVE EntriesIntact
    BY DEF EntriesIntact
  <2>1. Sound /\ MemoryTyped /\ allocPtr \in Nat
    BY DEF IInv, DataInv, Sound, LinksTypeOK
  <2>2. PICK keyOf \in [active -> Keys], valOf \in [active -> Values], todo \in SUBSET active :
               Layout(keyOf, valOf, todo)
    BY DEF DataInv, LayoutSound
  <2>3. Laid(arena, active, allocPtr, keyOf, valOf)
    BY <2>2 DEF Layout
  <2>4. ASSUME NEW s \in active
        PROVE  \E k \in Keys, v \in Values :
                  /\ hash[s] = Hash[k] /\ len[s] = Weight[v]
                  /\ \A i \in off[s]..(off[s] + len[s] - 1) : arena[i] = [key |-> k, val |-> v]
    <3>1. keyOf[s] \in Keys /\ valOf[s] \in Values
      OBVIOUS
    <3> QED
      BY <2>3, <3>1 DEF Laid
  <2>5. \A s \in active : arena[off[s]].key = keyOf[s]
    <3> SUFFICES ASSUME NEW s \in active PROVE arena[off[s]].key = keyOf[s]
      OBVIOUS
    <3>1. arena[off[s]] = [key |-> keyOf[s], val |-> valOf[s]]
      BY <2>1, <2>3, EntryReads
    <3> QED
      BY <3>1
  <2>6. \A s, t \in active : arena[off[s]].key = arena[off[t]].key => s = t
    BY <2>2, <2>5 DEF Layout
  <2> QED
    BY <2>4, <2>6 DEF EntriesIntact
<1> QED
  BY <1>1, Invariance, DataInvariance, PTL

-----------------------------------------------------------------------------
(* The budget, and what is refused or evicted for the arena. *)

(* n bytes are within the budget, or are those of one entry that some handle
   lets pass: a limit above the budget is not refused by the configuration. *)
Within(n) == n <= MaxTotalBytes \/ \E limit \in ItemLimits : n <= limit

(* The entry of a put passed the item limit of its handle, and once the put
   compacts, the account has room for it. *)
BInv ==
    /\ Within(totalBytes)
    /\ pc # "idle" /\ op.kind = "put" => \E limit \in ItemLimits : Need <= limit
    /\ pc \in {"compact", "fit"} => Within(totalBytes + Need)

(* An empty list has an empty account. *)
LEMMA EmptyAccount == Sound /\ Accounted /\ (size = 0 \/ tail = Nil) => totalBytes = 0
<1> SUFFICES ASSUME Sound, Accounted, size = 0 \/ tail = Nil PROVE totalBytes = 0
  OBVIOUS
<1>1. Nil \notin active /\ size \in Nat /\ size = 0
  BY HeadActive, NilNoSlot, CapacityAssumption DEF CapacityAssumption, Sound, LinksTypeOK
<1>2. Chain(active, head, next, size)
  BY DEF Sound, RecencySound, LinkedList
<1>3. active = {}
  BY <1>1, <1>2, ChainFirst
<1> QED
  BY <1>3, TotalEmpty DEF Accounted

(* Fewer bytes are within the budget too. *)
LEMMA WithinLess ==
    ASSUME NEW m \in Nat, NEW n \in Nat, m <= n, Within(n)
    PROVE  Within(m)
<1>1. MaxTotalBytes \in Nat /\ ItemLimits \subseteq Nat
  BY BudgetAssumption DEF BudgetAssumption
<1>2. CASE n <= MaxTotalBytes
  BY <1>1, <1>2 DEF Within
<1>3. ASSUME NEW limit \in ItemLimits, n <= limit PROVE Within(m)
  BY <1>1, <1>3 DEF Within
<1> QED
  BY <1>2, <1>3 DEF Within

(* Evicting an entry frees budget. *)
LEMMA EvictionFrees ==
    ASSUME Sound, Accounted, tail # Nil, EvictTail, len' = len
    PROVE  totalBytes' \in Nat /\ totalBytes' <= totalBytes
<1>1. tail \in active
  BY DEF Sound, RecencySound, LinkedList
<1>2. active' = active \ {tail} /\ totalBytes' = Floor0(totalBytes - len[tail])
  BY DEF EvictTail
<1> QED
  BY <1>1, <1>2, AccountShrinks

(* When no more has to be evicted for the budget the new entry is within it:
   either the sum is, or nothing is left and the entry passed its limit. *)
LEMMA RoomInBudget ==
    ASSUME Sound, Accounted, BInv, pc = "evict", op.kind = "put", ~OverBudget, Need \in Nat
    PROVE  Within(totalBytes + Need)
<1>1. totalBytes \in Nat /\ MaxTotalBytes \in Nat /\ size \in 0..Capacity /\ Capacity \in Nat
  BY BudgetAssumption, CapacityAssumption
  DEF BudgetAssumption, CapacityAssumption, Sound, LinksTypeOK
<1>2. CASE totalBytes + Need <= MaxTotalBytes
  BY <1>2 DEF Within
<1>3. CASE size = 0 \/ tail = Nil
  <2>1. totalBytes + Need = Need
    BY <1>3, EmptyAccount
  <2>2. \E limit \in ItemLimits : Need <= limit
    BY DEF BInv
  <2> QED
    BY <2>1, <2>2 DEF Within
<1>4. totalBytes + Need <= MaxTotalBytes \/ size = 0 \/ tail = Nil
  BY <1>1 DEF OverBudget
<1> QED
  BY <1>2, <1>3, <1>4

(* An empty buffer is within any budget. *)
LEMMA BudgetInit == Init => BInv
BY BudgetAssumption DEF Init, BInv, Within, BudgetAssumption, NoOp

(* Every step stays within the budget. *)
LEMMA BudgetStep == IInv /\ DataInv /\ BInv /\ [Next]_vars => BInv'
<1> SUFFICES ASSUME IInv, DataInv, BInv, [Next]_vars PROVE BInv'
  OBVIOUS
<1>0. Sound /\ OpSound /\ Accounted /\ MemoryTyped
  BY DEF IInv, DataInv
<1>1. totalBytes \in Nat /\ len \in [Slots -> Nat] /\ active \subseteq Slots
  BY <1>0 DEF Sound, LinksTypeOK
(* An operation that returns with no more bytes than it found. *)
<1>2. ASSUME pc' = "idle", totalBytes' \in Nat, totalBytes' <= totalBytes PROVE BInv'
  BY <1>1, <1>2, WithinLess DEF BInv, Within
<1>3. ASSUME Call PROVE BInv'
  <2>1. ASSUME NEW kind, NEW k \in Keys, NEW v, Search(kind, k, v),
               kind = "put" => \E limit \in ItemLimits : Weight[v] <= limit
        PROVE  BInv'
    BY <2>1 DEF Search, BInv, Within, Need
  <2>2. ASSUME NEW k \in Keys, CallGet(k) \/ CallDelete(k) PROVE BInv'
    BY <2>1, <2>2 DEF CallGet, CallDelete
  <2>3. ASSUME NEW k \in Keys, NEW v \in Values, NEW limit \in ItemLimits, CallPut(k, v, limit)
        PROVE  BInv'
    BY <2>1, <2>3 DEF CallPut
  <2>4. ASSUME NEW v \in Values, NEW limit \in ItemLimits, PutOversize(v, limit) PROVE BInv'
    BY <1>1, <1>2, <2>4 DEF PutOversize, Return
  <2>5. ASSUME Clear PROVE BInv'
    BY <1>1, <1>2, <2>5 DEF Clear, Return
  <2> QED
    BY <1>3, <2>2, <2>3, <2>4, <2>5 DEF Call
<1>4. ASSUME Lookup PROVE BInv'
  <2>1. CASE SearchStep
    BY <2>1 DEF SearchStep, BInv, Within, Need
  <2>2. CASE GetHit \/ GetMiss \/ DeleteMiss \/ PutExisting
    <3>1. pc' = "idle" /\ totalBytes' = totalBytes
      BY <2>2 DEF GetHit, GetMiss, DeleteMiss, PutExisting, Return
    <3> QED
      BY <1>1, <1>2, <3>1
  <2>3. CASE DeleteFound
    <3>1. cur \in active
      BY <1>0, <2>3 DEF DeleteFound, Found, OpSound
    <3>2. /\ active' = active \ {cur} /\ len' = len /\ pc' = "idle"
          /\ totalBytes' = Floor0(totalBytes - len[cur])
      BY <2>3 DEF DeleteFound, Unlink, Return, extents
    <3>3. totalBytes' \in Nat /\ totalBytes' <= totalBytes
      BY <1>0, <3>1, <3>2, AccountShrinks
    <3> QED
      BY <1>2, <3>2, <3>3
  <2>4. CASE PutAbsent
    BY <2>4 DEF PutAbsent, Absent, BInv, Within, Need
  <2> QED
    BY <1>4, <2>1, <2>2, <2>3, <2>4 DEF Lookup
<1>5. ASSUME MakeRoom PROVE BInv'
  <2>1. pc \in {"evict", "compact", "fit"} /\ op' = op
    BY <1>5 DEF MakeRoom, EvictForEntries, EvictForBytes, EvictForArena,
                CompactStart, CompactStep, CompactEnd
  <2>2. op.kind = "put" /\ op.val \in Values /\ Need \in Nat /\ Need' = Need
    BY <1>0, <2>1, WeightPositive DEF MemoryTyped, OpSound, Need
  <2>3. \E limit \in ItemLimits : Need <= limit
    BY <2>1, <2>2 DEF BInv
  <2>4. CASE EvictForEntries \/ EvictForBytes \/ EvictForArena
    <3>1. tail # Nil /\ EvictTail /\ len' = len
      BY <2>4 DEF EvictForEntries, EvictForBytes, EvictForArena, NoSlotLeft, OverBudget, extents
    <3>2. totalBytes' \in Nat /\ totalBytes' <= totalBytes
      BY <1>0, <3>1, EvictionFrees
    <3>3. Within(totalBytes')
      BY <1>1, <3>2, WithinLess DEF BInv
    <3>4. ASSUME pc' \in {"compact", "fit"} PROVE Within(totalBytes' + Need)
      <4>1. pc = "fit"
        BY <2>4, <3>4 DEF EvictForEntries, EvictForBytes, EvictForArena
      <4>2. Within(totalBytes + Need)
        BY <4>1 DEF BInv
      <4>3. /\ totalBytes' + Need \in Nat /\ totalBytes + Need \in Nat
            /\ totalBytes' + Need <= totalBytes + Need
        <5>1. \A a, b, c \in Nat : a <= b => a + c \in Nat /\ b + c \in Nat /\ a + c <= b + c
          OBVIOUS
        <5>2. totalBytes \in Nat /\ totalBytes' \in Nat /\ Need \in Nat /\ totalBytes' <= totalBytes
          BY <1>1, <2>2, <3>2
        <5> QED
          BY <5>1, <5>2, Zenon
      <4> QED
        BY <4>2, <4>3, WithinLess
    <3> QED
      BY <2>2, <2>3, <3>3, <3>4 DEF BInv, Within
  <2>5. CASE CompactStart
    <3>1. pc = "evict" /\ ~OverBudget /\ totalBytes' = totalBytes
      BY <2>5 DEF CompactStart
    <3>2. Within(totalBytes + Need)
      BY <1>0, <2>2, <3>1, RoomInBudget
    <3> QED
      BY <2>2, <2>3, <3>1, <3>2 DEF BInv, Within
  <2>6. CASE CompactStep \/ CompactEnd
    <3>1. pc = "compact" /\ totalBytes' = totalBytes
      BY <2>6 DEF CompactStep, CompactEnd
    <3> QED
      BY <2>2, <2>3, <3>1 DEF BInv, Within
  <2> QED
    BY <1>5, <2>4, <2>5, <2>6 DEF MakeRoom
<1>6. ASSUME Finish PROVE BInv'
  <2>1. pc' = "idle"
    BY <1>6 DEF Finish, PutCannotFit, PutWrite, Return
  <2>2. CASE totalBytes' = totalBytes
    BY <1>1, <1>2, <2>1, <2>2
  <2>3. CASE totalBytes' # totalBytes
    <3>1. /\ ReadyToWrite /\ totalBytes' = totalBytes + Need
      BY <1>6, <2>3 DEF Finish, PutCannotFit, PutWrite, LinkFresh
    <3>2. pc \in {"evict", "fit"} /\ op.kind = "put" /\ op.val \in Values /\ Need \in Nat
      BY <1>0, <3>1, WeightPositive DEF ReadyToWrite, MemoryTyped, OpSound, Need
    <3>3. Within(totalBytes + Need)
      <4>1. CASE pc = "fit"
        BY <4>1 DEF BInv
      <4>2. CASE pc = "evict"
        BY <1>0, <3>1, <3>2, <4>2, RoomInBudget DEF ReadyToWrite
      <4> QED
        BY <3>2, <4>1, <4>2
    <3> QED
      BY <2>1, <3>1, <3>3 DEF BInv, Within
  <2> QED
    BY <2>2, <2>3
<1>7. ASSUME UNCHANGED vars PROVE BInv'
  BY <1>7 DEF vars, BInv, Within, Need
<1> QED
  BY <1>3, <1>4, <1>5, <1>6, <1>7 DEF Next, Step

(* The account is within the budget or is that of one entry that passed its
   limit, for any limits. *)
LEMMA BudgetInvariance == Spec => []BInv
<1> QED
  BY BudgetInit, BudgetStep, Invariance, DataInvariance, PTL DEF Spec

(* The memory budget, under the condition it needs: no handle takes entries
   bigger than the whole budget, as with the defaults of config.js. *)
THEOREM BudgetCorrect ==
    ASSUME \A limit \in ItemLimits : limit <= MaxTotalBytes
    PROVE  Spec => []BudgetHeld
<1>1. IInv /\ BInv => BudgetHeld
  <2> SUFFICES ASSUME IInv, BInv PROVE BudgetHeld
    OBVIOUS
  <2>1. totalBytes \in Nat /\ MaxTotalBytes \in Nat /\ ItemLimits \subseteq Nat
    BY BudgetAssumption DEF BudgetAssumption, IInv, Sound, LinksTypeOK
  <2>2. CASE totalBytes <= MaxTotalBytes
    BY <2>2 DEF BudgetHeld
  <2>3. ASSUME NEW limit \in ItemLimits, totalBytes <= limit PROVE BudgetHeld
    BY <2>1, <2>3 DEF BudgetHeld
  <2> QED
    BY <2>2, <2>3 DEF BInv, Within
<1> QED
  BY <1>1, Invariance, BudgetInvariance, PTL

(* Evicting for the arena comes last: right after a compaction the bump
   pointer is the byte account, so that an arena without room cannot hold
   both the entries and the new one. *)
THEOREM ArenaEvictionCorrect == Spec => ArenaEvictionNeeded
<1> DEFINE A == (pc = "fit" /\ active' # active /\ active' \subseteq active)
                    => totalBytes + Need > ArenaSize
<1>1. IInv /\ DataInv /\ [Next]_vars => [A]_vars
  <2> SUFFICES ASSUME IInv, DataInv, Next, pc = "fit", active' # active, active' \subseteq active
               PROVE  totalBytes + Need > ArenaSize
    OBVIOUS
  <2>0. Sound /\ OpSound /\ Accounted
    BY DEF IInv, DataInv
  <2>1. ~Call /\ ~Lookup
    BY DEF Call, CallGet, CallDelete, CallPut, Search, PutOversize, Clear, Lookup, SearchStep,
           GetHit, GetMiss, DeleteFound, DeleteMiss, PutExisting, PutAbsent, Found, Absent
  <2>2. CASE MakeRoom
    <3>1. NoRoom
      BY <2>2 DEF MakeRoom, EvictForEntries, EvictForBytes, EvictForArena,
                  CompactStart, CompactStep, CompactEnd
    <3>2. allocPtr = totalBytes
      BY <2>0 DEF Accounted
    <3> QED
      BY <3>1, <3>2 DEF NoRoom
  <2>3. CASE Finish
    <3>1. PutWrite /\ freeHead # Nil
      BY <2>3 DEF Finish, PutCannotFit, PutWrite, lists
    <3>2. active' = active \cup {freeHead}
      BY <3>1 DEF PutWrite, LinkFresh
    <3> QED
      BY <3>2
  <2> QED
    BY <2>1, <2>2, <2>3 DEF Next, Step
<1> QED
  BY <1>1, Invariance, DataInvariance, PTL DEF Spec, ArenaEvictionNeeded

(* A put that passed the item limit and could fit an empty arena is never
   refused: by the time nothing is left to evict, the arena is empty, and a
   slot is free whenever an entry is written. *)
THEOREM NeverRefusedCorrect == Spec => NeverRefused
<1> DEFINE A == (op.kind = "put" /\ Need <= ArenaSize /\ pc' = "idle") => ret'.ok
<1>1. IInv /\ DataInv /\ FreshSlot /\ [Next]_vars => [A]_vars
  <2> SUFFICES ASSUME IInv, DataInv, FreshSlot, Next, op.kind = "put", Need <= ArenaSize,
                      pc' = "idle"
               PROVE  ret'.ok
    OBVIOUS
  <2>0. Sound /\ OpSound /\ Accounted /\ MemoryTyped
    BY DEF IInv, DataInv
  <2>1. pc # "idle"
    BY <2>0 DEF MemoryTyped, NoOp
  <2>2. ~Call
    BY <2>1 DEF Call, CallGet, CallDelete, CallPut, Search, PutOversize, Clear
  <2>3. CASE Lookup
    <3>1. PutExisting
      BY <2>1, <2>3 DEF Lookup, SearchStep, GetHit, GetMiss, DeleteFound, DeleteMiss,
                        PutExisting, PutAbsent
    <3> QED
      BY <3>1 DEF PutExisting, Return, Result
  <2>4. ~MakeRoom
    BY <2>1 DEF MakeRoom, EvictForEntries, EvictForBytes, EvictForArena,
                CompactStart, CompactStep, CompactEnd
  <2>5. ~PutCannotFit
    <3> SUFFICES ASSUME PutCannotFit PROVE FALSE
      OBVIOUS
    <3>1. pc = "fit" /\ NoRoom /\ (size = 0 \/ tail = Nil)
      BY DEF PutCannotFit
    <3>2. op.val \in Values /\ Need \in Nat /\ ArenaSize \in Nat
      BY <2>0, <3>1, WeightPositive, ArenaAssumption DEF OpSound, Need, ArenaAssumption
    <3>3. allocPtr = 0
      BY <2>0, <3>1, EmptyAccount DEF Accounted
    <3> QED
      BY <3>1, <3>2, <3>3 DEF NoRoom
  <2>6. CASE PutWrite
    <3>1. freeHead # Nil
      BY <2>6 DEF FreshSlot, PutWrite
    <3> QED
      BY <2>6, <3>1 DEF PutWrite, Return, Result
  <2> QED
    BY <2>2, <2>3, <2>4, <2>5, <2>6 DEF Next, Step, Finish
<1> QED
  BY <1>1, Invariance, DataInvariance, FreshSlotCorrect, PTL DEF Spec, NeverRefused
-----------------------------------------------------------------------------
(* The lock.  Every operation above is one critical section of SharedMutex,
   whose state is the lock word and where each thread is in lockSync and
   unlock.  WordTellsOwner is the inductive part: that two threads are never
   inside follows from each of them being the one owner. *)

(* Every variable keeps its type: the lock word is 0 or 1, no clock runs
   past the timeout. *)
THEOREM LockTyped == LockSpec => []LockTypeOK
<1> USE WorkersAssumption, TimeoutAssumption, NoneAssumption
    DEF WorkersAssumption, TimeoutAssumption, NoneAssumption
<1>1. LockInit => LockTypeOK
  <2> SUFFICES ASSUME LockInit PROVE LockTypeOK
    OBVIOUS
  <2>1. elapsed \in [Threads -> 0..(Timeout + 1)]
    BY DEF LockInit
  <2>2. at \in [Threads -> {"idle", "try", "late", "wait", "asleep", "cs", "notify", "dead"}]
    BY DEF LockInit
  <2> QED
    BY <2>1, <2>2 DEF LockInit, LockTypeOK
<1>2. LockTypeOK /\ [LockNext]_lockVars => LockTypeOK'
  <2> SUFFICES ASSUME LockTypeOK, [LockNext]_lockVars PROVE LockTypeOK'
    OBVIOUS
  <2>1. CASE Tick
    BY <2>1 DEF Tick, Waiting, LockTypeOK
  <2>2. ASSUME NEW t \in Threads, LockSync(t) PROVE LockTypeOK'
    BY <2>2 DEF LockSync, Goto, LockTypeOK
  <2>3. ASSUME NEW t \in Threads, Acquire(t) \/ Busy(t) \/ SelfHeal(t)
        PROVE  LockTypeOK'
    BY <2>3 DEF Acquire, Busy, SelfHeal, Goto, LockTypeOK
  <2>4. ASSUME NEW t \in Threads, NotYet(t) \/ Wait(t) \/ WakeByTimeout(t)
        PROVE  LockTypeOK'
    BY <2>4 DEF NotYet, Wait, WakeByTimeout, Goto, LockTypeOK
  <2>5. ASSUME NEW t \in Threads, Unlock(t) \/ UnlockFree(t) PROVE LockTypeOK'
    BY <2>5 DEF Unlock, UnlockFree, Goto, LockTypeOK
  <2>6. ASSUME NEW t \in Threads, Notify(t) PROVE LockTypeOK'
    BY <2>6 DEF Notify, LockTypeOK
  <2>7. ASSUME NEW t \in Threads, Die(t) PROVE LockTypeOK'
    BY <2>7 DEF Die, LockTypeOK
  <2>8. CASE UNCHANGED lockVars
    BY <2>8 DEF lockVars, LockTypeOK
  <2> QED
    BY <2>1, <2>2, <2>3, <2>4, <2>5, <2>6, <2>7, <2>8 DEF LockNext, Run
<1> QED
  BY <1>1, <1>2, PTL DEF LockSpec

(* Until a waiter clears the lock, the word is 1 exactly while its owner is
   in its critical section or dead in it. *)
THEOREM WordCorrect == LockSpec => []WordTellsOwner
<1> USE WorkersAssumption, TimeoutAssumption, NoneAssumption
    DEF WorkersAssumption, TimeoutAssumption, NoneAssumption
<1>1. LockInit => WordTellsOwner
  BY DEF LockInit, WordTellsOwner, InCS
<1>2. LockTypeOK /\ WordTellsOwner /\ [LockNext]_lockVars => WordTellsOwner'
  <2> SUFFICES ASSUME LockTypeOK, WordTellsOwner, [LockNext]_lockVars
               PROVE  WordTellsOwner'
    OBVIOUS
  <2> USE DEF LockTypeOK, WordTellsOwner, InCS
  <2>1. CASE Tick
    BY <2>1 DEF Tick
  <2>2. ASSUME NEW t \in Threads, LockSync(t) PROVE WordTellsOwner'
    BY <2>2 DEF LockSync, Goto
  <2>3. ASSUME NEW t \in Threads, Acquire(t) PROVE WordTellsOwner'
    BY <2>3 DEF Acquire, Goto
  <2>4. ASSUME NEW t \in Threads, SelfHeal(t) PROVE WordTellsOwner'
    BY <2>4 DEF SelfHeal
  <2>5. ASSUME NEW t \in Threads,
               Busy(t) \/ NotYet(t) \/ Wait(t) \/ WakeByTimeout(t)
        PROVE  WordTellsOwner'
    BY <2>5 DEF Busy, NotYet, Wait, WakeByTimeout, Goto
  <2>6. ASSUME NEW t \in Threads, Unlock(t) PROVE WordTellsOwner'
    BY <2>6 DEF Unlock, Goto
  <2>7. ASSUME NEW t \in Threads, UnlockFree(t) PROVE WordTellsOwner'
    BY <2>7 DEF UnlockFree, Goto
  <2>8. ASSUME NEW t \in Threads, Notify(t) PROVE WordTellsOwner'
    BY <2>8 DEF Notify
  <2>9. ASSUME NEW t \in Threads, Die(t) PROVE WordTellsOwner'
    BY <2>9 DEF Die
  <2>10. CASE UNCHANGED lockVars
    BY <2>10 DEF lockVars
  <2> QED
    BY <2>1, <2>2, <2>3, <2>4, <2>5, <2>6, <2>7, <2>8, <2>9, <2>10 DEF LockNext, Run
<1> QED
  BY <1>1, <1>2, LockTyped, PTL DEF LockSpec

(* At most one thread runs a cache operation as long as no wait has timed
   out. *)
THEOREM Exclusive == LockSpec => []ExclusiveUntilHealed
<1>1. WordTellsOwner => ExclusiveUntilHealed
  BY DEF WordTellsOwner, ExclusiveUntilHealed, MutualExclusion
<1> QED
  BY <1>1, WordCorrect, PTL
=============================================================================
