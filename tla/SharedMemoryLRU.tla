-------------------------- MODULE SharedMemoryLRU --------------------------
(***************************************************************************)
(* The shared-memory LRU cache of src/sharedMemoryLRU.js: a header of      *)
(* 32-bit words, Capacity slot descriptors and a byte arena, all in one    *)
(* SharedArrayBuffer.  The slots form two linked lists threaded through    *)
(* the buffer: the recency list (head .. tail, doubly linked) and the      *)
(* free list.  The arena is filled by a bump pointer and compacted when    *)
(* the pointer reaches its end.                                            *)
(*                                                                         *)
(* One operation runs at a time, the one that holds the mutex (module      *)
(* SharedMutex says when that is true).  Its loops are modelled one        *)
(* iteration per step, because what they walk is the linked structure      *)
(* they modify.                                                            *)
(*                                                                         *)
(* Abstracted: a key, a value (body, headers and status together) are      *)
(* model values; an entry is Weight[v] arena cells that all hold the pair  *)
(* it stores, so that the key is read back from its first cell and the     *)
(* payload from its last.  Time stamps and the hit, miss and eviction      *)
(* counters, which no decision reads, are left out.                        *)
(***************************************************************************)
EXTENDS Integers, FiniteSetsExt

CONSTANTS
    Keys,           \* cache keys
    Values,         \* entries a client stores
    Weight,         \* bytes an entry takes: key, data and headers
    Hash,           \* FNV-1a hash of a key; two keys may collide
    Capacity,       \* HDR_CAPACITY: number of slots
    MaxTotalBytes,  \* HDR_MAX_TOTAL_BYTES: byte budget over all entries
    ItemLimits,     \* this.maxItemBytes of the handles attached to the buffer
    ArenaSize,      \* HDR_ARENA_SIZE
    NoValue,        \* no key, no value
    Blank           \* arena cell never written

ASSUME CapacityAssumption == Capacity \in Nat \ {0}
ASSUME ArenaAssumption == ArenaSize \in Nat
ASSUME BudgetAssumption == MaxTotalBytes \in Nat /\ ItemLimits \subseteq Nat
ASSUME WeightAssumption == Weight \in [Values -> Nat \ {0}]
ASSUME HashAssumption == Hash \in [Keys -> Int]
ASSUME BlankAssumption == Blank \notin [key : Keys, val : Values]
ASSUME NoValueAssumption == NoValue \notin Keys /\ NoValue \notin Values

Nil == -1
Slots == 0..(Capacity - 1)
Ptr == Slots \cup {Nil}
Cell == [key : Keys, val : Values] \cup {Blank}
Offsets == 0..(ArenaSize - 1)

VARIABLES
    head, tail, freeHead, size, totalBytes, allocPtr,   \* header words
    active,                                             \* slots with SLOT_STATE 1
    prev, next, freeNext, off, len, hash,               \* slot words
    arena,                                              \* data arena
    pc, op, cur, newPtr, temp, ret                      \* the running operation

lists == <<head, tail, freeHead, size, active, prev, next, freeNext>>
extents == <<off, len, hash>>
locals == <<cur, newPtr, temp>>
vars == <<lists, totalBytes, allocPtr, extents, arena, pc, op, locals, ret>>

-----------------------------------------------------------------------------
(* Values of the bookkeeping variables. *)

NoOp == [kind |-> "none", key |-> NoValue, val |-> NoValue]
EmptyArena == [i \in Offsets |-> Blank]
Result(kind, ok, val) == [kind |-> kind, ok |-> ok, val |-> val]
NoResult == Result("none", FALSE, NoValue)

(* _initializeBuffer: slot i is followed by i + 1 in the free list. *)
FreshFreeNext == [s \in Slots |-> IF s < Capacity - 1 THEN s + 1 ELSE Nil]

Init ==
    /\ head = Nil /\ tail = Nil /\ freeHead = 0
    /\ size = 0 /\ totalBytes = 0 /\ allocPtr = 0
    /\ active = {}
    /\ prev = [s \in Slots |-> Nil] /\ next = [s \in Slots |-> Nil]
    /\ freeNext = FreshFreeNext
    /\ off = [s \in Slots |-> 0] /\ len = [s \in Slots |-> 0]
    /\ hash = [s \in Slots |-> 0]
    /\ arena = EmptyArena
    /\ pc = "idle" /\ op = NoOp
    /\ cur = Nil /\ newPtr = 0 /\ temp = EmptyArena
    /\ ret = NoResult

-----------------------------------------------------------------------------
(* Updates of the linked structure. *)

Floor0(n) == IF n < 0 THEN 0 ELSE n

(* Fault: the early return for a slot that is at the head already is missing. *)
MoveToHeadAlways(x) ==
    /\ next' = [s \in Slots |-> IF s = x THEN head ELSE IF s = prev[x] THEN next[x] ELSE next[s]]
    /\ prev' = [s \in Slots |-> IF s = head THEN x ELSE IF s = next[x] THEN prev[x] ELSE prev[s]]
    /\ head' = x
    /\ tail' = IF tail = x /\ prev[x] # Nil THEN prev[x] ELSE tail

(* Unlink slot x and put it at the front of the recency list. *)
MoveToHead(x) ==
    IF head = x
    THEN UNCHANGED <<head, tail, prev, next>>
    ELSE LET p == prev[x]
             n == next[x]
             rest == IF tail = x THEN p ELSE tail
         IN /\ next' = [s \in Slots |-> IF s = x THEN head
                                        ELSE IF s = p THEN n ELSE next[s]]
            /\ prev' = [s \in Slots |-> IF s = head THEN x
                                        ELSE IF s = x THEN Nil
                                        ELSE IF s = n THEN p ELSE prev[s]]
            /\ head' = x
            /\ tail' = IF rest = Nil THEN x ELSE rest

(* Fault: the new tail keeps its link to the slot that was evicted. *)
EvictTailKeepsLink ==
    /\ head' = IF prev[tail] = Nil THEN Nil ELSE head
    /\ tail' = prev[tail]
    /\ next' = [next EXCEPT ![tail] = Nil] /\ prev' = [prev EXCEPT ![tail] = Nil]
    /\ active' = active \ {tail}
    /\ freeNext' = [freeNext EXCEPT ![tail] = freeHead] /\ freeHead' = tail
    /\ size' = size - 1 /\ totalBytes' = totalBytes - len[tail]

(* Free the slot at the tail, called only when there is one. *)
EvictTail ==
    LET p == prev[tail]
    IN /\ head' = IF p = Nil THEN Nil ELSE head
       /\ tail' = p
       /\ next' = [s \in Slots |-> IF s = tail \/ s = p THEN Nil ELSE next[s]]
       /\ prev' = [prev EXCEPT ![tail] = Nil]
       /\ active' = active \ {tail}
       /\ freeNext' = [freeNext EXCEPT ![tail] = freeHead]
       /\ freeHead' = tail
       /\ size' = Floor0(size - 1)
       /\ totalBytes' = Floor0(totalBytes - len[tail])

UnlinkAnd(x, front, left) ==
    /\ head' = IF prev[x] = Nil THEN next[x] ELSE head
    /\ tail' = IF next[x] = Nil THEN prev[x] ELSE tail
    /\ next' = [s \in Slots |-> IF s = prev[x] THEN next[x] ELSE next[s]]
    /\ prev' = [s \in Slots |-> IF s = next[x] THEN prev[x] ELSE prev[s]]
    /\ active' = active \ {x}
    /\ freeNext' = [freeNext EXCEPT ![x] = freeHead] /\ freeHead' = front
    /\ size' = size - 1 /\ totalBytes' = left

(* Fault: the deleted slot is not put on the free list. *)
UnlinkLeaksSlot(x) == UnlinkAnd(x, freeHead, totalBytes - len[x])

(* Fault: the bytes of the deleted entry stay on the account. *)
UnlinkKeepsBytes(x) == UnlinkAnd(x, x, totalBytes)

(* Unlink slot x wherever it is and free it; its own links stay as they were. *)
Unlink(x) ==
    LET p == prev[x]
        n == next[x]
    IN /\ head' = IF p = Nil THEN n ELSE head
       /\ tail' = IF n = Nil THEN p ELSE tail
       /\ next' = [s \in Slots |-> IF s = p THEN n ELSE next[s]]
       /\ prev' = [s \in Slots |-> IF s = n THEN p ELSE prev[s]]
       /\ active' = active \ {x}
       /\ freeNext' = [freeNext EXCEPT ![x] = freeHead]
       /\ freeHead' = x
       /\ size' = Floor0(size - 1)
       /\ totalBytes' = Floor0(totalBytes - len[x])

(* Fault: the slot taken stays on the free list. *)
LinkFreshNotPopped(f, w) ==
    /\ active' = active \cup {f}
    /\ next' = [next EXCEPT ![f] = head]
    /\ prev' = [s \in Slots |-> IF s = head THEN f ELSE IF s = f THEN Nil ELSE prev[s]]
    /\ head' = f /\ tail' = IF tail = Nil THEN f ELSE tail
    /\ size' = size + 1 /\ totalBytes' = totalBytes + w
    /\ UNCHANGED <<freeHead, freeNext>>

(* Take the first free slot f and link it at the front. *)
LinkFresh(f, w) ==
    /\ freeHead' = freeNext[f]
    /\ active' = active \cup {f}
    /\ next' = [next EXCEPT ![f] = head]
    /\ prev' = [s \in Slots |-> IF s = head THEN f ELSE IF s = f THEN Nil ELSE prev[s]]
    /\ head' = f
    /\ tail' = IF tail = Nil THEN f ELSE tail
    /\ size' = size + 1
    /\ totalBytes' = totalBytes + w
    /\ UNCHANGED freeNext

-----------------------------------------------------------------------------
(* Control of the operations. *)

Return(kind, ok, val) ==
    /\ pc' = "idle" /\ op' = NoOp
    /\ cur' = Nil /\ newPtr' = 0 /\ temp' = EmptyArena
    /\ ret' = Result(kind, ok, val)

(* get, put and delete all start by walking the recency list. *)
Search(kind, k, v) ==
    /\ pc = "idle"
    /\ pc' = "search"
    /\ op' = [kind |-> kind, key |-> k, val |-> v]
    /\ cur' = head
    /\ ret' = NoResult
    /\ UNCHANGED <<lists, totalBytes, allocPtr, extents, arena, newPtr, temp>>

CallGet(k) == Search("get", k, NoValue)

CallDelete(k) == Search("delete", k, NoValue)

CallPut(k, v, limit) == Weight[v] <= limit /\ Search("put", k, v)

(* An oversize entry is refused before the lock is taken. *)
PutOversize(v, limit) ==
    /\ pc = "idle"
    /\ Weight[v] > limit
    /\ Return("put", FALSE, NoValue)
    /\ UNCHANGED <<lists, totalBytes, allocPtr, extents, arena>>

Clear ==
    /\ pc = "idle"
    /\ head' = Nil /\ tail' = Nil /\ freeHead' = 0
    /\ size' = 0 /\ totalBytes' = 0 /\ allocPtr' = 0
    /\ active' = {}
    /\ prev' = [s \in Slots |-> Nil] /\ next' = [s \in Slots |-> Nil]
    /\ freeNext' = FreshFreeNext
    /\ len' = [s \in Slots |-> 0]
    /\ Return("clear", TRUE, NoValue)
    /\ UNCHANGED <<off, hash, arena>>


(* _findSlot's test of one slot: hash first, then the stored key itself. *)
Matches(s, k) ==
    /\ s \in active
    /\ hash[s] = Hash[k]
    /\ arena[off[s]] # Blank
    /\ arena[off[s]].key = k

Found == pc = "search" /\ cur # Nil /\ Matches(cur, op.key)
Absent == pc = "search" /\ cur = Nil

SearchStep ==
    /\ pc = "search" /\ cur # Nil /\ ~Matches(cur, op.key)
    /\ cur' = next[cur]
    /\ UNCHANGED <<lists, totalBytes, allocPtr, extents, arena, pc, op, newPtr, temp, ret>>

GetHit ==
    /\ Found /\ op.kind = "get"
    /\ MoveToHead(cur)
    /\ Return("get", TRUE, arena[off[cur] + len[cur] - 1].val)
    /\ UNCHANGED <<freeHead, size, active, freeNext, totalBytes, allocPtr, extents, arena>>

GetMiss ==
    /\ Absent /\ op.kind = "get"
    /\ Return("get", FALSE, NoValue)
    /\ UNCHANGED <<lists, totalBytes, allocPtr, extents, arena>>

DeleteFound ==
    /\ Found /\ op.kind = "delete"
    /\ Unlink(cur)
    /\ Return("delete", TRUE, NoValue)
    /\ UNCHANGED <<allocPtr, extents, arena>>

DeleteMiss ==
    /\ Absent /\ op.kind = "delete"
    /\ Return("delete", FALSE, NoValue)
    /\ UNCHANGED <<lists, totalBytes, allocPtr, extents, arena>>

(* A put of a key that is present only refreshes its recency. *)
PutExisting ==
    /\ Found /\ op.kind = "put"
    /\ MoveToHead(cur)
    /\ Return("put", TRUE, NoValue)
    /\ UNCHANGED <<freeHead, size, active, freeNext, totalBytes, allocPtr, extents, arena>>

PutAbsent ==
    /\ Absent /\ op.kind = "put"
    /\ pc' = "evict"
    /\ UNCHANGED <<lists, totalBytes, allocPtr, extents, arena, op, locals, ret>>

-----------------------------------------------------------------------------
(* put: evictions, compaction of the arena, insertion. *)

Need == Weight[op.val]
NoSlotLeft == size >= Capacity /\ tail # Nil
(* Fault: the size of the new entry is left out. *)
OverBudgetNow == totalBytes > MaxTotalBytes /\ size > 0 /\ tail # Nil

OverBudget == totalBytes + Need > MaxTotalBytes /\ size > 0 /\ tail # Nil

(* Fault: one byte too far. *)
NoRoomByOne == allocPtr + Need > ArenaSize + 1

NoRoom == allocPtr + Need > ArenaSize

EvictForEntries ==
    /\ pc = "evict" /\ NoSlotLeft
    /\ EvictTail
    /\ UNCHANGED <<allocPtr, extents, arena, pc, op, locals, ret>>

EvictForBytes ==
    /\ pc = "evict" /\ ~NoSlotLeft /\ OverBudget
    /\ EvictTail
    /\ UNCHANGED <<allocPtr, extents, arena, pc, op, locals, ret>>

(* Fault: the arena is taken for full without compacting it. *)
CompactSkipped ==
    /\ pc = "evict" /\ ~NoSlotLeft /\ ~OverBudget /\ NoRoom
    /\ pc' = "fit"
    /\ UNCHANGED <<lists, totalBytes, allocPtr, extents, arena, op, locals, ret>>

CompactStart ==
    /\ pc = "evict" /\ ~NoSlotLeft /\ ~OverBudget /\ NoRoom
    /\ pc' = "compact" /\ cur' = head
    /\ UNCHANGED <<lists, totalBytes, allocPtr, extents, arena, op, newPtr, temp, ret>>

(* Fault: the last byte of each entry is not counted. *)
CompactStepShort ==
    /\ pc = "compact" /\ cur # Nil
    /\ temp' = [i \in Offsets |-> IF i \in newPtr..(newPtr + len[cur] - 1)
                                  THEN arena[off[cur] + (i - newPtr)] ELSE temp[i]]
    /\ off' = [off EXCEPT ![cur] = newPtr]
    /\ newPtr' = newPtr + len[cur] - 1
    /\ cur' = next[cur]
    /\ UNCHANGED <<lists, totalBytes, allocPtr, len, hash, arena, pc, op, ret>>

(* One entry is copied out and its descriptor moved at once. *)
CompactStep ==
    /\ pc = "compact" /\ cur # Nil
    /\ temp' = [i \in Offsets |-> IF i \in newPtr..(newPtr + len[cur] - 1)
                                  THEN arena[off[cur] + (i - newPtr)] ELSE temp[i]]
    /\ off' = [off EXCEPT ![cur] = newPtr]
    /\ newPtr' = newPtr + len[cur]
    /\ cur' = next[cur]
    /\ UNCHANGED <<lists, totalBytes, allocPtr, len, hash, arena, pc, op, ret>>

(* Fault: the copy is not written back. *)
CompactEndNoCopy ==
    /\ pc = "compact" /\ cur = Nil
    /\ allocPtr' = newPtr
    /\ newPtr' = 0 /\ temp' = EmptyArena /\ pc' = "fit"
    /\ UNCHANGED <<lists, totalBytes, extents, arena, op, cur, ret>>

(* The copy is written back. *)
CompactEnd ==
    /\ pc = "compact" /\ cur = Nil
    /\ arena' = [i \in Offsets |-> IF i < newPtr THEN temp[i] ELSE arena[i]]
    /\ allocPtr' = newPtr
    /\ newPtr' = 0 /\ temp' = EmptyArena
    /\ pc' = "fit"
    /\ UNCHANGED <<lists, totalBytes, extents, op, cur, ret>>

(* Fault: the freed bytes are not compacted away after an eviction. *)
EvictForArenaOnly ==
    /\ pc = "fit" /\ NoRoom /\ size > 0 /\ tail # Nil
    /\ EvictTail
    /\ UNCHANGED <<allocPtr, extents, arena, pc, op, locals, ret>>

EvictForArena ==
    /\ pc = "fit" /\ NoRoom /\ size > 0 /\ tail # Nil
    /\ EvictTail
    /\ pc' = "compact" /\ cur' = head'
    /\ UNCHANGED <<allocPtr, extents, arena, op, newPtr, temp, ret>>

PutCannotFit ==
    /\ pc = "fit" /\ NoRoom /\ (size = 0 \/ tail = Nil)
    /\ Return("put", FALSE, NoValue)
    /\ UNCHANGED <<lists, totalBytes, allocPtr, extents, arena>>

ReadyToWrite ==
    /\ \/ pc = "evict" /\ ~NoSlotLeft /\ ~OverBudget
       \/ pc = "fit"
    /\ ~NoRoom

(* Take a free slot and write the entry at the bump pointer. *)
PutWrite ==
    /\ ReadyToWrite
    /\ IF freeHead = Nil
       THEN /\ Return("put", FALSE, NoValue)
            /\ UNCHANGED <<lists, totalBytes, allocPtr, extents, arena>>
       ELSE /\ LinkFresh(freeHead, Need)
            /\ arena' = [i \in Offsets |-> IF i \in allocPtr..(allocPtr + Need - 1)
                                           THEN [key |-> op.key, val |-> op.val]
                                           ELSE arena[i]]
            /\ off' = [off EXCEPT ![freeHead] = allocPtr]
            /\ len' = [len EXCEPT ![freeHead] = Need]
            /\ hash' = [hash EXCEPT ![freeHead] = Hash[op.key]]
            /\ allocPtr' = allocPtr + Need
            /\ Return("put", TRUE, NoValue)

-----------------------------------------------------------------------------
Call ==
    \/ \E k \in Keys : CallGet(k) \/ CallDelete(k)
    \/ \E k \in Keys, v \in Values, limit \in ItemLimits : CallPut(k, v, limit)
    \/ \E v \in Values, limit \in ItemLimits : PutOversize(v, limit)
    \/ Clear

Lookup == SearchStep \/ GetHit \/ GetMiss \/ DeleteFound \/ DeleteMiss
          \/ PutExisting \/ PutAbsent

MakeRoom == EvictForEntries \/ EvictForBytes \/ EvictForArena
            \/ CompactStart \/ CompactStep \/ CompactEnd

Finish == PutCannotFit \/ PutWrite

(* A step of the operation that holds the lock. *)
Step == Lookup \/ MakeRoom \/ Finish

Next == Call \/ Step

Spec == Init /\ [][Next]_vars

(* The operations are synchronous code: one that has started is run on. *)
FairSpec == Spec /\ WF_vars(Step)
-----------------------------------------------------------------------------
(* Properties. *)

LinksTypeOK ==
    /\ head \in Ptr /\ tail \in Ptr /\ freeHead \in Ptr
    /\ size \in 0..Capacity /\ totalBytes \in Nat /\ allocPtr \in Nat /\ newPtr \in Nat
    /\ active \subseteq Slots
    /\ prev \in [Slots -> Ptr] /\ next \in [Slots -> Ptr] /\ freeNext \in [Slots -> Ptr]
    /\ off \in [Slots -> Nat] /\ len \in [Slots -> Nat] /\ hash \in [Slots -> Int]
    /\ pc \in {"idle", "search", "evict", "compact", "fit"}
    /\ op \in [kind : {"none", "get", "put", "delete"},
               key : Keys \cup {NoValue}, val : Values \cup {NoValue}]
    /\ cur \in Ptr

DataTypeOK ==
    /\ allocPtr <= ArenaSize /\ newPtr <= ArenaSize
    /\ arena \in [Offsets -> Cell] /\ temp \in [Offsets -> Cell]
    /\ ret \in [kind : {"none", "get", "put", "delete", "clear"}, ok : BOOLEAN,
                val : Values \cup {NoValue}]

(* Every word of the header and of the slots stays in its range: pointers
   name slots or are -1, the bump pointer and the compaction pointer never
   leave the arena, and what is copied and returned was read inside it. *)
TypeOK == LinksTypeOK /\ DataTypeOK

(* rank numbers the n members of S 1..n in the order in which link leads
   from first through all of them to Nil. *)
IsChain(rank, S, first, link, n) ==
    /\ rank \in [S -> 1..n]
    /\ \A i \in 1..n : \E s \in S : rank[s] = i
    /\ \A s, t \in S : rank[s] = rank[t] => s = t
    /\ IF n = 0 THEN first = Nil ELSE first \in S /\ rank[first] = 1
    /\ \A s \in S : IF rank[s] = n THEN link[s] = Nil
                    ELSE link[s] \in S /\ rank[link[s]] = rank[s] + 1

Chain(S, first, link, n) ==
    \E rank \in [S -> 1..n] : IsChain(rank, S, first, link, n)

(* A doubly linked list of the n members of S, from first to last. *)
LinkedList(S, first, last, fwd, back, n) ==
    /\ Chain(S, first, fwd, n)
    /\ first # Nil => back[first] = Nil
    /\ first = Nil <=> last = Nil
    /\ last # Nil => last \in S /\ fwd[last] = Nil
    /\ \A s \in S : fwd[s] # Nil => back[fwd[s]] = s

(* The recency list visits every active slot exactly once and no other, its
   back links mirror its forward links, and head, tail and HDR_SIZE agree
   with it, at every iteration of every operation. *)
RecencySound == LinkedList(active, head, tail, next, prev, size)

(* No slot is lost and none is free twice: the free list visits exactly the
   slots that are not active. *)
FreeSound == Chain(Slots \ active, freeHead, freeNext, Capacity - size)

(* A put never overwrites a slot in use: the slot at the head of the free
   list is not active, and there is one whenever an entry is written. *)
FreshSlot ==
    /\ freeHead # Nil => freeHead \notin active
    /\ ReadyToWrite => freeHead # Nil

(* HDR_TOTAL_BYTES is the sum of the sizes of the active entries: the code
   adjusts it at five places and floors it at zero. *)
BytesAccounted == totalBytes = MapThenSumSet(LAMBDA s : len[s], active)

(* Outside a compaction no two entries share an arena byte, and none
   reaches beyond the bump pointer, where the next entry is written. *)
ExtentsDisjoint ==
    pc # "compact" =>
        /\ \A s \in active : off[s] + len[s] <= allocPtr
        /\ \A s, t \in active : s # t => \/ off[s] + len[s] <= off[t]
                                         \/ off[t] + len[t] <= off[s]

(* Outside a compaction every active slot reads back, from its own extent,
   one whole entry under the key its hash was computed from, and no key is
   in two slots. *)
EntriesIntact ==
    pc # "compact" =>
        /\ \A s \in active :
             \E k \in Keys, v \in Values :
                /\ hash[s] = Hash[k] /\ len[s] = Weight[v]
                /\ \A i \in off[s]..(off[s] + len[s] - 1) : arena[i] = [key |-> k, val |-> v]
        /\ \A s, t \in active : arena[off[s]] # Blank /\ arena[off[t]] # Blank
                                /\ arena[off[s]].key = arena[off[t]].key => s = t

(* The memory budget of README.md:63 and ARCHITECTURE.md:83: the bytes of
   all entries never exceed HDR_MAX_TOTAL_BYTES. *)
BudgetHeld == totalBytes <= MaxTotalBytes

(* An entry that could fit in an empty arena is never refused: a put that
   passed the item limit always ends by storing or keeping the entry,
   whatever the fragmentation and the slots in use. *)
NeverRefused ==
    [][(op.kind = "put" /\ Need <= ArenaSize /\ pc' = "idle") => ret'.ok]_vars

(* Evicting for the arena comes last: an entry is evicted after the budget
   allows the new one only if the compacted arena cannot hold both. *)
ArenaEvictionNeeded ==
    [][(pc = "fit" /\ active' # active /\ active' \subseteq active)
            => totalBytes + Need > ArenaSize]_vars

(* Every operation returns: its walks over the list end and its eviction
   and compaction loops terminate. *)
Terminates == pc # "idle" ~> pc = "idle"
=============================================================================
