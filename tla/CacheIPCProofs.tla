--------------------------- MODULE CacheIPCProofs ---------------------------
(***************************************************************************)
(* For any workers, calls and cache: the pending calls of a worker are     *)
(* exactly those whose callers wait, an answer is that of its call, and    *)
(* the calls of CacheIPC are those of a CacheService.                      *)
(***************************************************************************)
EXTENDS CacheIPC, CollectionLemmas

Statuses == {"idle", "open", "answered", "given up", "gone"}
Messages == [id : Nat, call : Calls]

(* Types of what the worker keeps and of the channels.  Nothing is said of
   the results that come back. *)
Typed ==
    /\ reqId \in [Workers -> Nat]
    /\ idOf \in [Calls -> Nat]
    /\ pending \in [Workers -> SUBSET Calls]
    /\ status \in [Calls -> Statuses]
    /\ answer = [c \in Calls |-> answer[c]]
    /\ DOMAIN did = Calls
    /\ up \in [Workers -> Seq(Messages)]

Replies == DOMAIN down = Workers /\ \A w \in Workers : \E S : down[w] \in Seq(S)

(* A call has an id once it is made, and no other call of its worker has it. *)
IdsUnique ==
    /\ \A c \in Calls : idOf[c] <= reqId[WorkerOf[c]]
    /\ \A c \in Calls : status[c] = "idle" <=> idOf[c] = 0
    /\ \A c, d \in Calls : WorkerOf[c] = WorkerOf[d] /\ idOf[c] = idOf[d] /\ c # d
                              => idOf[c] = 0

InUp(c) == \E i \in DOMAIN up[WorkerOf[c]] : up[WorkerOf[c]][i].call = c

(* A message to the master is about one call of its worker, under its id, and
   there is one message a call. *)
UpSound ==
    \A w \in Workers :
        /\ \A i \in DOMAIN up[w] : LET c == up[w][i].call IN
              WorkerOf[c] = w /\ up[w][i].id = idOf[c] /\ idOf[c] # 0
        /\ \A i, j \in DOMAIN up[w] : up[w][i].call = up[w][j].call => i = j

(* An answer on its way is that of a call of its worker which the master has
   handled, under the id of that call. *)
DownSound ==
    \A w \in Workers : \A i \in DOMAIN down[w] : \E c \in Calls :
        /\ WorkerOf[c] = w /\ ~InUp(c)
        /\ down[w][i].id = idOf[c] /\ idOf[c] # 0
        /\ down[w][i].ret = Told(did[c]) /\ did[c] # Store!NoResult

(* What an answered call returned is settled. *)
AnsweredDone == \A c \in Calls : status[c] = "answered" => ~InUp(c)

Inv == Typed /\ Replies /\ IdsUnique /\ UpSound /\ DownSound /\ AnsweredDone
           /\ PendingExact /\ OwnAnswer

-----------------------------------------------------------------------------

(* Told and NoResult are constant. *)
LEMMA ToldPrime == Store!NoResult' = Store!NoResult /\ \A d : Told(did[d])' = Told(did'[d])
  BY DEF Told, Store!Result, Store!NoResult

(* Every operation of the cache has a result. *)
LEMMA ResultIsSome ==
    ASSUME NEW kind \in Kinds, NEW k, NEW ok, NEW val
    PROVE  Store!Result(kind, k, ok, val) # Store!NoResult
  BY DEF Kinds, Store!Result, Store!NoResult

(* The first states satisfy the invariant. *)
LEMMA InitInv == Init => Inv
<1> SUFFICES ASSUME Init PROVE Inv
  OBVIOUS
<1> USE CallsTyped
<1>1. Typed /\ Replies
  <2>1. \A w \in Workers : down[w] \in Seq({})
    BY DEF Init
  <2> QED
    BY <2>1 DEF Init, Typed, Replies, Statuses, Messages
<1>2. IdsUnique /\ UpSound /\ DownSound /\ AnsweredDone
  BY DEF Init, IdsUnique, UpSound, DownSound, AnsweredDone, InUp
<1>3. PendingExact /\ OwnAnswer
  BY DEF Init, PendingExact, OwnAnswer
<1> QED
  BY <1>1, <1>2, <1>3 DEF Inv

(* A call that begins: its id is new, so it displaces no pending call. *)
LEMMA SendInv == ASSUME Inv, NEW c \in Calls, Send(c) PROVE Inv'
<1> DEFINE w == WorkerOf[c]
<1> USE CallsTyped DEF Inv
<1>0. w \in Workers
  OBVIOUS
<1>1. Called(w, NextId(w)) = {}
  BY DEF Called, NextId, Typed, IdsUnique, PendingExact
<1>2. /\ reqId' = [reqId EXCEPT ![w] = reqId[w] + 1]
      /\ idOf' = [idOf EXCEPT ![c] = reqId[w] + 1]
      /\ pending' = [pending EXCEPT ![w] = pending[w] \cup {c}]
      /\ status' = [status EXCEPT ![c] = "open"]
      /\ up' = [up EXCEPT ![w] = Append(up[w], [id |-> reqId[w] + 1, call |-> c])]
      /\ UNCHANGED <<answer, down, did>>
      /\ status[c] = "idle"
  BY <1>0, <1>1 DEF Send, Typed, NextId, Enqueue
<1>3. Typed' /\ Replies'
  <2>1. [id |-> reqId[w] + 1, call |-> c] \in Messages
    BY DEF Typed, Messages
  <2>2. Append(up[w], [id |-> reqId[w] + 1, call |-> c]) \in Seq(Messages)
    BY <2>1 DEF Typed
  <2>3. Typed'
    <3>1. reqId' \in [Workers -> Nat] /\ idOf' \in [Calls -> Nat]
      BY <1>0, <1>2 DEF Typed
    <3>2. pending' \in [Workers -> SUBSET Calls] /\ status' \in [Calls -> Statuses]
      BY <1>0, <1>2 DEF Typed, Statuses
    <3>3. up' \in [Workers -> Seq(Messages)]
      BY <1>0, <1>2, <2>2 DEF Typed
    <3> QED
      BY <1>2, <3>1, <3>2, <3>3 DEF Typed
  <2>4. Replies'
    BY <1>2 DEF Replies
  <2> QED
    BY <2>3, <2>4
<1>4. IdsUnique'
  BY <1>0, <1>2 DEF Typed, IdsUnique
<1>5. \A v \in Workers : \A i \in DOMAIN up'[v] :
          \/ i \in DOMAIN up[v] /\ up'[v][i] = up[v][i]
          \/ v = w /\ i = Len(up[w]) + 1 /\ up'[v][i] = [id |-> reqId[w] + 1, call |-> c]
  BY <1>2 DEF Typed
<1>6. \A v \in Workers : \A i \in DOMAIN up[v] : up[v][i].call # c
  BY <1>2 DEF Typed, UpSound, IdsUnique
<1>7. UpSound'
  <2>1. \A d \in Calls : d # c => idOf'[d] = idOf[d]
    BY <1>2 DEF Typed
  <2>2. idOf'[c] = reqId[w] + 1 /\ reqId[w] + 1 # 0
    BY <1>2 DEF Typed
  <2>3. \A v \in Workers : \A i \in DOMAIN up[v] : up[v][i] \in Messages
    BY DEF Typed
  <2> QED
    BY <1>5, <1>6, <2>1, <2>2, <2>3 DEF UpSound, Messages
<1>8. \A d \in Calls : d # c /\ InUp(d)' => InUp(d)
  BY <1>5 DEF InUp
<1>9. DownSound'
  <2>1. down' = down /\ did' = did
    BY <1>2
  <2>2. \A d \in Calls : idOf[d] # 0 => d # c /\ idOf'[d] = idOf[d]
    BY <1>2 DEF Typed, IdsUnique
  <2> QED
    BY <1>8, <2>1, <2>2, ToldPrime DEF DownSound
<1>10. AnsweredDone' /\ PendingExact' /\ OwnAnswer'
  <2>1. \A d \in Calls : status'[d] = "answered" => d # c /\ status[d] = "answered"
    BY <1>2 DEF Typed
  <2> QED
    <3>1. AnsweredDone'
      BY <1>8, <2>1 DEF AnsweredDone
    <3>2. PendingExact'
      BY <1>0, <1>2 DEF Typed, PendingExact
    <3>3. OwnAnswer'
      BY <1>2, <2>1, ToldPrime DEF OwnAnswer
    <3> QED
      BY <3>1, <3>2, <3>3
<1> QED
  BY <1>3, <1>4, <1>7, <1>9, <1>10

(* A call that is given up only leaves the pending ones. *)
LEMMA TimeoutInv == ASSUME Inv, NEW c \in Calls, Timeout(c) PROVE Inv'
<1> USE CallsTyped DEF Inv
<1>1. /\ pending' = [pending EXCEPT ![WorkerOf[c]] = pending[WorkerOf[c]] \ {c}]
      /\ status' = [status EXCEPT ![c] = "given up"]
      /\ status[c] = "open" /\ WorkerOf[c] \in Workers
      /\ UNCHANGED <<reqId, idOf, answer, up, down, did>>
  BY DEF Timeout
<1>2. Typed' /\ Replies' /\ IdsUnique'
  <2>1. Typed'
    BY <1>1 DEF Typed, Statuses
  <2>2. Replies'
    BY <1>1 DEF Replies
  <2>3. IdsUnique'
    BY <1>1 DEF Typed, IdsUnique
  <2> QED
    BY <2>1, <2>2, <2>3
<1>3. \A d \in Calls : InUp(d)' <=> InUp(d)
  BY <1>1 DEF InUp
<1>4. UpSound' /\ DownSound'
  <2>1. UpSound'
    BY <1>1 DEF UpSound
  <2>2. DownSound'
    BY <1>1, <1>3, ToldPrime DEF DownSound
  <2> QED
    BY <2>1, <2>2
<1>5. \A d \in Calls : status'[d] = "answered" => status[d] = "answered"
  BY <1>1 DEF Typed
<1>6. AnsweredDone' /\ OwnAnswer'
  BY <1>1, <1>3, <1>5, ToldPrime DEF AnsweredDone, OwnAnswer
<1>7. PendingExact'
  BY <1>1 DEF Typed, PendingExact
<1> QED
  BY <1>2, <1>4, <1>6, <1>7

(* The master handles a message: of each kind, the worker's call leaves the
   channel and its answer, if anyone is left to read it, goes back. *)
LEMMA MasterInv ==
    ASSUME Inv, NEW w \in Workers, NEW kind, Take(w, kind), Reply(w), ret' # Store!NoResult
    PROVE  Inv'
<1> USE CallsTyped DEF Inv
<1>1. /\ up[w] \in Seq(Messages) /\ up[w] # <<>>
      /\ Len(up[w]) >= 1 /\ First(w) = up[w][1] /\ First(w) \in Messages
  BY DEF Take, Typed, First
<1>2. PICK c \in Calls : /\ c = First(w).call /\ WorkerOf[c] = w
                         /\ First(w).id = idOf[c] /\ idOf[c] # 0
  BY <1>1 DEF UpSound, Messages
<1>3. /\ up' = [up EXCEPT ![w] = Tail(@)]
      /\ did' = [did EXCEPT ![c] = ret']
      /\ UNCHANGED <<reqId, idOf, pending, status, answer, alive>>
  BY <1>2 DEF Take, Reply, worker
<1>4. \A v \in Workers : \A i \in DOMAIN up'[v] :
          IF v = w THEN i + 1 \in DOMAIN up[v] /\ i + 1 # 1 /\ up'[v][i] = up[v][i + 1]
                   ELSE i \in DOMAIN up[v] /\ up'[v][i] = up[v][i]
  BY <1>1, <1>3 DEF Typed
<1>5. \A d \in Calls : InUp(d)' => InUp(d) /\ d # c
  BY <1>1, <1>2, <1>4 DEF InUp, UpSound
<1>6. UpSound'
  <2>1. \A i \in DOMAIN up'[w] : i \in Nat
    BY <1>1, <1>3 DEF Typed
  <2> QED
    BY <1>3, <1>4, <2>1 DEF UpSound
<1>7. InUp(c)
  BY <1>1, <1>2 DEF InUp
<1>8. \A d \in Calls : d # c => did'[d] = did[d]
  BY <1>3 DEF Typed
<1>9. \A v \in Workers : \A i \in DOMAIN down'[v] :
          \/ i \in DOMAIN down[v] /\ down'[v][i] = down[v][i]
          \/ v = w /\ down'[v][i] = [id |-> First(w).id, ret |-> Told(ret')]
  <2>1. PICK S : down[w] \in Seq(S)
    BY DEF Replies
  <2> DEFINE msg == [id |-> First(w).id, ret |-> Told(ret')]
             T == S \cup {msg}
  <2>2. down[w] \in Seq(T) /\ msg \in T
    BY <2>1
  <2> HIDE DEF T, msg
  <2>3. down' = down \/ down' = [down EXCEPT ![w] = Append(@, msg)]
    BY DEF Reply, msg
  <2>4. \A i \in DOMAIN Append(down[w], msg) :
            \/ i \in DOMAIN down[w] /\ Append(down[w], msg)[i] = down[w][i]
            \/ Append(down[w], msg)[i] = msg
    BY <2>2
  <2> QED
    BY <2>3, <2>4 DEF Replies, msg
<1>10. DownSound'
  <2> SUFFICES ASSUME NEW v \in Workers, NEW i \in DOMAIN down'[v]
               PROVE  \E d \in Calls :
                          /\ WorkerOf[d] = v /\ ~InUp(d)'
                          /\ down'[v][i].id = idOf[d] /\ idOf[d] # 0
                          /\ down'[v][i].ret = Told(did'[d]) /\ did'[d] # Store!NoResult
    BY <1>3, ToldPrime DEF DownSound
  <2>1. CASE i \in DOMAIN down[v] /\ down'[v][i] = down[v][i]
    <3>1. PICK d \in Calls :
              /\ WorkerOf[d] = v /\ ~InUp(d)
              /\ down[v][i].id = idOf[d] /\ idOf[d] # 0
              /\ down[v][i].ret = Told(did[d]) /\ did[d] # Store!NoResult
      BY <2>1 DEF DownSound
    <3>2. d # c /\ ~InUp(d)'
      BY <1>5, <1>7, <3>1
    <3> QED
      BY <1>8, <2>1, <3>1, <3>2
  <2>2. CASE v = w /\ down'[v][i] = [id |-> First(w).id, ret |-> Told(ret')]
    <3>1. ~InUp(c)' /\ did'[c] = ret'
      BY <1>2, <1>3, <1>5 DEF Typed
    <3>2. down'[v][i].id = idOf[c] /\ down'[v][i].ret = Told(did'[c])
      BY <1>2, <2>2, <3>1
    <3> QED
      BY <1>2, <2>2, <3>1, <3>2
  <2> QED
    BY <1>9, <2>1, <2>2
<1>11. AnsweredDone' /\ PendingExact' /\ IdsUnique'
  BY <1>3, <1>5 DEF AnsweredDone, PendingExact, IdsUnique
<1>12. OwnAnswer'
  <2>1. status[c] # "answered"
    BY <1>2, <1>7 DEF AnsweredDone
  <2> QED
    BY <1>3, <1>8, <2>1, ToldPrime DEF OwnAnswer
<1>13. Typed' /\ Replies'
  <2>1. up' \in [Workers -> Seq(Messages)]
    BY <1>1, <1>3 DEF Typed
  <2>2. \A v \in Workers : \E S : down'[v] \in Seq(S)
    <3> TAKE v \in Workers
    <3>1. PICK S : down[v] \in Seq(S)
      BY DEF Replies
    <3> DEFINE msg == [id |-> First(w).id, ret |-> Told(ret')]
               T == S \cup {msg}
    <3>2. down[v] \in Seq(T) /\ msg \in T
      BY <3>1
    <3> HIDE DEF T, msg
    <3>3. down' = down \/ down' = [down EXCEPT ![w] = Append(@, msg)]
      BY DEF Reply, msg
    <3>4. Append(down[v], msg) \in Seq(T)
      BY <3>2
    <3>5. down'[v] = down[v] \/ down'[v] = Append(down[v], msg)
      BY <3>3 DEF Replies
    <3>6. down'[v] \in Seq(T)
      BY <3>2, <3>4, <3>5
    <3> QED
      BY <3>6
  <2>3. DOMAIN down' = Workers
    BY DEF Reply, Replies
  <2>4. Typed'
    BY <1>3, <2>1 DEF Typed
  <2> QED
    BY <2>2, <2>3, <2>4 DEF Replies
<1> QED
  BY <1>6, <1>10, <1>11, <1>12, <1>13

(* An answer arrives: at most the one call that has its id is told. *)
LEMMA DeliverInv == ASSUME Inv, NEW w \in Workers, Deliver(w) PROVE Inv'
<1> DEFINE msg == Head(down[w])
           now == Called(w, msg.id)
<1> USE CallsTyped DEF Inv
<1>1. PICK S : down[w] \in Seq(S)
  BY DEF Replies
<1>2. down[w] # <<>> /\ Len(down[w]) >= 1 /\ msg = down[w][1]
  BY <1>1 DEF Deliver
<1>3. PICK c \in Calls :
          /\ WorkerOf[c] = w /\ ~InUp(c)
          /\ msg.id = idOf[c] /\ idOf[c] # 0
          /\ msg.ret = Told(did[c])
  BY <1>1, <1>2 DEF DownSound
<1>4. now \subseteq {c} /\ now \subseteq pending[w]
  BY <1>3 DEF Called, PendingExact, IdsUnique
<1> HIDE DEF now, msg
<1>5. /\ pending' = [pending EXCEPT ![w] = @ \ now]
      /\ status' = [d \in Calls |-> IF d \in now THEN "answered" ELSE status[d]]
      /\ answer' = [d \in Calls |-> IF d \in now THEN msg.ret ELSE answer[d]]
      /\ down' = [down EXCEPT ![w] = Tail(@)]
      /\ UNCHANGED <<reqId, idOf, up, did>>
  BY DEF Deliver, now, msg
<1>6. \A d \in Calls : InUp(d)' <=> InUp(d)
  BY <1>5 DEF InUp
<1>7. Tail(down[w]) \in Seq(S) /\ \A i \in DOMAIN Tail(down[w]) :
          i + 1 \in DOMAIN down[w] /\ Tail(down[w])[i] = down[w][i + 1]
  BY <1>1, <1>2
<1>8. Typed' /\ Replies'
  <2>1. \A v \in Workers : \E T : down'[v] \in Seq(T)
    BY <1>5, <1>7 DEF Replies
  <2>2. DOMAIN down' = Workers
    BY <1>5 DEF Replies
  <2>3. Typed'
    BY <1>5 DEF Typed, Statuses
  <2> QED
    BY <2>1, <2>2, <2>3 DEF Replies
<1>9. IdsUnique' /\ UpSound'
  BY <1>4, <1>5 DEF IdsUnique, UpSound, PendingExact, Typed
<1>10. DownSound'
  <2>1. \A v \in Workers : \A i \in DOMAIN down'[v] :
            \E j \in DOMAIN down[v] : down'[v][i] = down[v][j]
    BY <1>5, <1>7 DEF Replies
  <2> QED
    BY <1>5, <1>6, <2>1, ToldPrime DEF DownSound
<1>11. AnsweredDone' /\ OwnAnswer'
  BY <1>3, <1>4, <1>5, <1>6, ToldPrime DEF AnsweredDone, OwnAnswer
<1>12. PendingExact'
  <2>1. \A d \in now : WorkerOf[d] = w /\ status[d] = "open" /\ status'[d] = "answered"
    BY <1>4, <1>5 DEF PendingExact
  <2>2. \A d \in Calls : d \notin now => status'[d] = status[d]
    BY <1>5
  <2> QED
    BY <1>5, <2>1, <2>2 DEF PendingExact, Typed
<1> QED
  BY <1>8, <1>9, <1>10, <1>11, <1>12

(* A worker ends: its calls are gone, what it wrote is cut off somewhere. *)
LEMMA DieInv == ASSUME Inv, NEW w \in Workers, Die(w) PROVE Inv'
<1> USE CallsTyped DEF Inv
<1>1. PICK n \in 0..Len(up[w]) : up' = [up EXCEPT ![w] = SubSeq(@, 1, n)]
  BY DEF Die
<1>2. \A v \in Workers : up'[v] \in Seq(Messages) /\ \A i \in DOMAIN up'[v] :
          i \in DOMAIN up[v] /\ up'[v][i] = up[v][i]
  BY <1>1 DEF Typed
<1>3. \A d \in Calls : InUp(d)' => InUp(d)
  BY <1>2 DEF InUp
<1>4. \A v \in Workers : down'[v] = down[v] \/ down'[v] = <<>>
  BY DEF Die, Replies
<1>5. Typed' /\ Replies'
  <2>1. \A v \in Workers : \E S : down'[v] \in Seq(S)
    <3>1. <<>> \in Seq({})
      OBVIOUS
    <3> QED
      BY <1>4, <3>1 DEF Replies
  <2>2. up' \in [Workers -> Seq(Messages)]
    BY <1>1, <1>2 DEF Typed
  <2>3. Typed'
    BY <2>2 DEF Die, Typed, Statuses
  <2> QED
    BY <2>1, <2>3 DEF Die, Replies
<1>6. IdsUnique'
  BY DEF Die, IdsUnique, PendingExact, Typed
<1>7. UpSound'
  BY <1>2 DEF Die, UpSound
<1>8. DownSound'
  BY <1>3, <1>4, ToldPrime DEF Die, DownSound
<1>9. AnsweredDone' /\ OwnAnswer'
  BY <1>3, ToldPrime DEF Die, AnsweredDone, OwnAnswer
<1>10. PendingExact'
  BY DEF Die, PendingExact, Typed
<1> QED
  BY <1>5, <1>6, <1>7, <1>8, <1>9, <1>10

(* The invariant holds in every state. *)
LEMMA InvCorrect == Spec => []Inv
<1>1. Init => Inv
  BY InitInv
<1>2. Inv /\ [Next]_vars => Inv'
  <2> SUFFICES ASSUME Inv, [Next]_vars PROVE Inv'
    OBVIOUS
  <2>1. ASSUME NEW c \in Calls, Send(c) PROVE Inv'
    BY <2>1, SendInv
  <2>2. ASSUME NEW c \in Calls, Timeout(c) PROVE Inv'
    BY <2>2, TimeoutInv
  <2>3. ASSUME NEW w \in Workers, MasterGet(w) PROVE Inv'
    <3>1. ret' # Store!NoResult
      BY <2>3, ResultIsSome DEF Kinds, MasterGet, Store!GetHit, Store!GetMiss
    <3> QED
      BY <2>3, <3>1, MasterInv DEF MasterGet
  <2>4. ASSUME NEW w \in Workers, MasterPut(w) PROVE Inv'
    <3>1. ret' # Store!NoResult
      BY <2>4, ResultIsSome DEF Kinds, MasterPut, Store!PutRefused, Store!PutPresent, Store!PutAbsent
    <3> QED
      BY <2>4, <3>1, MasterInv DEF MasterPut
  <2>5. ASSUME NEW w \in Workers, MasterDelete(w) PROVE Inv'
    <3>1. ret' # Store!NoResult
      BY <2>5, ResultIsSome DEF Kinds, MasterDelete, Store!Delete
    <3> QED
      BY <2>5, <3>1, MasterInv DEF MasterDelete
  <2>6. ASSUME NEW w \in Workers, MasterClear(w) PROVE Inv'
    <3>1. ret' # Store!NoResult
      BY <2>6, ResultIsSome DEF Kinds, MasterClear, Store!Clear
    <3> QED
      BY <2>6, <3>1, MasterInv DEF MasterClear
  <2>7. ASSUME NEW w \in Workers, MasterStats(w) PROVE Inv'
    <3>1. ret' # Store!NoResult
      BY <2>7, ResultIsSome DEF Kinds, MasterStats
    <3> QED
      BY <2>7, <3>1, MasterInv DEF MasterStats
  <2>8. ASSUME NEW w \in Workers, Deliver(w) PROVE Inv'
    BY <2>8, DeliverInv
  <2>9. ASSUME NEW w \in Workers, Die(w) PROVE Inv'
    BY <2>9, DieInv
  <2>10. CASE UNCHANGED vars
    <3>1. UNCHANGED <<reqId, idOf, pending, status, answer, up, down, did>>
      BY <2>10 DEF vars, worker
    <3>2. (Typed /\ Replies /\ IdsUnique /\ UpSound)'
      BY <3>1 DEF Inv, Typed, Replies, IdsUnique, UpSound
    <3>3. \A c \in Calls : InUp(c)' <=> InUp(c)
      BY <3>1 DEF InUp
    <3>4. (DownSound /\ AnsweredDone /\ PendingExact /\ OwnAnswer)'
      BY <3>1, <3>3, ToldPrime DEF Inv, DownSound, AnsweredDone, PendingExact, OwnAnswer
    <3> QED
      BY <3>2, <3>4 DEF Inv
  <2> QED
    BY <2>1, <2>2, <2>3, <2>4, <2>5, <2>6, <2>7, <2>8, <2>9, <2>10 DEF Next
<1> QED
  BY <1>1, <1>2, PTL DEF Spec

(* cacheManager.js:23, 36: the calls in pendingIpc are exactly those whose
   callers wait. *)
THEOREM PendingCorrect == Spec => []PendingExact
<1>1. Inv => PendingExact
  BY DEF Inv
<1> QED
  BY <1>1, InvCorrect, PTL

(* cacheManager.js:21-28: what a call is told is what the cache did for it. *)
THEOREM OwnAnswerCorrect == Spec => []OwnAnswer
<1>1. Inv => OwnAnswer
  BY DEF Inv
<1> QED
  BY <1>1, InvCorrect, PTL

-----------------------------------------------------------------------------
(* The removals.  The master sees the calls of a worker in the order of their
   ids, so that a removal it has handled comes after the earlier puts, and no
   body of theirs is in the cache from then on. *)

Bodies == [key : {KeyOf[c] : c \in Calls}, val : Calls]

(* The entries of a cache: bodies under the keys of their puts, each key once. *)
Proper(es) ==
    /\ es \in Seq(Bodies)
    /\ \A i \in DOMAIN es : es[i].key = KeyOf[es[i].val]
    /\ \A i, j \in DOMAIN es : es[i].key = es[j].key => i = j

From(some, es) == \A i \in DOMAIN some : \E j \in DOMAIN es : some[i] = es[j]

(* Ids rise along the channel. *)
Ordered ==
    \A w \in Workers : \A i, j \in DOMAIN up[w] : i < j => up[w][i].id < up[w][j].id

(* A call that was handled had been made, before those still on their way;
   a call that is answered was handled. *)
Handled ==
    /\ \A d \in Calls : did[d] # Store!NoResult => idOf[d] # 0
    /\ \A c, d \in Calls : WorkerOf[c] = WorkerOf[d] /\ InUp(c) /\ did[d] # Store!NoResult
                              => idOf[d] < idOf[c]
    /\ \A d \in Calls : status[d] = "answered" => did[d] # Store!NoResult

(* What a handled call was to remove is gone. *)
Gone ==
    \A i \in DOMAIN entries, c \in Calls :
        Removes(c, entries[i].val) /\ Before(entries[i].val, c) => did[c] = Store!NoResult

RInv == Inv /\ Ordered /\ Handled /\ Proper(entries) /\ Gone

(* One entry is taken out. *)
LEMMA WithoutProper ==
    ASSUME Proper(entries), NEW k
    PROVE  /\ Proper(Store!Without(k)) /\ From(Store!Without(k), entries)
           /\ \A i \in DOMAIN Store!Without(k) : Store!Without(k)[i].key # k
<1>1. CASE ~Store!Holds(k)
  BY <1>1 DEF Store!Without, Store!Holds, From
<1>2. CASE Store!Holds(k)
  <2> DEFINE j == Store!Lookup(k)
             r == RemoveAt(entries, j)
             at(i) == IF i < j THEN i ELSE i + 1
  <2>1. Store!Without(k) = r
    BY <1>2 DEF Store!Without, Store!RemoveAt, RemoveAt
  <2>2. Len(entries) \in Nat /\ DOMAIN entries = 1..Len(entries) /\ entries \in Seq(Bodies)
    BY DEF Proper
  <2>3. j \in 1..Len(entries) /\ entries[j].key = k
    BY <1>2, <2>2 DEF Store!Lookup, Store!Holds
  <2> HIDE DEF j
  <2>4. /\ r \in Seq(Bodies) /\ DOMAIN r = 1..(Len(entries) - 1)
        /\ \A i \in 1..(Len(entries) - 1) : r[i] = entries[at(i)]
    <3>1. /\ r \in Seq(Bodies) /\ Len(r) = Len(entries) - 1
          /\ \A i \in 1..(Len(entries) - 1) : r[i] = IF i < j THEN entries[i] ELSE entries[i + 1]
      <4>1. j \in 1..Len(entries)
        BY <2>3
      <4> QED
        BY <2>2, <4>1, RemovedAt, Zenon
    <3> HIDE DEF r
    <3>2. DOMAIN r = 1..(Len(entries) - 1)
      BY <2>2, <3>1
    <3> QED
      BY <3>1, <3>2
  <2> HIDE DEF r
  <2>5. \A i \in 1..(Len(entries) - 1) : at(i) \in DOMAIN entries /\ at(i) # j
    BY <2>2, <2>3
  <2>6. \A i, h \in 1..(Len(entries) - 1) : at(i) = at(h) => i = h
    BY <2>2, <2>3
  <2> HIDE DEF at
  <2>7. Proper(r)
    BY <2>4, <2>5, <2>6 DEF Proper
  <2>8. From(r, entries)
    BY <2>4, <2>5 DEF From
  <2>9. \A i \in DOMAIN r : r[i].key # k
    BY <2>2, <2>3, <2>4, <2>5 DEF Proper
  <2> QED
    BY <2>1, <2>7, <2>8, <2>9
<1> QED
  BY <1>1, <1>2

(* Room is made at the end of the list. *)
LEMMA RetainedProper ==
    ASSUME NEW es, Proper(es), NEW n
    PROVE  Proper(Store!Retained(es, n)) /\ From(Store!Retained(es, n), es)
<1> DEFINE S == {0} \cup {m \in 1..Len(es) : Store!Fits(Store!SubSeq(es, 1, m), n)}
           p == SubSeq(es, 1, Max(S))
<1>1. Len(es) \in Nat /\ DOMAIN es = 1..Len(es) /\ es \in Seq(Bodies)
  BY DEF Proper
<1>2. S \in SUBSET (0..Len(es)) /\ S # {}
  BY <1>1
<1>3. Store!Retained(es, n) = p
  BY DEF Store!Retained, Store!Max, Max
<1> HIDE DEF S
<1>4. Max(S) \in 0..Len(es)
  BY <1>1, <1>2, LargestUpTo
<1>5. /\ p \in Seq(Bodies) /\ DOMAIN p = 1..Max(S)
      /\ \A i \in 1..Max(S) : p[i] = es[i] /\ i \in DOMAIN es
  BY <1>1, <1>4
<1> HIDE DEF p
<1> QED
  BY <1>3, <1>5 DEF Proper, From

(* An entry is put in front. *)
LEMMA PushedProper ==
    ASSUME NEW es, Proper(es), NEW e \in Bodies, e.key = KeyOf[e.val],
           \A i \in DOMAIN es : es[i].key # e.key
    PROVE  /\ Proper(<<e>> \o es)
           /\ \A i \in DOMAIN (<<e>> \o es) :
                 (<<e>> \o es)[i] = e \/ \E j \in DOMAIN es : (<<e>> \o es)[i] = es[j]
<1> DEFINE r == <<e>> \o es
<1>1. Len(es) \in Nat /\ DOMAIN es = 1..Len(es) /\ es \in Seq(Bodies)
  BY DEF Proper
<1>2. /\ r \in Seq(Bodies) /\ DOMAIN r = 1..(Len(es) + 1)
      /\ \A i \in 1..(Len(es) + 1) : r[i] = IF i = 1 THEN e ELSE es[i - 1]
  BY <1>1
<1> HIDE DEF r
<1>3. \A i \in 1..(Len(es) + 1) : i # 1 => i - 1 \in DOMAIN es
  BY <1>1
<1>4. Proper(r)
  <2>1. \A i \in DOMAIN r : r[i].key = KeyOf[r[i].val]
    BY <1>2, <1>3 DEF Proper
  <2>2. ASSUME NEW i \in DOMAIN r, NEW j \in DOMAIN r, r[i].key = r[j].key PROVE i = j
    <3>1. CASE i = 1 \/ j = 1
      BY <1>2, <1>3, <2>2, <3>1
    <3>2. CASE i # 1 /\ j # 1
      <4>1. i \in 1..(Len(es) + 1) /\ j \in 1..(Len(es) + 1)
        BY <1>2
      <4>2. r[i] = es[i - 1] /\ i - 1 \in DOMAIN es /\ r[j] = es[j - 1] /\ j - 1 \in DOMAIN es
        BY <1>2, <1>3, <3>2, <4>1
      <4>3. \A g, h \in DOMAIN es : es[g].key = es[h].key => g = h
        BY DEF Proper
      <4>4. i - 1 = j - 1
        BY <2>2, <4>2, <4>3, Zenon
      <4> QED
        BY <1>1, <4>1, <4>4
    <3> QED
      BY <3>1, <3>2
  <2> QED
    BY <1>2, <2>1, <2>2 DEF Proper
<1> QED
  BY <1>2, <1>3, <1>4 DEF r

(* What a call leaves in the cache: its own body, if it is a put, and others
   that it was not to remove. *)
LEMMA EntriesAfter ==
    ASSUME Proper(entries), NEW w \in Workers, NEW c \in Calls, First(w).call = c,
           MasterGet(w) \/ MasterPut(w) \/ MasterDelete(w) \/ MasterClear(w) \/ MasterStats(w)
    PROVE  /\ Proper(entries')
           /\ \A i \in DOMAIN entries' :
                 \/ entries'[i].val = c
                 \/ /\ \E j \in DOMAIN entries : entries'[i] = entries[j]
                    /\ ~Removes(c, entries'[i].val)
<1> DEFINE k == KeyOf[c]
<1> USE CallsTyped, BodiesMeasured DEF BodiesMeasured
<1>1. /\ Proper(Store!Without(k)) /\ From(Store!Without(k), entries)
      /\ \A i \in DOMAIN Store!Without(k) : Store!Without(k)[i].key # k
  BY WithoutProper
<1>2. Key(w) = k
  BY DEF Key
<1>3. \A es : Proper(es) => \A i \in DOMAIN es : es[i] \in Bodies /\ es[i].key = KeyOf[es[i].val]
  BY DEF Proper
<1>4. CASE UNCHANGED entries /\ \A p : ~Removes(c, p)
  BY <1>4
<1>5. CASE Kind[c] \in {"get", "stats"}
  <2>1. \A p : ~Removes(c, p)
    BY <1>5 DEF Removes
  <2>2. CASE UNCHANGED entries
    BY <1>4, <2>1, <2>2
  <2>3. CASE Store!Holds(k) /\ entries' = <<entries[Store!Lookup(k)]>> \o Store!Without(k)
    <3> DEFINE e == entries[Store!Lookup(k)]
    <3>1. Store!Lookup(k) \in DOMAIN entries /\ e.key = k
      BY <2>3 DEF Store!Holds, Store!Lookup
    <3>2. e \in Bodies /\ e.key = KeyOf[e.val]
      BY <1>3, <3>1
    <3> DEFINE rest == Store!Without(k)
    <3>3. Store!Lookup(k) \in DOMAIN entries /\ e = entries[Store!Lookup(k)]
      BY <3>1
    <3>4. entries' = <<e>> \o rest
      BY <2>3
    <3> HIDE DEF e
    <3>5. /\ Proper(rest) /\ \A i \in DOMAIN rest : \E j \in DOMAIN entries : rest[i] = entries[j]
          /\ \A i \in DOMAIN rest : rest[i].key # e.key
      <4>1. e.key = k
        BY <3>1
      <4> QED
        BY <1>1, <4>1 DEF From
    <3> HIDE DEF rest
    <3>6. /\ Proper(entries')
          /\ \A i \in DOMAIN entries' : entries'[i] = e \/ \E j \in DOMAIN rest : entries'[i] = rest[j]
      <4>1. /\ Proper(<<e>> \o rest)
            /\ \A i \in DOMAIN (<<e>> \o rest) :
                  (<<e>> \o rest)[i] = e \/ \E j \in DOMAIN rest : (<<e>> \o rest)[i] = rest[j]
        BY <3>2, <3>5, PushedProper
      <4> QED
        BY <3>4, <4>1
    <3> QED
      BY <2>1, <3>3, <3>5, <3>6
  <2> QED
    BY <1>2, <1>5, <2>2, <2>3 DEF MasterGet, MasterPut, MasterDelete, MasterClear, MasterStats,
       Take, Store!GetHit, Store!GetMiss
<1>6. CASE Kind[c] = "delete"
  <2>1. entries' = Store!Without(k)
    BY <1>2, <1>6 DEF MasterGet, MasterPut, MasterDelete, MasterClear, MasterStats, Take,
       Store!Delete
  <2>2. ASSUME NEW i \in DOMAIN entries' PROVE ~Removes(c, entries'[i].val)
    BY <1>1, <1>3, <1>6, <2>1, <2>2 DEF Removes
  <2> QED
    BY <1>1, <2>1, <2>2 DEF From
<1>7. CASE Kind[c] = "clear"
  <2>1. entries' = <<>>
    BY <1>7 DEF MasterGet, MasterPut, MasterDelete, MasterClear, MasterStats, Take, Store!Clear
  <2> QED
    BY <2>1 DEF Proper
<1>8. CASE Kind[c] = "put"
  <2> DEFINE e == [key |-> k, val |-> c]
  <2>1. \/ Store!PutRefused(c, MaxItemBytes)
        \/ Store!PutPresent(k, c, MaxItemBytes)
        \/ Store!PutAbsent(k, c, MaxItemBytes)
    BY <1>2, <1>8 DEF MasterGet, MasterPut, MasterDelete, MasterClear, MasterStats, Take
  <2>2. e \in Bodies /\ e.key = KeyOf[e.val] /\ e.key = k /\ e.val = c
    BY DEF Bodies
  <2> HIDE DEF e
  <2>3. ASSUME NEW es, Proper(es), From(es, entries), \A i \in DOMAIN es : es[i].key # k,
               entries' = <<e>> \o Store!Retained(es, Weight[c])
        PROVE  /\ Proper(entries')
               /\ \A i \in DOMAIN entries' :
                     \/ entries'[i].val = c
                     \/ /\ \E j \in DOMAIN entries : entries'[i] = entries[j]
                        /\ ~Removes(c, entries'[i].val)
    <3> DEFINE t == Store!Retained(es, Weight[c])
    <3>1. Proper(t) /\ From(t, es)
      BY <2>3, RetainedProper
    <3> HIDE DEF t
    <3>2. \A i \in DOMAIN t : t[i].key # k /\ \E j \in DOMAIN entries : t[i] = entries[j]
      BY <2>3, <3>1 DEF From
    <3>3. /\ Proper(entries')
          /\ \A i \in DOMAIN entries' : entries'[i] = e \/ \E j \in DOMAIN t : entries'[i] = t[j]
      BY <2>2, <2>3, <3>1, <3>2, PushedProper DEF t
    <3>4. \A i \in DOMAIN t : ~Removes(c, t[i].val)
      BY <1>3, <1>8, <3>1, <3>2 DEF Removes
    <3> QED
      BY <2>2, <3>2, <3>3, <3>4
  <2>4. CASE Store!PutRefused(c, MaxItemBytes)
    <3>1. \A p : ~Removes(c, p)
      BY <1>8, <2>4 DEF Store!PutRefused, Removes
    <3> QED
      BY <1>4, <2>4, <3>1 DEF Store!PutRefused
  <2>5. CASE Store!PutPresent(k, c, MaxItemBytes)
    BY <1>1, <2>3, <2>5 DEF Store!PutPresent, e
  <2>6. CASE Store!PutAbsent(k, c, MaxItemBytes)
    <3>1. \A i \in DOMAIN entries : entries[i].key # k
      BY <2>6 DEF Store!PutAbsent, Store!Holds
    <3>2. From(entries, entries)
      BY DEF From
    <3> QED
      BY <2>3, <2>6, <3>1, <3>2 DEF Store!PutAbsent, e
  <2> QED
    BY <2>1, <2>4, <2>5, <2>6
<1> QED
  BY <1>5, <1>6, <1>7, <1>8 DEF Kinds

(* Nothing is handled at first. *)
LEMMA InitRemovals == Init => RInv
<1> SUFFICES ASSUME Init PROVE RInv
  OBVIOUS
<1> USE CallsTyped
<1>1. entries = <<>> /\ \A w \in Workers : up[w] = <<>>
  BY DEF Init, Store!Init
<1>2. \A d \in Calls : did[d] = Store!NoResult /\ status[d] = "idle"
  BY DEF Init
<1>3. Proper(entries) /\ Gone
  BY <1>1 DEF Proper, Gone
<1>4. Ordered /\ Handled
  BY <1>1, <1>2 DEF Ordered, Handled, InUp
<1> QED
  BY <1>3, <1>4, InitInv DEF RInv

(* A new call comes last, in its channel and among the calls made. *)
LEMMA SendRemovals == ASSUME RInv, NEW c \in Calls, Send(c) PROVE RInv'
<1> DEFINE w == WorkerOf[c]
<1> USE CallsTyped DEF RInv, Inv
<1>1. w \in Workers /\ Inv'
  BY SendInv
<1>2. /\ idOf' = [idOf EXCEPT ![c] = reqId[w] + 1]
      /\ status' = [status EXCEPT ![c] = "open"]
      /\ up' = [up EXCEPT ![w] = Append(up[w], [id |-> reqId[w] + 1, call |-> c])]
      /\ status[c] = "idle" /\ UNCHANGED <<entries, did>>
  BY <1>1 DEF Send, Typed, NextId, Enqueue
<1>3. idOf[c] = 0 /\ did[c] = Store!NoResult /\ reqId[w] \in Nat
  BY <1>1, <1>2 DEF IdsUnique, Handled, Typed
<1>4. \A d \in Calls : /\ idOf[d] \in Nat /\ (WorkerOf[d] = w => idOf[d] <= reqId[w])
                       /\ idOf'[d] = IF d = c THEN reqId[w] + 1 ELSE idOf[d]
  BY <1>2 DEF IdsUnique, Typed
<1>5. \A v \in Workers : \A i \in DOMAIN up'[v] :
          \/ i \in DOMAIN up[v] /\ up'[v][i] = up[v][i]
          \/ v = w /\ i = Len(up[w]) + 1 /\ up'[v][i] = [id |-> reqId[w] + 1, call |-> c]
  BY <1>1, <1>2 DEF Typed
<1>6. Ordered'
  <2>1. \A i \in DOMAIN up[w] : up[w][i].id \in Nat /\ up[w][i].id <= reqId[w] /\ i \in Nat /\ i <= Len(up[w])
    <3>1. up[w] \in Seq(Messages) /\ Len(up[w]) \in Nat
      BY <1>1 DEF Typed
    <3>2. \A i \in DOMAIN up[w] : up[w][i] \in Messages /\ i \in Nat /\ i <= Len(up[w])
      BY <3>1
    <3>3. \A i \in DOMAIN up[w] : up[w][i].call \in Calls /\ WorkerOf[up[w][i].call] = w
                                  /\ up[w][i].id = idOf[up[w][i].call]
      BY <1>1, <3>2 DEF UpSound, Messages
    <3> QED
      BY <1>4, <3>2, <3>3
  <2>2. ASSUME NEW v \in Workers, NEW i \in DOMAIN up'[v], NEW j \in DOMAIN up'[v], i < j
        PROVE  up'[v][i].id < up'[v][j].id
    <3>1. CASE i \in DOMAIN up[v] /\ j \in DOMAIN up[v] /\ up'[v][i] = up[v][i] /\ up'[v][j] = up[v][j]
      BY <2>2, <3>1 DEF Ordered
    <3>2. CASE v = w /\ j = Len(up[w]) + 1 /\ up'[v][j].id = reqId[w] + 1
               /\ i \in DOMAIN up[v] /\ up'[v][i] = up[v][i]
      BY <1>3, <2>1, <3>2
    <3>3. CASE v = w /\ i = Len(up[w]) + 1
      <4>1. Len(up[w]) \in Nat
        BY <1>1 DEF Typed
      <4>2. j = Len(up[w]) + 1 \/ j \in DOMAIN up[w]
        BY <1>5, <3>3
      <4> QED
        BY <2>1, <2>2, <3>3, <4>1, <4>2
    <3> QED
      BY <1>5, <3>1, <3>2, <3>3
  <2> QED
    BY <2>2 DEF Ordered
<1>7. \A d \in Calls : InUp(d)' => InUp(d) \/ d = c
  BY <1>5 DEF InUp
<1>8. Handled'
  <2>1. \A d \in Calls : did'[d] # Store!NoResult => d # c /\ idOf'[d] = idOf[d] /\ idOf[d] # 0
    BY <1>2, <1>3, <1>4 DEF Handled
  <2>2. \A d, e \in Calls : WorkerOf[e] = WorkerOf[d] /\ InUp(e)' /\ did'[d] # Store!NoResult
                               => idOf'[d] < idOf'[e]
    BY <1>2, <1>3, <1>4, <1>7, <2>1 DEF Handled
  <2>3. \A d \in Calls : status'[d] = "answered" => did'[d] # Store!NoResult
    BY <1>2 DEF Handled, Typed
  <2> QED
    BY <2>1, <2>2, <2>3, ToldPrime DEF Handled
<1>9. Gone'
  <2>1. ASSUME NEW i \in DOMAIN entries, NEW d \in Calls, Before(entries[i].val, d)', d # c
        PROVE  Before(entries[i].val, d)
    <3> DEFINE p == entries[i].val
    <3>1. p \in Calls
      <4>1. entries[i] \in Bodies
        BY DEF Proper
      <4> QED
        BY <4>1 DEF Bodies
    <3>2. WorkerOf[p] = WorkerOf[d] /\ 0 < idOf'[p] /\ idOf'[p] < idOf'[d]
      BY <1>2, <2>1 DEF Before
    <3> HIDE DEF p
    <3>3. idOf'[d] = idOf[d] /\ idOf[d] \in Nat
      BY <1>4, <2>1
    <3>4. CASE p = c
      BY <1>3, <1>4, <3>2, <3>3, <3>4
    <3>5. CASE p # c
      <4>1. idOf'[p] = idOf[p]
        BY <1>4, <3>1, <3>5
      <4> QED
        BY <3>2, <3>3, <4>1 DEF Before, p
    <3> QED
      BY <3>4, <3>5
  <2>2. \A d, p : Removes(d, p)' <=> Removes(d, p)
    BY DEF Removes
  <2> QED
    BY <1>2, <1>3, <2>1, <2>2, ToldPrime DEF Gone
<1> QED
  BY <1>1, <1>2, <1>6, <1>8, <1>9 DEF Proper

(* What needs no more than that nothing comes into the channels, nothing
   happens to the cache, and only handled calls are told. *)
LEMMA QuietRemovals ==
    ASSUME RInv, Inv',
           UNCHANGED <<idOf, entries, did>>,
           \A v \in Workers : \A i \in DOMAIN up'[v] : i \in DOMAIN up[v] /\ up'[v][i] = up[v][i],
           \A d \in Calls : status'[d] = "answered" => status[d] = "answered" \/ did[d] # Store!NoResult
    PROVE  RInv'
<1> USE CallsTyped DEF RInv
<1>1. \A d \in Calls : InUp(d)' => InUp(d)
  BY DEF InUp
<1>2. Ordered'
  BY DEF Ordered
<1>3. Handled'
  BY <1>1, ToldPrime DEF Handled
<1>4. Proper(entries)'
  BY DEF Proper
<1>5. Gone'
  BY ToldPrime DEF Gone, Removes, Before
<1> QED
  BY <1>2, <1>3, <1>4, <1>5

(* The first call of a channel is handled: of the calls that it was to come
   after, none is still on its way. *)
LEMMA MasterRemovals ==
    ASSUME RInv, Inv', NEW w \in Workers,
           MasterGet(w) \/ MasterPut(w) \/ MasterDelete(w) \/ MasterClear(w) \/ MasterStats(w),
           ret' # Store!NoResult
    PROVE  RInv'
<1> USE CallsTyped DEF RInv
<1>0. PICK kind : Take(w, kind) /\ Reply(w)
  BY DEF MasterGet, MasterPut, MasterDelete, MasterClear, MasterStats
<1>1. /\ up[w] \in Seq(Messages) /\ up[w] # <<>> /\ Len(up[w]) \in Nat
      /\ Len(up[w]) >= 1 /\ First(w) = up[w][1] /\ First(w) \in Messages
  BY <1>0 DEF Take, Inv, Typed, First
<1>2. PICK c \in Calls : /\ c = First(w).call /\ WorkerOf[c] = w
                         /\ First(w).id = idOf[c] /\ idOf[c] # 0
  BY <1>1 DEF Inv, UpSound, Messages
<1>3. /\ up' = [up EXCEPT ![w] = Tail(@)]
      /\ did' = [did EXCEPT ![c] = ret']
      /\ UNCHANGED <<idOf, status>>
  BY <1>0, <1>2 DEF Take, Reply, worker
<1>4. \A d \in Calls : did'[d] = IF d = c THEN ret' ELSE did[d]
  BY <1>3 DEF Inv, Typed
<1>5. \A v \in Workers : \A i \in DOMAIN up'[v] : i \in Nat /\
          IF v = w THEN i + 1 \in DOMAIN up[v] /\ 1 < i + 1 /\ up'[v][i] = up[v][i + 1]
                   ELSE i \in DOMAIN up[v] /\ up'[v][i] = up[v][i]
  BY <1>1, <1>3 DEF Inv, Typed
<1>6. Ordered'
  <2>1. ASSUME NEW v \in Workers, NEW i \in DOMAIN up'[v], NEW j \in DOMAIN up'[v], i < j
        PROVE  up'[v][i].id < up'[v][j].id
    <3>1. i \in Nat /\ j \in Nat /\ i + 1 < j + 1
      BY <1>5, <2>1
    <3> QED
      BY <1>5, <2>1, <3>1 DEF Ordered
  <2> QED
    BY <2>1 DEF Ordered
<1>7. \A d \in Calls : InUp(d)' => InUp(d)
  BY <1>5 DEF InUp
<1>8. InUp(c)
  BY <1>1, <1>2 DEF InUp
<1>9. \A d \in Calls : InUp(d)' /\ WorkerOf[d] = w => idOf[c] < idOf[d]
  <2> SUFFICES ASSUME NEW d \in Calls, InUp(d)', WorkerOf[d] = w PROVE idOf[c] < idOf[d]
    OBVIOUS
  <2>1. PICK i \in DOMAIN up[w] : 1 < i /\ up[w][i].call = d
    BY <1>5 DEF InUp
  <2>2. up[w][i].id = idOf[d] /\ 1 \in DOMAIN up[w]
    BY <1>1, <2>1 DEF Inv, UpSound
  <2> QED
    BY <1>1, <1>2, <2>1, <2>2 DEF Ordered
<1>10. Handled'
  <2>1. \A d \in Calls : did'[d] # Store!NoResult => idOf'[d] # 0
    BY <1>2, <1>3, <1>4 DEF Handled
  <2>2. \A d, e \in Calls : WorkerOf[e] = WorkerOf[d] /\ InUp(e)' /\ did'[d] # Store!NoResult
                               => idOf'[d] < idOf'[e]
    BY <1>2, <1>3, <1>4, <1>7, <1>9 DEF Handled
  <2>3. \A d \in Calls : status'[d] = "answered" => did'[d] # Store!NoResult
    BY <1>3, <1>4 DEF Handled
  <2> QED
    BY <2>1, <2>2, <2>3, ToldPrime DEF Handled
<1>11. /\ Proper(entries')
       /\ \A i \in DOMAIN entries' :
             \/ entries'[i].val = c
             \/ /\ \E j \in DOMAIN entries : entries'[i] = entries[j]
                /\ ~Removes(c, entries'[i].val)
  BY <1>2, EntriesAfter
<1>12. Gone'
  <2> SUFFICES ASSUME NEW i \in DOMAIN entries', NEW d \in Calls,
                      Removes(d, entries'[i].val), Before(entries'[i].val, d)
               PROVE  did'[d] = Store!NoResult
    BY <1>3, ToldPrime DEF Gone, Removes, Before
  <2>1. CASE entries'[i].val = c
    <3>1. d # c /\ ~ (idOf[d] < idOf[c]) /\ WorkerOf[c] = WorkerOf[d]
      BY <2>1 DEF Before, Inv, Typed
    <3>2. did[d] = Store!NoResult
      BY <1>8, <3>1 DEF Handled
    <3> QED
      BY <1>4, <3>1, <3>2
  <2>2. CASE \E j \in DOMAIN entries : entries'[i] = entries[j]
    <3>1. CASE ~Removes(c, entries'[i].val)
      <4>1. d # c /\ did[d] = Store!NoResult
        BY <2>2, <3>1 DEF Gone
      <4> QED
        BY <1>4, <4>1
    <3> QED
      BY <1>11, <2>1, <3>1
  <2> QED
    BY <1>11, <2>1, <2>2
<1> QED
  BY <1>6, <1>10, <1>11, <1>12 DEF Proper

(* Only a call that was handled is told. *)
LEMMA ToldOnly ==
    ASSUME Inv, NEW w \in Workers, Deliver(w)
    PROVE  \A d \in Calls : status'[d] = "answered"
                               => status[d] = "answered" \/ did[d] # Store!NoResult
<1> USE CallsTyped DEF Inv
<1>1. PICK S : down[w] \in Seq(S)
  BY DEF Replies
<1>2. down[w] # <<>> /\ Len(down[w]) >= 1 /\ Head(down[w]) = down[w][1]
  BY <1>1 DEF Deliver
<1>3. PICK c \in Calls :
          /\ WorkerOf[c] = w /\ Head(down[w]).id = idOf[c] /\ idOf[c] # 0
          /\ did[c] # Store!NoResult
  BY <1>1, <1>2 DEF DownSound
<1>4. Called(w, Head(down[w]).id) \subseteq {c}
  BY <1>3 DEF Called, PendingExact, IdsUnique
<1> QED
  BY <1>3, <1>4 DEF Deliver

(* cacheManager.js:105: once the caller of a removal is told, no body that its
   worker had put there before is in the cache, nor does one come back. *)
THEOREM RemovedCorrect == Spec => []RemovedForGood
<1>1. RInv /\ Inv' /\ [Next]_vars => RInv'
  <2> SUFFICES ASSUME RInv, Inv', [Next]_vars PROVE RInv'
    OBVIOUS
  <2> USE DEF RInv
  <2>1. ASSUME NEW c \in Calls, Send(c) PROVE RInv'
    BY <2>1, SendRemovals
  <2>2. ASSUME NEW c \in Calls, Timeout(c) PROVE RInv'
    BY <2>2, QuietRemovals DEF Timeout, Inv, Typed
  <2>3. ASSUME NEW w \in Workers,
               MasterGet(w) \/ MasterPut(w) \/ MasterDelete(w) \/ MasterClear(w) \/ MasterStats(w)
        PROVE  RInv'
    <3>1. ret' # Store!NoResult
      BY <2>3, ResultIsSome DEF Kinds, MasterGet, MasterPut, MasterDelete, MasterClear,
         MasterStats, Store!GetHit, Store!GetMiss, Store!PutRefused, Store!PutPresent,
         Store!PutAbsent, Store!Delete, Store!Clear
    <3> QED
      BY <2>3, <3>1, MasterRemovals
  <2>4. ASSUME NEW w \in Workers, Deliver(w) PROVE RInv'
    <3>1. \A d \in Calls : status'[d] = "answered" => status[d] = "answered" \/ did[d] # Store!NoResult
      BY <2>4, ToldOnly
    <3> QED
      BY <2>4, <3>1, QuietRemovals DEF Deliver
  <2>5. ASSUME NEW w \in Workers, Die(w) PROVE RInv'
    <3>1. \A v \in Workers : \A i \in DOMAIN up'[v] : i \in DOMAIN up[v] /\ up'[v][i] = up[v][i]
      BY <2>5 DEF Die, Inv, Typed
    <3> QED
      BY <2>5, <3>1, QuietRemovals DEF Die, Inv, Typed
  <2>6. CASE UNCHANGED vars
    BY <2>6, QuietRemovals DEF vars, worker
  <2> QED
    BY <2>1, <2>2, <2>3, <2>4, <2>5, <2>6 DEF Next
<1>2. RInv => RemovedForGood
  BY DEF RInv, Gone, Handled, RemovedForGood
<1> QED
  BY <1>1, <1>2, InitRemovals, InvCorrect, PTL DEF Spec

-----------------------------------------------------------------------------
(* The refinement.  The line of a worker is the calls in its messages to the
   master; answers on their way back do not show, because the invariant says
   that each is what its call did. *)

Callees(s) == [i \in DOMAIN s |-> s[i].call]
Line == [w \in Workers |-> Callees(up[w])]

(* The calls in a sequence of messages. *)
LEMMA CalleesSeq ==
    ASSUME NEW s \in Seq(Messages)
    PROVE  /\ Callees(s) \in Seq(Calls) /\ Len(Callees(s)) = Len(s)
           /\ \A i \in 1..Len(s) : Callees(s)[i] = s[i].call
<1>0. DOMAIN s = 1..Len(s) /\ Len(s) \in Nat /\ \A i \in 1..Len(s) : s[i] \in Messages
  BY ElementOfSeq, LenProperties
<1>1. DOMAIN s = 1..Len(s) /\ Len(s) \in Nat /\ \A i \in 1..Len(s) : s[i].call \in Calls
  BY <1>0 DEF Messages
<1>2. Callees(s) \in [1..Len(s) -> Calls]
  BY <1>1 DEF Callees
<1>3. Callees(s) \in Seq(Calls)
  BY <1>1, <1>2, SeqDef
<1>4. Len(Callees(s)) = Len(s)
  BY <1>1, <1>2, <1>3
<1> QED
  BY <1>1, <1>3, <1>4 DEF Callees

(* A message is added at the end of the line. *)
LEMMA CalleesAppend ==
    ASSUME NEW s \in Seq(Messages), NEW m \in Messages
    PROVE  Callees(Append(s, m)) = Append(Callees(s), m.call)
<1>1. Append(s, m) \in Seq(Messages) /\ Len(Append(s, m)) = Len(s) + 1 /\ m.call \in Calls
  BY DEF Messages
<1>2. Callees(s) \in Seq(Calls) /\ Len(Callees(s)) = Len(s) /\ Len(s) \in Nat
  BY CalleesSeq
<1>3. \A i \in 1..Len(Append(s, m)) :
          Callees(Append(s, m))[i] = IF i = Len(s) + 1 THEN m.call ELSE s[i].call
  <2>1. \A i \in 1..Len(Append(s, m)) : Callees(Append(s, m))[i] = Append(s, m)[i].call
    BY <1>1, CalleesSeq
  <2>2. \A i \in 1..(Len(s) + 1) : Append(s, m)[i] = IF i = Len(s) + 1 THEN m ELSE s[i]
    OBVIOUS
  <2> QED
    BY <1>1, <2>1, <2>2
<1>4. \A i \in 1..(Len(s) + 1) :
          Append(Callees(s), m.call)[i] = IF i = Len(s) + 1 THEN m.call ELSE s[i].call
  BY <1>1, <1>2, CalleesSeq
<1>5. Append(Callees(s), m.call) \in Seq(Calls) /\ Len(Append(Callees(s), m.call)) = Len(s) + 1
  BY <1>1, <1>2
<1>6. Callees(Append(s, m)) \in Seq(Calls) /\ Len(Callees(Append(s, m))) = Len(s) + 1
  BY <1>1, CalleesSeq
<1> QED
  BY <1>1, <1>3, <1>4, <1>5, <1>6, SeqEqual

(* The first message leaves the line. *)
LEMMA CalleesTail ==
    ASSUME NEW s \in Seq(Messages), s # <<>>
    PROVE  /\ Callees(s) # <<>> /\ Head(Callees(s)) = Head(s).call
           /\ Callees(Tail(s)) = Tail(Callees(s))
<1>1. Len(s) \in Nat \ {0} /\ Head(s) = s[1]
  OBVIOUS
<1>2. /\ Tail(s) \in Seq(Messages) /\ Len(Tail(s)) = Len(s) - 1
      /\ \A i \in 1..(Len(s) - 1) : Tail(s)[i] = s[i + 1]
  BY HeadTailProperties
<1>3. /\ Callees(s) \in Seq(Calls) /\ Len(Callees(s)) = Len(s)
      /\ \A i \in 1..Len(s) : Callees(s)[i] = s[i].call
  BY CalleesSeq
<1>4. Callees(s) # <<>> /\ Head(Callees(s)) = Head(s).call
  BY <1>1, <1>3
<1>5. /\ Tail(Callees(s)) \in Seq(Calls) /\ Len(Tail(Callees(s))) = Len(s) - 1
      /\ \A i \in 1..(Len(s) - 1) : Tail(Callees(s))[i] = Callees(s)[i + 1]
  BY <1>3, <1>4, HeadTailProperties
<1>6. /\ Callees(Tail(s)) \in Seq(Calls) /\ Len(Callees(Tail(s))) = Len(s) - 1
      /\ \A i \in 1..(Len(s) - 1) : Callees(Tail(s))[i] = Tail(s)[i].call
  BY <1>2, CalleesSeq
<1>7. \A i \in 1..(Len(s) - 1) : Tail(Callees(s))[i] = Callees(Tail(s))[i]
  BY <1>1, <1>2, <1>3, <1>5, <1>6
<1> QED
  BY <1>4, <1>5, <1>6, <1>7, SeqEqual

(* The last messages of a worker that ends may be lost. *)
LEMMA CalleesSubSeq ==
    ASSUME NEW s \in Seq(Messages), NEW n \in 0..Len(s)
    PROVE  Callees(SubSeq(s, 1, n)) = SubSeq(Callees(s), 1, n)
<1>1. Len(s) \in Nat /\ n \in Nat /\ n <= Len(s)
  OBVIOUS
<1>2. /\ Callees(s) \in Seq(Calls) /\ Len(Callees(s)) = Len(s)
      /\ \A i \in 1..Len(s) : Callees(s)[i] = s[i].call
  BY CalleesSeq
<1>3. /\ SubSeq(s, 1, n) \in Seq(Messages) /\ Len(SubSeq(s, 1, n)) = n
      /\ \A i \in 1..n : SubSeq(s, 1, n)[i] = s[i]
  BY <1>1
<1>4. /\ SubSeq(Callees(s), 1, n) \in Seq(Calls) /\ Len(SubSeq(Callees(s), 1, n)) = n
      /\ \A i \in 1..n : SubSeq(Callees(s), 1, n)[i] = Callees(s)[i]
  BY <1>1, <1>2
<1>5. /\ Callees(SubSeq(s, 1, n)) \in Seq(Calls) /\ Len(Callees(SubSeq(s, 1, n))) = n
      /\ \A i \in 1..n : Callees(SubSeq(s, 1, n))[i] = SubSeq(s, 1, n)[i].call
  BY <1>3, CalleesSeq
<1>6. \A i \in 1..n : SubSeq(Callees(s), 1, n)[i] = Callees(SubSeq(s, 1, n))[i]
  BY <1>1, <1>2, <1>3, <1>4, <1>5
<1> QED
  BY <1>4, <1>5, <1>6, SeqEqual

-----------------------------------------------------------------------------

(* Both modules tell the same of a result. *)
LEMMA SameTold == \A r : Service!Told(r) = Told(r)
  BY DEF Told, Service!Told, Store!Result, Service!Store!Result

(* A first state is a first state of the service. *)
LEMMA InitRefines == Init => Service!Init
<1> SUFFICES ASSUME Init PROVE Service!Init
  OBVIOUS
<1>1. [w \in Workers |-> [i \in DOMAIN up[w] |-> up[w][i].call]] = [w \in Workers |-> <<>>]
  <2>1. \A w \in Workers : up[w] = <<>>
    BY DEF Init
  <2>2. [i \in DOMAIN <<>> |-> <<>>[i].call] = <<>>
    OBVIOUS
  <2> QED
    BY <2>1, <2>2
<1>2. Service!Store!Init
  BY DEF Init, Store!Init, Store!NoResult, Store!Result,
         Service!Store!Init, Service!Store!NoResult, Service!Store!Result
<1> QED
  BY <1>1, <1>2 DEF Init, Service!Init, Store!NoResult, Store!Result,
                    Service!Store!NoResult, Service!Store!Result

(* A call is made: it joins the line of its worker. *)
LEMMA SendRefines ==
    ASSUME Inv, NEW c \in Calls, Send(c)
    PROVE  Service!Make(c)
<1> DEFINE w == WorkerOf[c]
           m == [id |-> NextId(w), call |-> c]
<1>1. w \in Workers /\ up[w] \in Seq(Messages) /\ NextId(w) \in Nat
  BY CallsTyped DEF Inv, Typed, NextId
<1>2. m \in Messages
  BY <1>1 DEF Messages
<1>3. up' = [up EXCEPT ![w] = Append(up[w], m)]
  BY DEF Send, Enqueue
<1>4. Callees(up'[w]) = Append(Callees(up[w]), c)
  BY <1>1, <1>2, <1>3, CalleesAppend DEF Inv, Typed
<1>5. Line' = [Line EXCEPT ![w] = Append(@, c)]
  BY <1>1, <1>3, <1>4 DEF Line, Inv, Typed
<1> QED
  BY <1>5 DEF Send, Service!Make, Line, Callees

(* A call that is given up stays in the line. *)
LEMMA TimeoutRefines ==
    ASSUME Inv, NEW c \in Calls, Timeout(c)
    PROVE  Service!GiveUp(c)
  BY DEF Timeout, Service!GiveUp

(* The master handles the first message of a worker: its call takes effect. *)
LEMMA MasterRefines ==
    ASSUME Inv, NEW w \in Workers, NEW kind, Take(w, kind), Reply(w),
           Service!Effect(First(w).call)
    PROVE  Service!TakeEffect(w)
<1>1. up[w] \in Seq(Messages) /\ up[w] # <<>> /\ up' = [up EXCEPT ![w] = Tail(@)]
  BY DEF Take, Inv, Typed
<1>2. /\ Line[w] # <<>> /\ Head(Line[w]) = First(w).call
      /\ Callees(up'[w]) = Tail(Line[w])
  BY <1>1, CalleesTail DEF Line, First, Inv, Typed
<1>3. Line' = [Line EXCEPT ![w] = Tail(@)]
  BY <1>1, <1>2 DEF Line, Inv, Typed
<1> HIDE DEF Line
<1>4. /\ did' = [did EXCEPT ![First(w).call] = ret'] /\ UNCHANGED <<alive, status, answer>>
  BY DEF Reply, worker
<1>5. Line = [v \in Workers |-> [i \in DOMAIN up[v] |-> up[v][i].call]]
  BY DEF Line, Callees
<1>6. Line' = [v \in Workers |-> [i \in DOMAIN up'[v] |-> up'[v][i].call]]
  BY DEF Line, Callees
<1> QED
  BY <1>2, <1>3, <1>4, <1>5, <1>6 DEF Service!TakeEffect

(* Both modules make room in the same way. *)
LEMMA SameRetained == \A es, n : Service!Store!Retained(es, n) = Store!Retained(es, n)
<1>1. \A es : Service!Store!Bytes(es) = Store!Bytes(es)
  BY DEF Store!Bytes, Store!MapThenSumSet, Store!MapThenFoldSet,
      Service!Store!Bytes, Service!Store!MapThenSumSet, Service!Store!MapThenFoldSet
<1>2. \A es, n : Service!Store!Fits(es, n) <=> Store!Fits(es, n)
  BY <1>1 DEF Store!Fits, Service!Store!Fits
<1> QED
  BY <1>2 DEF Store!Retained, Store!Max, Service!Store!Retained, Service!Store!Max

(* ... and take an entry out in the same way. *)
LEMMA SameWithout == \A k : Service!Store!Without(k) = Store!Without(k)
  BY DEF Store!Without, Store!Holds, Store!Lookup, Store!RemoveAt, Service!Store!Without,
      Service!Store!Holds, Service!Store!Lookup, Service!Store!RemoveAt

(* What the master does to the cache is the effect of the call. *)
LEMMA EffectRefines ==
    ASSUME NEW w \in Workers,
           MasterGet(w) \/ MasterPut(w) \/ MasterDelete(w) \/ MasterClear(w) \/ MasterStats(w)
    PROVE  Service!Effect(First(w).call)
<1> USE DEF Take, Key, Service!Effect, Store!Result, Service!Store!Result
<1>1. CASE MasterGet(w)
  BY <1>1, SameWithout DEF MasterGet, Store!GetHit, Store!GetMiss, Store!Holds, Store!Lookup,
      Service!Store!GetHit, Service!Store!GetMiss, Service!Store!Holds, Service!Store!Lookup
<1>2. CASE MasterPut(w)
  BY <1>2, SameRetained, SameWithout DEF MasterPut, Store!PutRefused, Store!PutPresent,
      Store!PutAbsent, Store!Holds, Store!Lookup, Service!Store!PutRefused,
      Service!Store!PutPresent, Service!Store!PutAbsent, Service!Store!Holds,
      Service!Store!Lookup
<1>3. CASE MasterDelete(w)
  BY <1>3, SameWithout DEF MasterDelete, Store!Delete, Store!Holds,
      Service!Store!Delete, Service!Store!Holds
<1>4. CASE MasterClear(w)
  BY <1>4 DEF MasterClear, Store!Clear, Service!Store!Clear
<1>5. CASE MasterStats(w)
  BY <1>5 DEF MasterStats
<1> QED
  BY <1>1, <1>2, <1>3, <1>4, <1>5

(* An answer arrives: the call that waits for it returns, or nobody does. *)
LEMMA DeliverRefines ==
    ASSUME Inv, NEW w \in Workers, Deliver(w)
    PROVE  (\E c \in Calls : Service!Return(c)) \/ UNCHANGED Service!vars
<1> DEFINE msg == Head(down[w])
           now == Called(w, msg.id)
<1> USE CallsTyped DEF Inv
<1>1. PICK S : down[w] \in Seq(S)
  BY DEF Replies
<1>2. down[w] # <<>> /\ Len(down[w]) >= 1 /\ msg = down[w][1]
  BY <1>1 DEF Deliver
<1>3. PICK c \in Calls :
          /\ WorkerOf[c] = w /\ msg.id = idOf[c] /\ idOf[c] # 0
          /\ msg.ret = Told(did[c]) /\ did[c] # Store!NoResult
  BY <1>1, <1>2 DEF DownSound
<1>4. now \subseteq {c} /\ now \subseteq pending[w]
  BY <1>3 DEF Called, PendingExact, IdsUnique
<1> HIDE DEF now, msg
<1>5. /\ status' = [d \in Calls |-> IF d \in now THEN "answered" ELSE status[d]]
      /\ answer' = [d \in Calls |-> IF d \in now THEN msg.ret ELSE answer[d]]
      /\ UNCHANGED <<up, alive, entries, ret, did>>
  BY DEF Deliver, now, msg
<1>6. CASE now = {}
  <2>1. status' = status /\ answer' = answer
    BY <1>5, <1>6 DEF Typed
  <2> QED
    BY <1>5, <2>1 DEF Service!vars
<1>7. CASE now = {c}
  <2>1. status[c] = "open"
    BY <1>4, <1>7 DEF PendingExact
  <2>2. status' = [status EXCEPT ![c] = "answered"]
    BY <1>5, <1>7 DEF Typed
  <2>3. answer' = [answer EXCEPT ![c] = Service!Told(did[c])]
    BY <1>3, <1>5, <1>7, SameTold DEF Typed
  <2>4. did[c] # Service!Store!NoResult
    BY <1>3 DEF Store!NoResult, Store!Result, Service!Store!NoResult, Service!Store!Result
  <2> QED
    BY <1>5, <2>1, <2>2, <2>3, <2>4 DEF Service!Return
<1> QED
  BY <1>4, <1>6, <1>7

(* A worker ends: so does its line, somewhere. *)
LEMMA DieRefines ==
    ASSUME Inv, NEW w \in Workers, Die(w)
    PROVE  Service!Break(w)
<1>1. PICK n \in 0..Len(up[w]) : up' = [up EXCEPT ![w] = SubSeq(@, 1, n)]
  BY DEF Die
<1>2. up[w] \in Seq(Messages)
  BY DEF Inv, Typed
<1>3. Len(Line[w]) = Len(up[w]) /\ Callees(up'[w]) = SubSeq(Line[w], 1, n)
  BY <1>1, <1>2, CalleesSeq, CalleesSubSeq DEF Line, Inv, Typed
<1>4. Line' = [Line EXCEPT ![w] = SubSeq(@, 1, n)]
  BY <1>1, <1>3 DEF Line, Inv, Typed
<1>5. status' = [c \in Calls |-> IF WorkerOf[c] = w /\ status[c] = "open"
                                 THEN "gone" ELSE status[c]]
  BY DEF Die, Inv, PendingExact
<1> HIDE DEF Line
<1>6. Line = [v \in Workers |-> [i \in DOMAIN up[v] |-> up[v][i].call]]
  BY DEF Line, Callees
<1>7. Line' = [v \in Workers |-> [i \in DOMAIN up'[v] |-> up'[v][i].call]]
  BY DEF Line, Callees
<1>8. w \in alive /\ alive' = alive \ {w} /\ UNCHANGED <<entries, ret, did, answer>>
  BY DEF Die
<1> QED
  BY <1>1, <1>3, <1>4, <1>5, <1>6, <1>7, <1>8 DEF Service!Break

(* All workers' calls together are a CacheService: each acts on the one cache
   in a single step, at most once, after the earlier ones of its worker, and
   its answer is that of its own step. *)
THEOREM ServiceCorrect == Spec => ImplementsCacheService
<1>1. Inv /\ [Next]_vars => [Service!Next]_(Service!vars)
  <2> SUFFICES ASSUME Inv, [Next]_vars PROVE Service!Next \/ UNCHANGED Service!vars
    OBVIOUS
  <2>1. ASSUME NEW c \in Calls, Send(c) PROVE Service!Next
    BY <2>1, SendRefines DEF Service!Next
  <2>2. ASSUME NEW c \in Calls, Timeout(c) PROVE Service!Next
    BY <2>2, TimeoutRefines DEF Service!Next
  <2>3. ASSUME NEW w \in Workers,
               MasterGet(w) \/ MasterPut(w) \/ MasterDelete(w) \/ MasterClear(w) \/ MasterStats(w)
        PROVE  Service!Next
    <3>1. Service!Effect(First(w).call)
      BY <2>3, EffectRefines
    <3>2. PICK kind \in Kinds : Take(w, kind) /\ Reply(w)
      BY <2>3 DEF Kinds, MasterGet, MasterPut, MasterDelete, MasterClear, MasterStats
    <3>3. Service!TakeEffect(w)
      BY <3>1, <3>2, MasterRefines
    <3> QED
      BY <3>3 DEF Service!Next
  <2>4. ASSUME NEW w \in Workers, Deliver(w) PROVE Service!Next \/ UNCHANGED Service!vars
    BY <2>4, DeliverRefines DEF Service!Next
  <2>5. ASSUME NEW w \in Workers, Die(w) PROVE Service!Next
    BY <2>5, DieRefines DEF Service!Next
  <2>6. CASE UNCHANGED vars
    BY <2>6 DEF vars, worker, Service!vars
  <2> QED
    BY <2>1, <2>2, <2>3, <2>4, <2>5, <2>6 DEF Next
<1> QED
  BY <1>1, InitRefines, InvCorrect, PTL DEF Spec, ImplementsCacheService, Service!Spec
=============================================================================
