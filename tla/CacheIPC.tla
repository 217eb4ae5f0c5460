------------------------------ MODULE CacheIPC ------------------------------
(***************************************************************************)
(* The calls of src/cacheManager.js in the workers, the channels to the    *)
(* master and back, and the master's dispatcher in src/workerManager.js.   *)
(* A worker has many calls open at a time, one for each request it serves  *)
(* and for the dashboard; ids tell their answers apart.  Calls is the set  *)
(* of calls that may ever be made, each once; a put is named by the body   *)
(* it carries.  The master handles a message without interruption, so its  *)
(* cache is LRUStore, which LRUCache implements.                           *)
(***************************************************************************)
EXTENDS Integers, Sequences, FiniteSets

CONSTANTS Workers, Calls, WorkerOf, Kind, KeyOf, Keys, Weight, MaxEntries,
          MaxBytes, MaxItemBytes, NoValue,
          MaxMade   \* bound: how many of Calls are made in one behaviour

Kinds == {"get", "put", "delete", "clear", "stats"}

ASSUME CallsTyped ==
    /\ WorkerOf \in [Calls -> Workers]
    /\ Kind \in [Calls -> Kinds]

ASSUME BodiesMeasured ==
    /\ Weight \in [Calls -> Nat]
    /\ MaxItemBytes \in Nat

VARIABLES
    reqId,          \* of each worker: the last id it used
    idOf,           \* the id of each call, 0 before it is made
    pending,        \* of each worker: the calls in pendingIpc
    status,         \* of each call: idle, open, answered, given up, gone
    answer,         \* what an answered call was told
    up, down,       \* of each worker: messages to and from the master
    alive,          \* workers whose process runs
    entries, ret,   \* the master's cache and its last result
    did             \* history: what the cache returned to each call

worker == <<reqId, idOf, pending, status, answer, alive>>
vars == <<worker, up, down, entries, ret, did>>

Store == INSTANCE LRUStore WITH
    Values <- Calls, ItemLimits <- {MaxItemBytes}, PutReplaces <- TRUE

Init ==
    /\ reqId = [w \in Workers |-> 0]
    /\ idOf = [c \in Calls |-> 0]
    /\ pending = [w \in Workers |-> {}]
    /\ status = [c \in Calls |-> "idle"]
    /\ answer = [c \in Calls |-> Store!NoResult]
    /\ up = [w \in Workers |-> <<>>]
    /\ down = [w \in Workers |-> <<>>]
    /\ alive = Workers
    /\ Store!Init
    /\ did = [c \in Calls |-> Store!NoResult]

Called(w, id) == {c \in pending[w] : idOf[c] = id}

(* Fault: an id is the number of messages under way, plus one. *)
NextIdFromSize(w) == Len(up[w]) + Len(down[w]) + 1
NextId(w) == reqId[w] + 1

(* Fault: a clear overtakes the messages before it. *)
EnqueueClearFirst(w, msg) ==
    IF Kind[msg.call] = "clear" THEN <<msg>> \o up[w] ELSE Append(up[w], msg)
Enqueue(w, msg) == Append(up[w], msg)

(* A worker's call begins: _sendIpc registers it and sends its message. *)
Send(c) == LET w == WorkerOf[c] IN
    /\ w \in alive /\ status[c] = "idle"
    /\ Cardinality({d \in Calls : status[d] # "idle"}) < MaxMade
    /\ reqId' = [reqId EXCEPT ![w] = NextId(w)]
    /\ idOf' = [idOf EXCEPT ![c] = NextId(w)]
    /\ pending' = [pending EXCEPT ![w] = (@ \ Called(w, NextId(w))) \cup {c}]
    /\ status' = [status EXCEPT ![c] = "open"]
    /\ up' = [up EXCEPT ![w] = Enqueue(w, [id |-> NextId(w), call |-> c])]
    /\ UNCHANGED <<answer, down, alive, entries, ret, did>>

(* Fault: a call that got no answer in time is sent once more. *)
TimeoutRetries(c) == LET w == WorkerOf[c] IN
    /\ status[c] = "open" /\ c \in pending[w]
    /\ up' = [up EXCEPT ![w] = Enqueue(w, [id |-> idOf[c], call |-> c])]
    /\ UNCHANGED <<worker, down, entries, ret, did>>

(* 2 s have passed without an answer.  get then reports a miss, delete that
   there was nothing, getStats the worker's own cache, which is empty; put and
   clear return as if they had been acknowledged. *)
Timeout(c) == LET w == WorkerOf[c] IN
    /\ status[c] = "open" /\ c \in pending[w]
    /\ pending' = [pending EXCEPT ![w] = @ \ {c}]
    /\ status' = [status EXCEPT ![c] = "given up"]
    /\ UNCHANGED <<reqId, idOf, answer, up, down, alive, entries, ret, did>>

(* The master takes the next message of w, and answers what its cache did.
   The acknowledgement of a put does not say whether it was stored. *)
First(w) == Head(up[w])
Key(w) == KeyOf[First(w).call]

Take(w, kind) ==
    /\ up[w] # <<>> /\ Kind[First(w).call] = kind
    /\ up' = [up EXCEPT ![w] = Tail(@)]

Told(r) == IF r.kind = "put" THEN Store!Result("put", NoValue, TRUE, NoValue) ELSE r

Reply(w) ==
    /\ did' = [did EXCEPT ![First(w).call] = ret']
    /\ down' = IF w \in alive
               THEN [down EXCEPT ![w] = Append(@, [id |-> First(w).id, ret |-> Told(ret')])]
               ELSE down
    /\ UNCHANGED worker

MasterGet(w) == Take(w, "get") /\ (Store!GetHit(Key(w)) \/ Store!GetMiss(Key(w))) /\ Reply(w)

MasterPut(w) == LET body == First(w).call IN
    /\ Take(w, "put")
    /\ \/ Store!PutRefused(body, MaxItemBytes)
       \/ Store!PutPresent(Key(w), body, MaxItemBytes)
       \/ Store!PutAbsent(Key(w), body, MaxItemBytes)
    /\ Reply(w)

MasterDelete(w) == Take(w, "delete") /\ Store!Delete(Key(w)) /\ Reply(w)

MasterClear(w) == Take(w, "clear") /\ Store!Clear /\ Reply(w)

MasterStats(w) ==
    /\ Take(w, "stats")
    /\ ret' = Store!Result("stats", NoValue, TRUE, entries)
    /\ UNCHANGED entries
    /\ Reply(w)

(* Fault: the answer goes to the call that has waited longest. *)
DeliverToOldest(w) ==
    /\ w \in alive /\ down[w] # <<>> /\ pending[w] # {}
    /\ LET now == {c \in pending[w] : \A d \in pending[w] : idOf[c] <= idOf[d]} IN
        /\ pending' = [pending EXCEPT ![w] = @ \ now]
        /\ status' = [c \in Calls |-> IF c \in now THEN "answered" ELSE status[c]]
        /\ answer' = [c \in Calls |-> IF c \in now THEN Head(down[w]).ret ELSE answer[c]]
    /\ down' = [down EXCEPT ![w] = Tail(@)]
    /\ UNCHANGED <<reqId, idOf, up, alive, entries, ret, did>>

(* An answer arrives.  If its call is no longer pending it is ignored. *)
Deliver(w) ==
    /\ w \in alive /\ down[w] # <<>>
    /\ LET now == Called(w, Head(down[w]).id) IN
        /\ pending' = [pending EXCEPT ![w] = @ \ now]
        /\ status' = [c \in Calls |-> IF c \in now THEN "answered" ELSE status[c]]
        /\ answer' = [c \in Calls |-> IF c \in now THEN Head(down[w]).ret ELSE answer[c]]
    /\ down' = [down EXCEPT ![w] = Tail(@)]
    /\ UNCHANGED <<reqId, idOf, up, alive, entries, ret, did>>

(* A worker process ends.  The master still reads what it had written to the
   channel; what it had not yet written is lost, and so are its answers. *)
Die(w) ==
    /\ w \in alive
    /\ alive' = alive \ {w}
    /\ status' = [c \in Calls |-> IF c \in pending[w] THEN "gone" ELSE status[c]]
    /\ pending' = [pending EXCEPT ![w] = {}]
    /\ \E n \in 0..Len(up[w]) : up' = [up EXCEPT ![w] = SubSeq(@, 1, n)]
    /\ down' = [down EXCEPT ![w] = <<>>]
    /\ UNCHANGED <<reqId, idOf, answer, entries, ret, did>>

Next ==
    \/ \E c \in Calls : Send(c) \/ Timeout(c)
    \/ \E w \in Workers :
          \/ MasterGet(w) \/ MasterPut(w) \/ MasterDelete(w) \/ MasterClear(w)
          \/ MasterStats(w) \/ Deliver(w) \/ Die(w)

Spec == Init /\ [][Next]_vars

-----------------------------------------------------------------------------

(* cacheManager.js:23, 36: the map of pending calls is exactly the calls whose
   callers wait.  No entry stays behind when the timer and the answer race,
   and none is overwritten by another call. *)
PendingExact ==
    \A w \in Workers :
        pending[w] = {c \in Calls : WorkerOf[c] = w /\ status[c] = "open"}

(* cacheManager.js:21-28, workerManager.js:136: a call is only ever told what
   the cache did for that very call, however late the answer comes and
   however many calls of the worker were given up before. *)
OwnAnswer ==
    \A c \in Calls : status[c] = "answered" => answer[c] = Told(did[c])

Before(c, d) == WorkerOf[c] = WorkerOf[d] /\ 0 < idOf[c] /\ idOf[c] < idOf[d]

(* The call c is to remove the body that the put p carries. *)
Removes(c, p) ==
    \/ Kind[c] = "clear"
    \/ Kind[c] = "delete" /\ KeyOf[c] = KeyOf[p]
    \/ Kind[c] = "put" /\ KeyOf[c] = KeyOf[p] /\ Weight[c] <= MaxItemBytes

(* cacheManager.js:105, workerManager.js:155-165: once a clear, a delete or a
   newer body has been acknowledged, no put that the same worker made before
   it brings the old body back, even one given up and handled late. *)
RemovedForGood ==
    \A i \in DOMAIN entries, c \in Calls :
        Removes(c, entries[i].val) /\ Before(entries[i].val, c) => status[c] # "answered"

(* All workers' calls together are a CacheService. *)
Service == INSTANCE CacheService WITH
    phase <- status,
    line <- [w \in Workers |-> [i \in DOMAIN up[w] |-> up[w][i].call]]
ImplementsCacheService == Service!Spec
=============================================================================
