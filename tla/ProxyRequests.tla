--------------------------- MODULE ProxyRequests ---------------------------
(***************************************************************************)
(* The life of proxy requests in cluster mode: handleRequest of            *)
(* src/proxyHandler.js with the single-flight table of src/singleFlight.js *)
(* and the client side of src/cacheManager.js.  Every await is a point     *)
(* where other requests run; every cache call is a message to the master,  *)
(* which answers in its own time or not before the 2 s limit of _sendIpc.  *)
(*                                                                         *)
(* A response body is named by the request that fetched it from upstream.  *)
(* The master's cache is a map from keys to bodies that other traffic      *)
(* evicts from at any time (module LRUStore says when); the origin server, *)
(* DNS and the client are external and do what they like.                  *)
(***************************************************************************)
EXTENDS FiniteSets

CONSTANTS
    Requests,
    Workers, WorkerOf,      \* the worker process a request arrives at
    Keys, KeyOf,            \* cacheKey
    MethodOf,               \* "GET", "HEAD" or "POST"
    None

ASSUME RequestsAssumption ==
    /\ WorkerOf \in [Requests -> Workers]
    /\ KeyOf \in [Requests -> Keys]
    /\ MethodOf \in [Requests -> {"GET", "HEAD", "POST"}]
    /\ {None, "error", "streamed"} \cap Requests = {}

VARIABLES
    stage,      \* the await a request is at
    reply,      \* answer of the master on its way back
    outcome,    \* what the client was sent: a body, "error" or "streamed"
    flight,     \* singleFlight.inFlight of each worker: key -> leader
    puts,       \* CACHE_PUT messages on their way to the master
    cache,      \* the master's cache
    stored,     \* history: requests that fetched a body and sent it to the cache
    calm        \* history: no timeout, eviction or crash so far

vars == <<stage, reply, outcome, flight, puts, cache, stored, calm>>

Leading == {"recheck", "reanswer", "fetch", "store"}
Over == {"done", "lost"}
Active(r) == stage[r] \notin {"new"} \cup Over

FlightOf(r) == flight[WorkerOf[r]][KeyOf[r]]
SameFlight(r, q) == WorkerOf[q] = WorkerOf[r] /\ KeyOf[q] = KeyOf[r]

Init ==
    /\ stage = [r \in Requests |-> "new"]
    /\ reply = [r \in Requests |-> None]
    /\ outcome = [r \in Requests |-> None]
    /\ flight = [w \in Workers |-> [k \in Keys |-> None]]
    /\ puts = {} /\ stored = {}
    /\ cache = [k \in Keys |-> None]
    /\ calm = TRUE

IsCacheable(r) == MethodOf[r] \in {"GET", "HEAD"}

(* Destination validation passes or answers 400 or 403; a cacheable request
   asks the cache, any other is streamed. *)
Arrive(r) ==
    /\ stage[r] = "new"
    /\ stage' = [stage EXCEPT ![r] = IF IsCacheable(r) THEN "lookup" ELSE "stream"]
    /\ UNCHANGED <<reply, outcome, flight, puts, cache, stored, calm>>

Refuse(r) ==
    /\ stage[r] = "new"
    /\ stage' = [stage EXCEPT ![r] = "done"]
    /\ outcome' = [outcome EXCEPT ![r] = "error"]
    /\ UNCHANGED <<reply, flight, puts, cache, stored, calm>>

(* Fault: the answer goes to whoever in that worker waits, not by its id. *)
MasterGetToAnyone(r) ==
    /\ \/ stage[r] = "lookup" /\ stage' = [stage EXCEPT ![r] = "answer"]
       \/ stage[r] = "recheck" /\ stage' = [stage EXCEPT ![r] = "reanswer"]
    /\ \E q \in Requests : WorkerOf[q] = WorkerOf[r] /\ reply' = [reply EXCEPT ![q] = cache[KeyOf[r]]]
    /\ UNCHANGED <<outcome, flight, puts, cache, stored, calm>>

(* The master looks the key up, for either of the two lookups. *)
MasterGet(r) ==
    /\ \/ stage[r] = "lookup" /\ stage' = [stage EXCEPT ![r] = "answer"]
       \/ stage[r] = "recheck" /\ stage' = [stage EXCEPT ![r] = "reanswer"]
    /\ reply' = [reply EXCEPT ![r] = cache[KeyOf[r]]]
    /\ UNCHANGED <<outcome, flight, puts, cache, stored, calm>>

(* singleFlight.do: wait for the request that leads, or become it. *)
JoinOrLead(r) ==
    IF FlightOf(r) # None
    THEN /\ stage' = [stage EXCEPT ![r] = "follow"]
         /\ UNCHANGED flight
    ELSE /\ stage' = [stage EXCEPT ![r] = "recheck"]
         /\ flight' = [flight EXCEPT ![WorkerOf[r]][KeyOf[r]] = r]

(* Fault: the table entry is removed only when the flight succeeded. *)
SettleKeepsFailed(r, result) ==
    LET ends == {r} \cup {q \in Requests : stage[q] = "follow" /\ SameFlight(r, q)}
    IN  /\ flight' = IF result = "error" THEN flight
                     ELSE [flight EXCEPT ![WorkerOf[r]][KeyOf[r]] = None]
        /\ stage' = [q \in Requests |-> IF q \in ends THEN "done" ELSE stage[q]]
        /\ outcome' = [q \in Requests |-> IF q \in ends THEN result ELSE outcome[q]]

(* Fault: only the leader hears of the result. *)
SettleLeaderOnly(r, result) ==
    /\ flight' = [flight EXCEPT ![WorkerOf[r]][KeyOf[r]] = None]
    /\ stage' = [stage EXCEPT ![r] = "done"]
    /\ outcome' = [outcome EXCEPT ![r] = result]

(* The promise of the flight settles: its table entry goes, the leader and
   all that joined it answer their clients the same. *)
Settle(r, result) ==
    LET ends == {r} \cup {q \in Requests : stage[q] = "follow" /\ SameFlight(r, q)}
    IN  /\ flight' = [flight EXCEPT ![WorkerOf[r]][KeyOf[r]] = None]
        /\ stage' = [q \in Requests |-> IF q \in ends THEN "done" ELSE stage[q]]
        /\ outcome' = [q \in Requests |-> IF q \in ends THEN result ELSE outcome[q]]

(* The answer to the first lookup: a hit is sent to the client. *)
Hit(r) ==
    /\ stage[r] = "answer" /\ reply[r] # None
    /\ stage' = [stage EXCEPT ![r] = "done"]
    /\ outcome' = [outcome EXCEPT ![r] = reply[r]]
    /\ UNCHANGED <<reply, flight, puts, cache, stored, calm>>

Miss(r) ==
    /\ stage[r] = "answer" /\ reply[r] = None
    /\ JoinOrLead(r)
    /\ UNCHANGED <<reply, outcome, puts, cache, stored, calm>>

(* After 2 s without an answer the lookup counts as a miss; the answer, when
   it comes, is ignored. *)
LookupTimeout(r) ==
    /\ stage[r] \in {"lookup", "answer"}
    /\ JoinOrLead(r)
    /\ calm' = FALSE
    /\ UNCHANGED <<reply, outcome, puts, cache, stored>>

(* Fault: the leader does not look at the cache again. *)
RecheckIgnored(r) ==
    /\ stage[r] = "reanswer"
    /\ stage' = [stage EXCEPT ![r] = "fetch"]
    /\ UNCHANGED <<reply, outcome, flight, puts, cache, stored, calm>>

(* The leader's second look at the cache. *)
Recheck(r) ==
    /\ stage[r] = "reanswer"
    /\ IF reply[r] # None
       THEN Settle(r, reply[r])
       ELSE stage' = [stage EXCEPT ![r] = "fetch"] /\ UNCHANGED <<outcome, flight>>
    /\ UNCHANGED <<reply, puts, cache, stored, calm>>

RecheckTimeout(r) ==
    /\ stage[r] \in {"recheck", "reanswer"}
    /\ stage' = [stage EXCEPT ![r] = "fetch"]
    /\ calm' = FALSE
    /\ UNCHANGED <<reply, outcome, flight, puts, cache, stored>>

(* A complete 200 response within the item limit goes to the cache first. *)
FetchCacheable(r) ==
    /\ stage[r] = "fetch"
    /\ stage' = [stage EXCEPT ![r] = "store"]
    /\ puts' = puts \cup {r} /\ stored' = stored \cup {r}
    /\ UNCHANGED <<reply, outcome, flight, cache, calm>>

(* Another status or a larger body is not stored; a connection error or
   timeout rejects the promise. *)
FetchOther(r) ==
    /\ stage[r] = "fetch"
    /\ \/ Settle(r, r)
       \/ Settle(r, "error")
    /\ UNCHANGED <<reply, puts, cache, stored, calm>>

MasterPut(r) ==
    /\ r \in puts
    /\ puts' = puts \ {r}
    /\ cache' = [cache EXCEPT ![KeyOf[r]] = r]
    /\ UNCHANGED <<stage, reply, outcome, flight, stored, calm>>

PutAck(r) ==
    /\ stage[r] = "store" /\ r \notin puts
    /\ Settle(r, r)
    /\ UNCHANGED <<reply, puts, cache, stored, calm>>

(* The put may still reach the master later. *)
PutTimeout(r) ==
    /\ stage[r] = "store" /\ r \in puts
    /\ Settle(r, r)
    /\ calm' = FALSE
    /\ UNCHANGED <<reply, puts, cache, stored>>

(* forwardRequestStream is over, well or not. *)
StreamEnd(r) ==
    /\ stage[r] = "stream"
    /\ stage' = [stage EXCEPT ![r] = "done"]
    /\ outcome' = [outcome EXCEPT ![r] = "streamed"]
    /\ UNCHANGED <<reply, flight, puts, cache, stored, calm>>

(* The client goes away.  Only a streamed exchange listens for it; a request
   at any other await goes on as if nothing had happened. *)
Disconnect(r) ==
    /\ stage[r] = "stream"
    /\ stage' = [stage EXCEPT ![r] = "lost"]
    /\ UNCHANGED <<reply, outcome, flight, puts, cache, stored, calm>>

(* Eviction, delete, clear, or an entry the master's cache refuses. *)
Evict(k) ==
    /\ cache[k] # None
    /\ cache' = [cache EXCEPT ![k] = None]
    /\ calm' = FALSE
    /\ UNCHANGED <<stage, reply, outcome, flight, puts, stored>>

(* A worker process dies, with the puts it had not written to the channel;
   its replacement starts with an empty table. *)
Crash(w) ==
    /\ \E r \in Requests : WorkerOf[r] = w /\ Active(r)
    /\ puts' \in {puts, {r \in puts : WorkerOf[r] # w}}
    /\ stage' = [r \in Requests |-> IF WorkerOf[r] = w /\ Active(r) THEN "lost" ELSE stage[r]]
    /\ flight' = [flight EXCEPT ![w] = [k \in Keys |-> None]]
    /\ calm' = FALSE
    /\ UNCHANGED <<reply, outcome, cache, stored>>

(* What goes on by itself once a request has arrived: the worker's event
   loop, its timers, the master, and the origin, which answers or is cut off
   by UPSTREAM_TIMEOUT_MS. *)
Progress(r) ==
    \/ MasterGet(r) \/ Hit(r) \/ Miss(r) \/ LookupTimeout(r)
    \/ Recheck(r) \/ RecheckTimeout(r)
    \/ FetchCacheable(r) \/ FetchOther(r) \/ MasterPut(r) \/ PutAck(r) \/ PutTimeout(r)
    \/ StreamEnd(r)

Next ==
    \/ \E r \in Requests : Arrive(r) \/ Refuse(r) \/ Progress(r) \/ Disconnect(r)
    \/ \E k \in Keys : Evict(k)
    \/ \E w \in Workers : Crash(w)

Spec == Init /\ [][Next]_vars

FairSpec == Spec /\ \A r \in Requests : WF_vars(Progress(r))

-----------------------------------------------------------------------------
TypeOK ==
    /\ stage \in [Requests -> {"new", "lookup", "answer", "follow", "stream"} \cup Leading \cup Over]
    /\ reply \in [Requests -> Requests \cup {None}]
    /\ outcome \in [Requests -> Requests \cup {None, "error", "streamed"}]
    /\ flight \in [Workers -> [Keys -> Requests \cup {None}]]
    /\ puts \subseteq stored /\ stored \subseteq Requests
    /\ cache \in [Keys -> Requests \cup {None}]
    /\ calm \in BOOLEAN

(* The table of each worker names exactly the requests that are leading, and
   nobody waits for a flight that has landed: a request that follows has a
   leader at work in its own worker, so no two requests of a worker fetch
   the same key at once and none is left behind. *)
FlightSound ==
    /\ \A r \in Requests : stage[r] \in Leading <=> FlightOf(r) = r
    /\ \A r \in Requests : stage[r] = "follow" => FlightOf(r) # None
    /\ \A w \in Workers, k \in Keys : flight[w][k] # None =>
          WorkerOf[flight[w][k]] = w /\ KeyOf[flight[w][k]] = k

(* A client is sent a body of the key it asked for, by way of the flight,
   the cache, or a body stored by a request long gone. *)
OwnKey == \A r \in Requests : outcome[r] \in Requests => KeyOf[outcome[r]] = KeyOf[r]

(* Why the leader looks at the cache again (src/proxyHandler.js:91): as long
   as nothing times out, is evicted or crashes, a worker fetches a cacheable
   body at most once, even if a request missed before the body was stored
   and came to the table after its flight had landed. *)
FetchedOncePerWorker ==
    calm => \A r, q \in stored : SameFlight(r, q) => r = q

(* README.md:66, "preserve exact byte lengths": a GET is answered with a
   body that was fetched by a GET. *)
GetHasBody ==
    \A r \in Requests : MethodOf[r] = "GET" /\ outcome[r] \in Requests => MethodOf[outcome[r]] = "GET"

(* Every request that arrives is answered, unless its worker dies or its
   client leaves: followers too, and however the flight ends. *)
EveryoneAnswered == \A r \in Requests : Active(r) ~> stage[r] \in Over
=============================================================================
