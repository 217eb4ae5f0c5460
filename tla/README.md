# Verification of the multithreaded caching proxy

This directory holds TLA+ modules for the proxy in `src/`, the TLC
configurations that check them on small instances, and proofs that the TLA+
proof system checks for every value of the constants. Everything is translated
from the JavaScript source; Node itself (cluster, worker threads, streams,
timers), the origin servers and the clients are modelled from how the code uses
them.

## 1. The system

The program runs in one of two forms.

* **Cluster mode** (`server.js`). A master process forks `numWorkers` workers.
  The master owns the only cache (`lruCache.js`); workers reach it over the IPC
  channel (`cacheManager.js` on the worker's side, `workerManager.js` on the
  master's). Each worker runs `handleRequest` (`proxyHandler.js`) with a
  single-flight table of its own (`singleFlight.js`).
* **Threads mode** (`threadedServer.js`). One process; the cache
  (`sharedMemoryLRU.js`) lives in a `SharedArrayBuffer` that the main thread and
  the pool's threads (`threadPool.js`, `threadWorker.js`) use directly under a
  lock word in the same buffer.

### Inventory

| Component | State it keeps | Operations | What is hard | What makes it correct |
|---|---|---|---|---|
| `SharedMemoryLRU` | header words, slot descriptors (two linked lists), byte arena | `get`, `put`, `delete`, `clear`, `_evictTail`, `_compact` | manual links and offsets in raw memory, long call sequences, sizes at the limit | lists partition the slots, no two payloads overlap, bytes are counted, an LRU map to the client |
| `SharedMutex` | one word | `lockSync`, `unlock` | threads that die holding it, waits that time out | mutual exclusion, nobody stuck |
| `LRUCache` | Map, list, two counters | `get`, `put`, `delete`, `clear` | counters by hand, evictions inside an update | Map and list agree, limits hold, an LRU map to the client |
| `handleRequest`, `SingleFlight` | stage of each request, in-flight table | arrive, look up, join or lead, fetch, store, settle | every `await` lets others run; time limits; late answers | the table is exact, one fetch per key, right body to the right client, everyone answered |
| `CacheManager` and the master's dispatcher | pending calls by id, the channels | GET, PUT, DELETE, CLEAR, STATS | a call given up whose message still arrives; many calls of a worker at once; a worker that dies | an answer reaches its own call or nobody, each call acts once and in order, what was removed stays removed |
| `upstreamClient` | one exchange: the client's buffer and drain listener, the upstream request and response | buffered fetch, streamed exchange | backpressure, disconnects and breaks at any moment, a client that stalls until the upstream socket times out | no hang, bounded memory, whole bodies, no write to a client that left, both sides released |
| `WorkerManager`, worker part of `server.js` | workers, restart timers, crash times, shutdown flag | spawn, exit, breaker, shutdown, drain, forced exits | crashes during a pause or a shutdown, racing timers | no worker lost or started late, everyone stops, requests drained |
| `ThreadPool`, `threadWorker` | workers, free stack, queue, pending tasks | `init`, `execute`, message, exit, `destroy` | a thread dies with a task in hand | one task per thread, every task in one place, every promise settles |
| `routes/dashboard` | none of its own | status, item, delete and clear over `CacheManager` | reports success without an acknowledgement | – |
| `threadedServer`, browser dashboard | none of their own | wiring, display | – | – |
| `security`, `httpUtils`, `config` | rate limiter counters (unused in `src/`) | address checks, header filters | – | – |

`PROJECT.json` lists the same components with their status, and the hazards
(`hazards`): each place where the code could go wrong in a way a unit test would
hardly reach, with the properties that would show it.

### How the components interact

```
 client --> handleRequest --> CacheManager.get --(IPC)--> master: LRUCache
                |                                   (threads mode: SharedMemoryLRU,
                v                                    under SharedMutex)
            SingleFlight.do --> second look --> fetchUpstreamResponse --> CacheManager.put
                |
                +--> all followers of the key answer with the same result

 WorkerManager --fork/exit/SHUTDOWN/disconnect--> workers (server.js)
 ThreadPool --postMessage/message/exit--> worker threads --> SharedMemoryLRU
```

## 2. Modules

### The core: the shared-memory cache

`LRUStore` is what a client of either cache is promised: a map in recency order
with an entry limit and a byte limit, each operation one step; a put drops the
shortest suffix of least recently used entries that makes room.

`SharedMemoryLRU` is the cache at the level of its buffer. State: header words
(`head`, `tail`, `freeHead`, `size`, `totalBytes`, `allocPtr`), the slots
(`active`, `prev`, `next`, `freeNext`, `off`, `len`, `hash`) and the arena, one
cell per byte unit. A call of `get`, `put` or `delete` starts a search; each
iteration of the bucket-less list search, of the eviction loops of `put` and of
`_compact` is one step (`pc`, `op`, `cur`, `newPtr`, `temp`). `MoveToHead`,
`EvictTail`, `Unlink` and `LinkFresh` are the link manipulations of
`_moveToHead`, `_evictTail`, `delete` and the end of `put`, word by word. An
arena cell remembers which pair was written to it, so a payload that another
entry overwrote, or that compaction moved to the wrong place, is seen by the
next reader. Each handle attached to the buffer has its own item limit
(`ItemLimits`), as the threads' handles have in the code.

`SharedMemoryLRURefinement` adds two history variables (entries in list order
and the last result with the key asked for, recorded whenever no operation runs)
and states that `SharedMemoryLRU` implements `LRUStore`.

`SharedMutex` is the lock: every atomic instruction on the lock word is a step.
`SharedMemoryLRU` runs one operation at a time, which is right exactly as long
as `ExclusiveUntilHealed` and no healing; composing the two is planned (section 7).

### The other components

| Module | Code | State and actions |
|---|---|---|
| `LRUCache` | `lruCache.js` | Map, list, `size`, `currentBytes`; eviction loops step by step; refines `LRUStore` |
| `CacheService` | what the calls of `cacheManager.js` promise together | the one cache, each call's phase, each worker's calls that have no effect yet |
| `CacheIPC` | `cacheManager.js` in a worker, the dispatcher of `workerManager.js`, the channels between them | `reqId` and the pending map of each worker, messages both ways, the master's cache (`LRUStore`); refines `CacheService` |
| `UpstreamClient` | `upstreamClient.js`, the `catch` of `proxyHandler.js`, and Node's streams as the code uses them | one exchange: mode, the client and its buffer, the upstream request and response, the promise |
| `ProxyRequests` | `proxyHandler.js`, `singleFlight.js`, the GET and PUT calls of `cacheManager.js` and their handling in `workerManager.js`, outcomes of `upstreamClient.js` | the await each request is at, the table of each worker, messages on their way, the master's cache as a map; a body is named by the request that fetched it |
| `WorkerManager` | `workerManager.js`, worker part of `server.js` | live workers with their phase, requests and channel; pending restart timers; crash counts by age; the master's and the workers' forced exits in ticks |
| `ThreadPool` | `threadPool.js`, `threadWorker.js` | queue, free stack, pending tasks, tasks posted to and answers from each thread, promises |

`MC*` modules give model values and definitions for TLC. Operators whose comment
begins with "Fault:" stand directly before the definition they spoil; they are in
no specification and serve to show that each property can fail.

`CacheIPC` looks at all calls of `CacheManager`, those of `handleRequest` and those
of the dashboard routes: `Send` gives the call the next id and a place in the
pending map, the master takes one message at a time (`MasterGet`, `MasterPut`,
`MasterDelete`, `MasterClear`, `MasterStats`), `Deliver` resolves the call whose id
the answer bears, `Timeout` gives a call up. A worker that dies leaves a prefix of
what it had sent. `CacheService` says what this amounts to: each call acts on one
cache in one step, at most once, in the order of its worker, and an answer tells
what that step did. The acknowledgement of a put does not tell whether the cache
took it, and a call given up may act later: both are in the abstract
specification because the code promises no more.

`UpstreamClient` counts data in chunks. `Receive` is the origin's side, `WriteData`
and `KeepData` the two `data` handlers, `ClientReads` the client's side with the
`drain` event, `ClientLeaves`, `Timeout`, `OriginCloses`, `ReqError` and
`SocketCloses` the ways in which an exchange ends badly. From Node it takes: a
paused response holds a little and then the socket is not read; a response that
flows emits what it holds before another event is handled; destroying a request
takes the data listeners off its response and lets it run out, then comes its
error, then the close, at which a response that is not complete fails.

Abstractions worth knowing: keys, values and tasks are model values; hashing is
a function that may collide; sizes are small numbers; URL checks end in a
choice between accepted and refused; time stamps, metrics and logging are left
out. In `ProxyRequests` the cache is a map that may drop any entry at any time,
which covers eviction, `delete`, `clear` and refusals.

## 3. What is checked

Passing runs, one for each component, two for the core:

| Run | Instance | Shows |
|---|---|---|
| `lru_lists` | 2 slots, 3 keys with one hash, entries of 1, 2 and 3, budget 4 above an arena of 2, two handles with different item limits | `RecencySound`, `FreeSound`: after every loop iteration the recency list is a doubly linked list of the active slots and the free list holds the others; a put that writes has a free slot; what could fit is never refused; evictions for the arena happen only when compaction does not help; every search, eviction and compaction loop ends |
| `lru_memory` | 2 slots, 3 keys, entries of 1 and 2 bytes, arena 4, budget 3 | type invariant, byte accounting, disjoint extents, intact payloads through compaction, the budget; and `ImplementsLRUStore`: what the client sees is an `LRUStore` |
| `lrucache` | 4 keys, 3 entries, entries of 1, 2 and 4, one too large | Map, list and counters agree; limits hold; it implements `LRUStore` |
| `mutex` | main thread and two workers, timeout 2 | exclusion and the meaning of the lock word until a wait times out; a waiting thread enters even if the holder died inside |
| `requests` | two GETs of one key and one of another in one worker, a POST in a second | the in-flight table is exact through time limits, late messages and crashes; while nothing goes wrong one request fetches; no client is sent another key's body; every request is answered or its client or worker is gone |
| `workers` | three workers, breaker at 3 crashes | live workers and pending restarts add up; no start after a shutdown began; the master never exits before its workers; a shutdown ends every process, though a request may hang |
| `ipc` | two workers that make up to four of seven calls on one key, one body too heavy | the pending map is exactly the calls whose callers wait; an answer is of the call it resolves; once a removal is acknowledged no earlier put of that worker brings the body back; the calls are a `CacheService` |
| `upstream` | bodies of up to seven chunks, room for two on either side, both modes | a paused stream has its drain to come, and one listener; no more than the two buffers is held; a response that ends normally is whole, but for a client that stalled; nothing is written to a client that left; both sides are released in the end |
| `pool` | three tasks, two threads, two deaths, destroy | each thread is free or has one task; each task is in one place; until a thread ends, none idles next to a waiting task and every promise settles |

Runs that show a disagreement between a document or comment and the code
(quoted under `findings` in `PROJECT.json`):

| Run | What happens |
|---|---|
| `requests_head` | the empty body of a HEAD answers a GET |
| `workers_drain` | the master's `disconnect` closes the channel of a draining worker, whose next `process.send` ends it. The order matters: the SHUTDOWN handler has already closed and forgotten the listening handle, so the disconnect has nothing to wait for |
| `upstream_buffer` | a fetch for the cache keeps all chunks of a body above the item limit; its caller looks at the size when the body has ended |

Further divergences that the models make plain and no run states: `put` of a
present key in the shared cache returns true and keeps the old value
(`LRUStore!PutPresent` with `PutReplaces` FALSE); with an item limit above the byte
budget one entry alone exceeds the budget, in both caches (the runs keep the
limit below the budget, as the default configuration does, and it is the
hypothesis of the theorems that depend on it); two workers fetch
the same URL at once; a coalesced fetch goes on when its only client has left;
restart timers set earlier fire during the breaker's pause; the status server
keeps the master alive until it is forced out with code 1. A wait for the lock
that times out clears it although its holder may be inside, and its caller then
enters (`SharedMutex!SelfHeal`): `MutualExclusion` holds only up to then. A thread
that dies takes the promise of its task along, and its replacement does not look
at the queue (`ThreadPool!OnExit`): `TasksSettle` holds only up to then. A client
that stalls for `UPSTREAM_TIMEOUT_MS` loses what a paused response held, and if the
whole body had arrived its answer ends as if it were complete (`EndedWhole`). A
client that stalls after the response has ended keeps its connection for as long
as it likes: there is no timer on that side. A put is acknowledged also when the
cache refused it, and the dashboard reports that the cache is cleared also when
no acknowledgement came.

### Bounds and why they are enough

* **Lists.** Two slots and three keys make the cache overflow, by entries, by bytes
  and for the arena; each slot is head, tail, both or free. A slot in the middle
  of the list does not occur: for the lists the run only confirms what is proved
  for every capacity (section 5). The largest entry passes the item limit of one
  handle, is refused by the other's, and never fits the arena; the arena is
  smaller than the budget, so that evictions for it occur. Liveness is checked
  here, hence without symmetry.
* **Arena.** In `lru_memory`, with two slots and four cells, entries of one and two
  cells leave a hole before, between and after live payloads, and a put can need
  compaction, eviction, both or neither. Two slots suffice for the extents because
  an overlap takes two, and because compaction treats the slots of the list one
  after the other. The account, the extents, the payloads, the budget and what is
  refused or evicted are also proved for any capacity, weights, budget and arena
  (section 5); that the client sees an `LRUStore` is what rests on this run alone.
* **Requests.** A flight needs a leader and a follower, or one that comes between
  storing and landing; a request of another key in the same worker could get the
  wrong answer, one in a second worker survives the first one's crash. The table,
  the keys and the single fetch are also proved for any number of requests.
* **Workers.** Three crashes trip the breaker (`maxRapidCrashes` is 5 in the code)
  while timers of earlier ones are pending. Delays keep the code's order:
  back-off grows and is then constant, the pause is longer than the delays, the
  worker's forced exit (3 s) comes before the master's (4 s). `MaxBusy` bounds the
  requests in one worker: one in `workers`, two in `workers_drain`, where one ends
  while another is open.
* **IPC.** A mix-up of answers takes two calls of one worker, one of them given up;
  a body that comes back takes a put and a removal; a second worker shares the
  cache. `MaxMade` bounds how many of the seven calls one behaviour makes: four
  let a call be given up, answered late and overtaken, in both workers. The
  pending map, the answers, the removals and the refinement are also proved for
  any number of calls.
* **In-process cache.** Three entries and a weight of half the budget let one put
  drop none, one or two entries, by count or by bytes, and an update drop others.
  Its three properties are also proved for any limits and weights.
* **Exchange.** Two chunks at the client and two in the response are the least
  with a state between empty and full; seven chunks fill both, pause again after
  a drain, and exceed the item limit of three. The safety properties are also
  proved for any sizes.
* **Pool.** Two threads and three tasks fill the threads and the queue; two deaths
  let a replacement die as well. `MaxDeaths` bounds them. The safety properties
  are also proved for any threads, tasks and number of deaths.

### Deadlock checking

It is off only where the modelled system really comes to rest: the requests of
`ProxyRequests`, the calls of `CacheIPC` and the tasks of `ThreadPool` are a finite
set, and an exchange of `UpstreamClient` is over some time. In
`WorkerManager` time goes on after the exit of all, so it is on there, as in the
cache and mutex modules.

## 4. Fairness

* `SharedMemoryLRU!FairSpec`: an operation that has begun goes on (`WF(Step)`).
  It is synchronous code; no fairness on calls.
* `SharedMutex!LockFairSpec`: threads that wait run and time passes. No fairness on a
  holder's `Die`, nor on calling `lockSync`. This is weak fairness of steps, not
  of the lock: a waiter may lose every race for the word, and it is its time
  limit that brings it in.
* `ProxyRequests!FairSpec`: weak fairness on a request's progress after arrival.
  The master answers or the 2 s timer fires; the origin answers or is cut off by
  `UPSTREAM_TIMEOUT_MS` (an idle limit: an origin that trickles bytes for ever is
  excluded by this assumption). None on arrivals, disconnects, evictions, crashes.
* `WorkerManager!FairSpec`: messages arrive, timers fire, time goes on. A request
  never has to end. A tick waits for what is due: event loops are assumed not to
  be blocked for as long as a tick.
* `UpstreamClient!FairSpec`: weak fairness of the steps of the proxy's own process,
  its event handlers and its idle timer. The origin need not send, nor the client
  read or leave. The timer may fire in the model whenever nothing flows, which
  includes the real moments.
* `CacheIPC` has no liveness property: each pending call has its own timer.
* `ThreadPool!FairSpec`: tasks end and the main thread handles its events. The
  tasks in `threadWorker.js` are finite computations. None on `execute`, deaths
  or `destroy`.

## 5. What is proved

All proofs hold for every value of the constants that satisfies the module's
named assumptions; TLC evaluates those in each run.

* **`SharedMemoryLRUProofs`**, the core, in four layers, and every safety property
  and action property of `SharedMemoryLRU` that the runs check.
  * *Links*: `LinksTypeCorrect`, `RecencyCorrect`, `FreeCorrect`, `FreshSlotCorrect`. "The
    list reaches exactly these slots" is stated without recursion: a chain over a
    set of slots has a rank function onto `1..n` that rises by one along the link.
    Lemmas about ranks come first (`ChainFirst`, `ChainPush`, `ChainRemove`, `ChainPop`,
    and the same for doubly linked lists), then one lemma for each piece of link
    code, then the actions. The inductive invariant is `IInv == Sound /\ OpSound`:
    `Sound` is the conjunction of the properties; `OpSound` says what is known in the
    middle of an operation: the cursor of a search or compaction is an active slot
    or the end, and once the loop for entries is over there is a free slot. Without
    the latter, `PutWrite` could take from an empty free list.
  * *Memory*: `TypeCorrect`, `BytesCorrect`, `ExtentsCorrect`, `EntriesCorrect`. The code
    keeps the key and the value of a slot nowhere but in the arena, so the inductive
    invariant `DataInv` names them: some `keyOf` and `valOf` account for all payloads
    (`Laid`). None of the three properties is inductive alone, because they are false
    in the middle of a compaction: `Layout` says there that the entries the walk has
    passed lie in the copy, the others still in the arena, and that the write
    pointer and the lengths still to come add up to the account. That the walk
    meets every entry once is read off the rank of its cursor. `Layout` also
    says that a put which goes on has found no slot of its key, hence no key is
    stored twice.
  * *Limits*: `BudgetCorrect`, `NeverRefusedCorrect`, `ArenaEvictionCorrect`. The first
    has the hypothesis `\A limit \in ItemLimits : limit <= MaxTotalBytes`: no handle lets
    an entry pass that is bigger than the whole budget. It is true of the defaults
    (5 MiB and 100 MiB, `config.js`) and not enforced by the code; without it the
    invariant `BInv` still says that the account is within the budget or is that of
    one entry. The other two are unconditional. They rest on `Accounted`: right
    after a compaction the bump pointer is the account, so an arena without room is
    full of live bytes, and an empty list has an empty arena.
  * *Lock*: `LockTyped`, `WordCorrect`, `Exclusive`, of `SharedMutex`, which is the other
    half of the same source file.
    `WordTellsOwner` (until healing, the word is 1 exactly if its owner is inside or
    died there) is inductive with the types, and exclusion follows from it. It is
    what lets the layers above take an operation for a critical section.
* **`LRUCacheProofs`**: `MapCorrect`, `LimitsCorrect`, `StoreCorrect`. `LInv` is the map, the
  list and both counters at each iteration, with what the running put is at. It
  is unconditional; that the counters floor at zero never shows, because what is
  taken off is part of the sum. The limits (`Limited`) and the refinement need
  `BudgetHoldsOne`, that an entry of the largest size allowed fits the byte limit;
  otherwise an update drops its own node and the refinement fails.
  `StoreCorrect` says that the cache implements `LRUStore`: `get`, `delete`, `clear`
  and a refused put are one step of it, a put is the one that ends it. The
  invariant `History` relates the list in the middle of a put to the entries
  before it: what is left is a prefix of the others in the old order, and no longer
  prefix would have fitted. From the latter, `Retained` of the store is exactly
  what the loop leaves.
* **`CollectionLemmas`**: what those proofs need of the community modules' operators.
  `MapThenSumSet` is a recursive function over sets; the lemmas that a sum changes
  with one member or with one value need induction over the cardinality. The
  library's induction rules take a predicate, which the provers cannot
  instantiate; `NatClosed` takes the set of numbers for which the fact holds
  instead, and follows from the well-foundedness of the order on `Nat`. The others
  are about sequences without repetition: a removal, a cut, a prefix.
* **`ProxyRequestsProofs`**: `TypeCorrect`, `FlightCorrect`, `OwnKeyCorrect`,
  `FetchedOnceCorrect`. The invariant adds `KeySound`: what is in the cache, on its
  way, or in a reply belongs to the right key. `SettleSound`, `JoinOrLeadSound`,
  `MoveSound` and `CrashSound` are the four ways in which actions touch the table.
  `FetchedOncePerWorker` needs `Kept`, which holds as long as nothing goes wrong: a put
  under way is that of a leader which waits for it, any other body is in the cache,
  and so a leader that finds nothing there is the first. A put that is acknowledged
  before the flight lands, and the second look of the leader, are what it rests on.
* **`CacheIPCProofs`**: `PendingCorrect`, `OwnAnswerCorrect`, `RemovedCorrect`,
  `ServiceCorrect`. The invariant adds that ids are unique within a worker and never
  exceed its counter (`IdsUnique`), that every message up names a call and its id
  (`UpSound`), that no call is twice on its way, and that an answer on its way is
  what the cache did for the call of its id (`DownSound`). `OwnAnswer` follows because
  the call found by the id is the one the answer is of.
  `RemovedForGood` needs the order: ids rise along each channel (`Ordered`), also
  when a dying worker leaves only a part of it; so what the master has handled was
  made before what is on its way (`Handled`), and once it has handled a removal no
  earlier body of that worker can be in the cache or arrive (`Gone`). Entries are of
  distinct keys and under the keys of their puts (`Proper`).
  `ServiceCorrect` says that `CacheIPC` implements `CacheService`. Lemmas say how the
  calls in a channel change when a message is added, taken or cut off
  (`CalleesAppend`, `CalleesTail`, `CalleesSubSeq`); then each action of `CacheIPC` is one
  of `CacheService` or a stutter. `Deliver` needs the invariant: an answer whose call
  was given up changes nothing, any other is what the cache did for the call that
  returns.
* **`ThreadPoolProofs`**: `OneTaskEachCorrect`, `TasksAccountedCorrect`,
  `WorkConservingCorrect`. The three properties disturb each other, so the invariant
  `PInv` is about all at once: `Consistent` says that stack, queue, pending map,
  messages both ways and promises agree; `Manned` that the list of workers is
  complete until the pool is destroyed and only a worker of it can be dead;
  `Served` that nobody waits in front of a free worker until a thread ends.
  `Drained` says what the loop of `_drainQueue` does to `Consistent` without its order:
  some free workers are handed a task each, and the stack or the queue is empty
  then. Each handler is shown to keep `Consistent` up to the call of that loop.
* **`UpstreamClientProofs`**: `PausedCorrect`, `BoundedCorrect`, `WholeCorrect`,
  `NoWriteCorrect`. `Pressure` ties the listener to the drain and says that a
  stream does not flow while a drain is due; with `Counted` this bounds what is
  held. `History` says what each state of the request and the response tells of
  the past: a complete body is only ever dumped after a stall or the client's
  leaving. `Endings` says that only the `end` handler ends a response that has the
  origin's headers. `NoFlowAfterClose` gives the action property.
* **`WorkerManagerProofs`**: `TypeCorrect`, `StaffedCorrect`,
  `WorkersGoFirstCorrect`, `NoSpawnCorrect`. `Staffed` needs cardinalities:
  every step removes or adds one worker and one timer. `WorkersGoFirst` needs
  `ShutdownOrder`: during a shutdown no worker is simply up, each has been told
  and, if it is draining, has less time left than the master. This is where
  `WorkerForce < MasterForce` is used, and the tick that waits for due timers.

Only model-checked:

* All liveness (`Terminates`, `NoWaiterStuck`, `EveryoneAnswered`, `AllStopped`,
  `TasksSettle`, `BothSidesEnd`): fairness and ENABLED are out of the prover's reach.
* `ImplementsLRUStore` of the shared cache (`SharedMemoryLRURefinement`). What the
  abstract entries are is defined there by a walk of the links from `head`, a
  recursive function of the position; a proof has to tie that function to the
  ranks of the links layer first. It is the next item of the plan.

## 6. Not modelled

* Worker telemetry: the status table, the request counts and `getWorkersStatus`,
  which reads them over the channel like `getStats`. Display only.
* The upload of a request's body: one `pipe`, Node's own.
* The conversion of a `Buffer` that is sent to a thread (`threadWorker.js:27`) and
  `getStats` in threads mode (`cacheManager.js:121`): single sequential paths whose
  faults need no interleaving; they are listed as hazards.
* `RateLimiter`: no code in `src/` calls it.
* `SharedMutex.lockAsync`: no code in `src/` calls it.
* `threadedServer.js`: wiring of parts modelled elsewhere.
* Static files, the browser dashboard: no protocol of their own. The routes' cache
  calls are calls of `CacheIPC`.
* Address checks, header filters, path and environment parsing: text functions.

## 7. Plan

Done: `LRUStore`, `SharedMemoryLRU`, `SharedMemoryLRURefinement`, `SharedMutex`,
`LRUCache`, `ProxyRequests`, `WorkerManager`, `ThreadPool`, `CacheService`,
`CacheIPC`, `UpstreamClient`. Every invariant and every safety action property that a
passing run checks is also proved, and two of the three refinements. What is
left:

1. Proof: `ImplementsLRUStore` for `SharedMemoryLRURefinement`, with an invariant like
   `History` of `LRUCacheProofs` over the walk of the links.
2. `SharedCacheRace`: the mutex around the cache at the level of its words, with a
   thread that dies inside or a wait that heals. Which list properties survive.
3. `WorkerStatus`: the status table, the double count of requests and
   "available" while requests are open.
