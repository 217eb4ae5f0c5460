--------------------------- MODULE WorkerManager ---------------------------
(***************************************************************************)
(* The supervisor of src/workerManager.js and the life of the worker       *)
(* processes of src/server.js: crash, restart after a growing delay, the   *)
(* circuit breaker, and graceful shutdown with requests in flight.         *)
(*                                                                         *)
(* Time passes in ticks; a tick waits for whatever is due, so timers fire  *)
(* and the shutdown message arrives within the tick: the event loops are   *)
(* assumed not to be blocked for as long as a tick.                        *)
(***************************************************************************)
EXTENDS Integers, SequencesExt, FiniteSetsExt

CONSTANTS
    Ids,                        \* worker ids; one is free again after an exit
    NumWorkers,
    MaxRapidCrashes, Window,    \* maxRapidCrashes, rapidCrashWindowMs
    Pause,                      \* 5 s
    Backoff,                    \* delay before restart 1, 2, ..; the last for all later ones
    MaxBusy,                    \* bound: requests in flight in one worker
    WorkerForce, MasterForce,   \* 3 s and 4 s
    StatusServer                \* the master got STATUS_PORT and listens on it

ASSUME ManagerAssumption ==
    /\ IsFiniteSet(Ids)
    /\ NumWorkers \in Nat \ {0} /\ Cardinality(Ids) >= NumWorkers
    /\ MaxRapidCrashes \in Nat \ {0} /\ Window \in Nat \ {0} /\ Pause \in Nat
    /\ Backoff \in Seq(Nat) /\ Backoff # <<>>
    /\ MaxBusy \in Nat
    /\ WorkerForce \in Nat /\ MasterForce \in Nat /\ WorkerForce < MasterForce
    /\ StatusServer \in BOOLEAN

VARIABLES
    workers,        \* id -> [restarts, phase, busy, channel, left], live processes
    timers,         \* pending restarts: [left, restarts]
    recentCrashes,  \* number of crashes of each age; older ones are filtered out
    isShuttingDown,
    master,         \* [code, left]: exit code or "up", time to the forced exit
    dropped         \* history: a draining worker died of a closed channel with
                    \* requests unanswered

vars == <<workers, timers, recentCrashes, isShuttingDown, master, dropped>>

Ages == 0..(Window - 1)
OneMore == [recentCrashes EXCEPT ![0] = @ + 1]
Tripped(crashes) == FoldFunction(+, 0, crashes) >= MaxRapidCrashes

NewWorker(n) == [restarts |-> n, phase |-> "up", busy |-> 0, channel |-> TRUE, left |-> 0]

Init ==
    /\ \E first \in kSubset(NumWorkers, Ids) : workers = [w \in first |-> NewWorker(0)]
    /\ timers = <<>>
    /\ recentCrashes = [age \in Ages |-> 0]
    /\ isShuttingDown = FALSE
    /\ master = [code |-> "up", left |-> 0]
    /\ dropped = FALSE

Without(w) == [x \in DOMAIN workers \ {w} |-> workers[x]]

DelayBefore(restarts) == Backoff[IF restarts < Len(Backoff) THEN restarts ELSE Len(Backoff)]

(* Fault: once the breaker opens nobody is restarted any more. *)
HandleExitGivesUp(w) ==
    /\ workers' = Without(w)
    /\ IF isShuttingDown
       THEN UNCHANGED <<timers, recentCrashes>>
       ELSE LET next == [left |-> DelayBefore(workers[w].restarts + 1),
                         restarts |-> workers[w].restarts + 1]
            IN  /\ recentCrashes' = OneMore
                /\ IF Tripped(OneMore)
                   THEN UNCHANGED timers
                   ELSE timers' = Append(timers, next)

(* _handleWorkerExit: every exit outside a shutdown schedules one restart,
   after a pause if there were too many crashes lately.  The count is capped
   where the delay no longer grows. *)
HandleExit(w) ==
    /\ workers' = Without(w)
    /\ IF isShuttingDown
       THEN UNCHANGED <<timers, recentCrashes>>
       ELSE LET tripped == Tripped(OneMore)
                n == IF workers[w].restarts < Len(Backoff) THEN workers[w].restarts + 1
                     ELSE workers[w].restarts
            IN  /\ recentCrashes' = OneMore
                /\ timers' = Append(timers, [left |-> IF tripped THEN Pause ELSE DelayBefore(n),
                                             restarts |-> n])

(* Fault: neither the callback nor _spawnWorker asks about a shutdown. *)
RespawnAlways(i) ==
    /\ master.code = "up" /\ timers[i].left = 0
    /\ timers' = RemoveAt(timers, i)
    /\ \E w \in Ids \ DOMAIN workers :
          workers' = [x \in DOMAIN workers \cup {w} |->
                        IF x = w THEN NewWorker(timers[i].restarts) ELSE workers[x]]
    /\ UNCHANGED <<recentCrashes, isShuttingDown, master, dropped>>

(* A restart timer fires. *)
Respawn(i) ==
    /\ master.code = "up" /\ timers[i].left = 0
    /\ timers' = RemoveAt(timers, i)
    /\ IF isShuttingDown
       THEN UNCHANGED workers
       ELSE \E w \in Ids \ DOMAIN workers :
               workers' = [x \in DOMAIN workers \cup {w} |->
                             IF x = w THEN NewWorker(timers[i].restarts) ELSE workers[x]]
    /\ UNCHANGED <<recentCrashes, isShuttingDown, master, dropped>>

(* A process dies by itself: an uncaught error, a signal, a port in use. *)
Crash(w) ==
    /\ HandleExit(w)
    /\ UNCHANGED <<isShuttingDown, master, dropped>>

(* A request the worker accepts; while draining it answers 503 at once. *)
RequestStart(w) ==
    /\ workers[w].phase # "draining" /\ workers[w].busy < MaxBusy
    /\ workers' = [workers EXCEPT ![w].busy = @ + 1]
    /\ UNCHANGED <<timers, recentCrashes, isShuttingDown, master, dropped>>

(* Fault: a request is counted down by its handler and again when it is over. *)
RequestEndTwice(w) ==
    /\ workers[w].busy > 0 /\ workers[w].channel
    /\ workers' = [workers EXCEPT ![w].busy = @ - 2]
    /\ UNCHANGED <<timers, recentCrashes, isShuttingDown, master, dropped>>

(* A request is answered and its worker reports that it is available. *)
RequestEnd(w) ==
    /\ workers[w].busy > 0 /\ workers[w].channel
    /\ workers' = [workers EXCEPT ![w].busy = @ - 1]
    /\ UNCHANGED <<timers, recentCrashes, isShuttingDown, master, dropped>>

(* process.send on a channel that is closed emits an error nobody handles,
   which ends the worker: from updateStatus after a request was answered, or
   from a cache call in the middle of one. *)
SendFails(w) ==
    /\ workers[w].busy > 0 /\ ~workers[w].channel
    /\ HandleExit(w)
    /\ \E unanswered \in {workers[w].busy - 1, workers[w].busy} :
          dropped' = (dropped \/ unanswered > 0)
    /\ UNCHANGED <<isShuttingDown, master>>

(* gracefulShutdown: SHUTDOWN and disconnect to every worker. *)
GracefulShutdown ==
    /\ ~isShuttingDown
    /\ isShuttingDown' = TRUE
    /\ workers' = [w \in DOMAIN workers |-> [workers[w] EXCEPT !.phase = "told"]]
    /\ master' = [master EXCEPT !.left = MasterForce]
    /\ UNCHANGED <<timers, recentCrashes, dropped>>

(* Fault: the worker gives its requests more time than the master gives it. *)
DeliverPatiently(w) ==
    /\ workers[w].phase = "told"
    /\ workers' = [workers EXCEPT ![w].phase = "draining", ![w].left = MasterForce + 1]
    /\ UNCHANGED <<timers, recentCrashes, isShuttingDown, master, dropped>>

(* The worker gets SHUTDOWN: it stops listening and starts its own timer. *)
Deliver(w) ==
    /\ workers[w].phase = "told"
    /\ workers' = [workers EXCEPT ![w].phase = "draining", ![w].left = WorkerForce]
    /\ UNCHANGED <<timers, recentCrashes, isShuttingDown, master, dropped>>

(* disconnect waits for the servers of the worker that are still listening;
   the SHUTDOWN handler has closed the only one, so the channel closes while
   connections are open. *)
CloseChannel(w) ==
    /\ workers[w].phase = "draining" /\ workers[w].channel
    /\ workers' = [workers EXCEPT ![w].channel = FALSE]
    /\ UNCHANGED <<timers, recentCrashes, isShuttingDown, master, dropped>>

(* server.close calls back. *)
Drained(w) ==
    /\ workers[w].phase = "draining" /\ workers[w].busy = 0
    /\ HandleExit(w)
    /\ UNCHANGED <<isShuttingDown, master, dropped>>

(* Fault: the timer only ends a worker that has nothing to do. *)
ForceExitIdle(w) ==
    /\ workers[w].phase = "draining" /\ workers[w].left = 0 /\ workers[w].busy = 0
    /\ HandleExit(w)
    /\ UNCHANGED <<isShuttingDown, master, dropped>>

ForceExit(w) ==
    /\ workers[w].phase = "draining" /\ workers[w].left = 0
    /\ HandleExit(w)
    /\ UNCHANGED <<isShuttingDown, master, dropped>>

(* The master's event loop runs dry: the force timer does not keep it alive,
   workers, restart timers and the status server do. *)
MasterIdle ==
    /\ isShuttingDown /\ master.code = "up"
    /\ DOMAIN workers = {} /\ timers = <<>> /\ ~StatusServer
    /\ master' = [master EXCEPT !.code = "0"]
    /\ UNCHANGED <<workers, timers, recentCrashes, isShuttingDown, dropped>>

MasterForceExit ==
    /\ isShuttingDown /\ master.code = "up" /\ master.left = 0
    /\ master' = [master EXCEPT !.code = "1"]
    /\ timers' = <<>>
    /\ UNCHANGED <<workers, recentCrashes, isShuttingDown, dropped>>

Due ==
    \/ \E i \in DOMAIN timers : timers[i].left = 0
    \/ \E w \in DOMAIN workers :
          workers[w].phase = "told" \/ (workers[w].phase = "draining" /\ workers[w].left = 0)
    \/ isShuttingDown /\ master.code = "up" /\ master.left = 0

Down(n) == IF n > 0 THEN n - 1 ELSE 0

(* Time passes; a crash leaves the window of _handleWorkerExit's filter. *)
Tick ==
    /\ ~Due
    /\ timers' = [i \in DOMAIN timers |-> [timers[i] EXCEPT !.left = @ - 1]]
    /\ workers' = [w \in DOMAIN workers |-> [workers[w] EXCEPT !.left = Down(@)]]
    /\ recentCrashes' = [age \in Ages |-> IF age = 0 THEN 0 ELSE recentCrashes[age - 1]]
    /\ master' = [master EXCEPT !.left = Down(@)]
    /\ UNCHANGED <<isShuttingDown, dropped>>

Next ==
    \/ \E i \in DOMAIN timers : Respawn(i)
    \/ \E w \in DOMAIN workers :
          \/ Crash(w) \/ RequestStart(w) \/ RequestEnd(w) \/ SendFails(w)
          \/ Deliver(w) \/ CloseChannel(w) \/ Drained(w) \/ ForceExit(w)
    \/ GracefulShutdown \/ MasterIdle \/ MasterForceExit
    \/ Tick

Spec == Init /\ [][Next]_vars

(* Messages arrive, timers fire and time goes on. *)
FairSpec ==
    /\ Spec
    /\ WF_vars(Tick) /\ WF_vars(MasterForceExit) /\ WF_vars(MasterIdle)
    /\ WF_vars(\E i \in DOMAIN timers : Respawn(i))
    /\ \A w \in Ids : WF_vars(w \in DOMAIN workers /\ (Deliver(w) \/ ForceExit(w)))

-----------------------------------------------------------------------------
Worker == [restarts : Nat, phase : {"up", "told", "draining"}, busy : 0..MaxBusy,
           channel : BOOLEAN, left : Nat]

(* Types; in particular the count of active connections stays in range. *)
TypeOK ==
    /\ DOMAIN workers \subseteq Ids /\ workers \in [DOMAIN workers -> Worker]
    /\ timers \in Seq([left : Nat, restarts : Nat])
    /\ recentCrashes \in [Ages -> Nat]
    /\ isShuttingDown \in BOOLEAN
    /\ master \in [code : {"up", "0", "1"}, left : Nat]
    /\ dropped \in BOOLEAN

(* Nobody is lost: until a shutdown every worker is running or about to be
   restarted, once, whatever the breaker does. *)
Staffed ==
    ~isShuttingDown => Cardinality(DOMAIN workers) + Len(timers) = NumWorkers

(* A restart that was pending when the shutdown began does not start a
   worker the shutdown never told. *)
NoSpawnOnceShutting == [][isShuttingDown => DOMAIN workers' \subseteq DOMAIN workers]_vars

(* The two forced exits are in order: the master never leaves a worker behind. *)
WorkersGoFirst == master.code # "up" => DOMAIN workers = {}

(* A shutdown ends every process, even if a request hangs. *)
AllStopped == isShuttingDown ~> (master.code # "up" /\ DOMAIN workers = {})

(* ARCHITECTURE.md:75, "allows in-flight socket draining": a worker that is
   draining answers the requests it has, unless it runs out of time. *)
InFlightDrained == ~dropped
=============================================================================
