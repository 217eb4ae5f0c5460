----------------------------- MODULE ThreadPool -----------------------------
(***************************************************************************)
(* The pool of worker threads of src/threadPool.js and the message loop of *)
(* src/threadWorker.js: tasks wait in a queue, a free worker gets one      *)
(* task, its answer settles the caller's promise and frees the worker.     *)
(* Threads die at any moment; the main thread learns of it by an exit      *)
(* event that comes after all messages the thread had posted.              *)
(***************************************************************************)
EXTENDS Integers, SequencesExt, FiniteSetsExt

CONSTANTS
    Tasks,          \* the calls of execute
    Threads,        \* Worker objects; a name is free again after its exit event
    ThreadCount,
    MaxDeaths,      \* bound: threads that die by themselves
    MayDestroy      \* destroy may be called

ASSUME PoolAssumption ==
    /\ IsFiniteSet(Threads)
    /\ ThreadCount \in Nat \ {0} /\ ThreadCount <= Cardinality(Threads)
    /\ MaxDeaths \in Nat /\ MayDestroy \in BOOLEAN

VARIABLES
    isInitialized, isDestroyed,
    workers,        \* Worker objects in the list of the same name
    freeWorkers,    \* a stack
    taskQueue,
    pendingTasks,
    posted,         \* worker -> task posted to it and not answered
    answers,        \* worker -> [task, success], answer on its way back
    dead,           \* threads that have ended, exit event to come
    promise,        \* task -> "none", "waiting", "resolved" or "rejected"
    deaths          \* number of threads that died by themselves

vars == <<isInitialized, isDestroyed, workers, freeWorkers, taskQueue, pendingTasks,
          posted, answers, dead, promise, deaths>>

Busy == DOMAIN posted \cup DOMAIN answers

Init ==
    /\ isInitialized = FALSE /\ isDestroyed = FALSE
    /\ workers = {} /\ freeWorkers = <<>>
    /\ taskQueue = <<>> /\ pendingTasks = {}
    /\ posted = [w \in {} |-> {}] /\ answers = [w \in {} |-> {}]
    /\ dead = {}
    /\ promise = [t \in Tasks |-> "none"]
    /\ deaths = 0

Forget(f, w) == [x \in DOMAIN f \ {w} |-> f[x]]

(* _drainQueue, given the free workers and the queue it finds: the worker
   that became free last gets the oldest task, and so on. *)
DrainQueue(free, queue, pending, messages) ==
    LET n == Min({Len(free), Len(queue)})
        at(w) == CHOOSE i \in 1..n : free[Len(free) + 1 - i] = w
        given == {free[Len(free) + 1 - i] : i \in 1..n}
    IN  /\ freeWorkers' = SubSeq(free, 1, Len(free) - n)
        /\ taskQueue' = SubSeq(queue, n + 1, Len(queue))
        /\ pendingTasks' = pending \cup {queue[i] : i \in 1..n}
        /\ posted' = [w \in DOMAIN messages \cup given |->
                        IF w \in given THEN queue[at(w)] ELSE messages[w]]

(* init, before the first call. *)
InitPool ==
    /\ ~isInitialized /\ ~isDestroyed
    /\ isInitialized' = TRUE
    /\ \E first \in kSubset(ThreadCount, Threads) :
          workers' = first /\ freeWorkers' = SetToSeq(first)
    /\ UNCHANGED <<isDestroyed, taskQueue, pendingTasks, posted, answers, dead, promise, deaths>>

(* execute, with init at the first call. *)
Execute(t) ==
    /\ promise[t] = "none"
    /\ promise' = [promise EXCEPT ![t] = "waiting"]
    /\ isInitialized' = TRUE
    /\ IF isInitialized
       THEN /\ UNCHANGED workers
            /\ DrainQueue(freeWorkers, Append(taskQueue, t), pendingTasks, posted)
       ELSE \E first \in kSubset(ThreadCount, Threads) :
               /\ workers' = first
               /\ DrainQueue(SetToSeq(first), Append(taskQueue, t), pendingTasks, posted)
    /\ UNCHANGED <<isDestroyed, answers, dead, deaths>>

(* The thread runs the task it was sent and posts a result or an error. *)
Answer(w) ==
    /\ w \in DOMAIN posted \ dead
    /\ \E success \in BOOLEAN :
          answers' = [x \in DOMAIN answers \cup {w} |->
                        IF x = w THEN [task |-> posted[w], success |-> success] ELSE answers[x]]
    /\ posted' = Forget(posted, w)
    /\ UNCHANGED <<isInitialized, isDestroyed, workers, freeWorkers, taskQueue,
                   pendingTasks, dead, promise, deaths>>

Settled(a) == [promise EXCEPT ![a.task] = IF a.success THEN "resolved" ELSE "rejected"]

(* Fault: the worker is freed and the queue is left for the next call. *)
OnMessageNoDrain(w) ==
    /\ w \in DOMAIN answers /\ answers[w].task \in pendingTasks
    /\ promise' = Settled(answers[w])
    /\ answers' = Forget(answers, w)
    /\ pendingTasks' = pendingTasks \ {answers[w].task}
    /\ freeWorkers' = Append(freeWorkers, w)
    /\ UNCHANGED <<isInitialized, isDestroyed, workers, taskQueue, posted, dead, deaths>>

(* Fault: a rejected task keeps its worker. *)
OnMessageKeepsFailed(w) ==
    /\ w \in DOMAIN answers /\ answers[w].task \in pendingTasks
    /\ promise' = Settled(answers[w])
    /\ answers' = Forget(answers, w)
    /\ LET free == IF answers[w].success THEN Append(freeWorkers, w) ELSE freeWorkers
       IN  DrainQueue(free, taskQueue, pendingTasks \ {answers[w].task}, posted)
    /\ UNCHANGED <<isInitialized, isDestroyed, workers, dead, deaths>>

(* The message handler: settle the promise of that id, free the worker. *)
OnMessage(w) ==
    /\ w \in DOMAIN answers
    /\ promise' = IF answers[w].task \in pendingTasks THEN Settled(answers[w]) ELSE promise
    /\ answers' = Forget(answers, w)
    /\ DrainQueue(Append(freeWorkers, w), taskQueue, pendingTasks \ {answers[w].task}, posted)
    /\ UNCHANGED <<isInitialized, isDestroyed, workers, dead, deaths>>

(* A thread ends by itself: out of memory, or an error nobody caught. *)
Die(w) ==
    /\ w \in workers \ dead /\ ~isDestroyed /\ deaths < MaxDeaths
    /\ dead' = dead \cup {w}
    /\ deaths' = deaths + 1
    /\ UNCHANGED <<isInitialized, isDestroyed, workers, freeWorkers, taskQueue,
                   pendingTasks, posted, answers, promise>>

(* Fault: the worker that is gone stays on the stack of free workers. *)
OnExitStillFree(w) ==
    /\ w \in dead \ DOMAIN answers /\ ~isDestroyed
    /\ dead' = dead \ {w}
    /\ posted' = Forget(posted, w)
    /\ \E new \in Threads \ workers :
          /\ workers' = (workers \ {w}) \cup {new}
          /\ freeWorkers' = Append(freeWorkers, new)
    /\ UNCHANGED <<isInitialized, isDestroyed, taskQueue, pendingTasks, answers,
                   promise, deaths>>

(* Fault: the task of the dead worker is queued again and still pending. *)
OnExitRequeues(w) ==
    /\ w \in dead \ DOMAIN answers
    /\ dead' = dead \ {w}
    /\ posted' = Forget(posted, w)
    /\ taskQueue' = IF w \in DOMAIN posted THEN Append(taskQueue, posted[w]) ELSE taskQueue
    /\ IF isDestroyed
       THEN UNCHANGED <<workers, freeWorkers>>
       ELSE \E new \in Threads \ workers :
               /\ workers' = (workers \ {w}) \cup {new}
               /\ freeWorkers' = Append(RemoveFirst(freeWorkers, w), new)
    /\ UNCHANGED <<isInitialized, isDestroyed, pendingTasks, answers, promise, deaths>>

(* The exit handler: the worker is replaced by a new one, which is free; the
   queue is not looked at, nor the task that was posted to the old one. *)
OnExit(w) ==
    /\ w \in dead \ DOMAIN answers
    /\ dead' = dead \ {w}
    /\ posted' = Forget(posted, w)
    /\ IF isDestroyed
       THEN UNCHANGED <<workers, freeWorkers>>
       ELSE \E new \in Threads \ workers :
               /\ workers' = (workers \ {w}) \cup {new}
               /\ freeWorkers' = Append(RemoveFirst(freeWorkers, w), new)
    /\ UNCHANGED <<isInitialized, isDestroyed, taskQueue, pendingTasks, answers,
                   promise, deaths>>

(* destroy: every thread is terminated. *)
Destroy ==
    /\ MayDestroy /\ ~isDestroyed
    /\ isDestroyed' = TRUE
    /\ dead' = dead \cup workers
    /\ UNCHANGED <<isInitialized, workers, freeWorkers, taskQueue, pendingTasks,
                   posted, answers, promise, deaths>>

Next ==
    \/ \E t \in Tasks : Execute(t)
    \/ \E w \in Threads : Answer(w) \/ OnMessage(w) \/ Die(w) \/ OnExit(w)
    \/ InitPool \/ Destroy

Spec == Init /\ [][Next]_vars

(* Tasks end, and the main thread handles its events. *)
FairSpec ==
    /\ Spec
    /\ \A w \in Threads : WF_vars(Answer(w)) /\ WF_vars(OnMessage(w)) /\ WF_vars(OnExit(w))

-----------------------------------------------------------------------------
(* Every worker of the pool is either on the stack, once, or has exactly one
   task at hand: none gets a second task before it answered the first, none
   drops out of the pool, and the dead ones are replaced. *)
OneTaskEach ==
    ~isDestroyed =>
       /\ isInitialized => Cardinality(workers) = ThreadCount
       /\ IsInjective(freeWorkers)
       /\ ToSet(freeWorkers) \cup Busy = workers
       /\ ToSet(freeWorkers) \cap Busy = {} /\ DOMAIN posted \cap DOMAIN answers = {}

TaskOf(w) == IF w \in DOMAIN posted THEN posted[w] ELSE answers[w].task

(* A task that was submitted is in one place: queued, pending or settled. A
   worker works for a pending task, and no two for the same. *)
TasksAccounted ==
    /\ IsInjective(taskQueue) /\ ToSet(taskQueue) \cap pendingTasks = {}
    /\ \A t \in Tasks : promise[t] = "waiting" <=> t \in ToSet(taskQueue) \cup pendingTasks
    /\ \A w \in Busy : TaskOf(w) \in pendingTasks
    /\ \A w, v \in Busy : TaskOf(w) = TaskOf(v) => w = v

(* As long as no thread died, no task waits while a worker is free. *)
WorkConserving == deaths = 0 => taskQueue = <<>> \/ freeWorkers = <<>>

(* As long as no thread ends, of itself or by destroy, every promise that
   execute returned settles: no answer is lost and the queue is served. *)
TasksSettle ==
    \A t \in Tasks : promise[t] = "waiting" ~>
        promise[t] \in {"resolved", "rejected"} \/ deaths > 0 \/ isDestroyed
=============================================================================
