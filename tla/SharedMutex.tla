---------------------------- MODULE SharedMutex ----------------------------
(***************************************************************************)
(* SharedMutex of src/sharedMemoryLRU.js: the lock word of the shared      *)
(* buffer, taken by compareExchange, waited for with Atomics.wait (worker  *)
(* threads) or by spinning (the main thread), and cleared by any waiter    *)
(* that has waited longer than timeoutMs.  Every step is one atomic        *)
(* operation on the lock word.  The callers of lockSync ignore its result: *)
(* a thread whose wait timed out enters the critical section like one that *)
(* took the lock, and unlocks on its way out.                              *)
(*                                                                         *)
(* Time: elapsed[t] counts units of waiting, up to Timeout + 1, one more   *)
(* than the timeout, where the test of the code becomes true.              *)
(*                                                                         *)
(* The names differ from those of SharedMemoryLRU, the other half of the   *)
(* same file, so that one module can extend both.                          *)
(***************************************************************************)
EXTENDS Integers, FiniteSets

CONSTANTS
    Threads,    \* the main thread and the worker threads
    Workers,    \* those that may block in Atomics.wait, and may be terminated
    Timeout,    \* timeoutMs, in units of waiting
    None        \* no thread

ASSUME WorkersAssumption == Workers \subseteq Threads
ASSUME TimeoutAssumption == Timeout \in Nat
ASSUME NoneAssumption == None \notin Threads

VARIABLES
    lock,       \* the word HDR_LOCK
    at,         \* where each thread is in lockSync, its critical section, unlock
    elapsed,    \* Date.now() - startTime of a thread in lockSync
    owner,      \* history: the thread whose compareExchange took the lock
    healed      \* history: some waiter has cleared the lock

lockVars == <<lock, at, elapsed, owner, healed>>

Waiting(t) == at[t] \in {"try", "late", "wait", "asleep"}

LockInit ==
    /\ lock = 0
    /\ at = [t \in Threads |-> "idle"]
    /\ elapsed = [t \in Threads |-> 0]
    /\ owner = None
    /\ healed = FALSE

Goto(t, from, to) == at[t] = from /\ at' = [at EXCEPT ![t] = to]

LockSync(t) ==
    /\ Goto(t, "idle", "try")
    /\ elapsed' = [elapsed EXCEPT ![t] = 0]
    /\ UNCHANGED <<lock, owner, healed>>

(* Fault: a load and a store in place of compareExchange. *)
AcquireByStore(t) ==
    /\ Goto(t, "try", "cs")
    /\ lock' = 1 /\ owner' = t
    /\ UNCHANGED <<elapsed, healed>>

(* compareExchange(0, 1) takes the free lock ... *)
Acquire(t) ==
    /\ Goto(t, "try", "cs")
    /\ lock = 0 /\ lock' = 1
    /\ owner' = t
    /\ UNCHANGED <<elapsed, healed>>

(* ... or finds it taken. *)
Busy(t) ==
    /\ Goto(t, "try", "late")
    /\ lock = 1
    /\ UNCHANGED <<lock, elapsed, owner, healed>>

(* Fault: a wait that has timed out is retried, the lock is left as it is. *)
NeverHeal(t) ==
    /\ Goto(t, "late", "try")
    /\ elapsed[t] > Timeout
    /\ UNCHANGED <<lock, elapsed, owner, healed>>

(* Deadlock defense: clear the lock, whoever holds it, and return false. *)
SelfHeal(t) ==
    /\ Goto(t, "late", "cs")
    /\ elapsed[t] > Timeout
    /\ lock' = 0 /\ owner' = None
    /\ healed' = TRUE
    /\ UNCHANGED elapsed

(* A worker blocks, the main thread spins and tries again. *)
NotYet(t) ==
    /\ Goto(t, "late", IF t \in Workers THEN "wait" ELSE "try")
    /\ elapsed[t] <= Timeout
    /\ UNCHANGED <<lock, elapsed, owner, healed>>

(* Atomics.wait sleeps only if the word is still 1. *)
Wait(t) ==
    /\ Goto(t, "wait", IF lock = 1 THEN "asleep" ELSE "try")
    /\ UNCHANGED <<lock, elapsed, owner, healed>>

(* The 10 ms limit of Atomics.wait. *)
WakeByTimeout(t) ==
    /\ Goto(t, "asleep", "try")
    /\ UNCHANGED <<lock, elapsed, owner, healed>>

(* Fault: the word is not cleared. *)
UnlockWithoutStore(t) ==
    /\ Goto(t, "cs", "notify")
    /\ lock = 1 /\ owner' = None
    /\ UNCHANGED <<lock, elapsed, healed>>

(* compareExchange(1, 0) frees the lock, whoever took it ... *)
Unlock(t) ==
    /\ Goto(t, "cs", "notify")
    /\ lock = 1 /\ lock' = 0
    /\ owner' = None
    /\ UNCHANGED <<elapsed, healed>>

(* ... or finds it free already. *)
UnlockFree(t) ==
    /\ Goto(t, "cs", "idle")
    /\ lock = 0
    /\ UNCHANGED <<lock, elapsed, owner, healed>>

(* Atomics.notify wakes one sleeper, if there is one. *)
Notify(t) ==
    /\ at[t] = "notify"
    /\ IF \E u \in Threads : at[u] = "asleep"
       THEN \E u \in Threads : at[u] = "asleep"
                               /\ at' = [at EXCEPT ![t] = "idle", ![u] = "try"]
       ELSE at' = [at EXCEPT ![t] = "idle"]
    /\ UNCHANGED <<lock, elapsed, owner, healed>>

(* A worker thread is terminated or crashes, wherever it is. *)
Die(t) ==
    /\ t \in Workers /\ at[t] # "dead"
    /\ at' = [at EXCEPT ![t] = "dead"]
    /\ UNCHANGED <<lock, elapsed, owner, healed>>

Tick ==
    /\ \E t \in Threads : Waiting(t) /\ elapsed[t] <= Timeout
    /\ elapsed' = [t \in Threads |-> IF Waiting(t) /\ elapsed[t] <= Timeout
                                     THEN elapsed[t] + 1 ELSE elapsed[t]]
    /\ UNCHANGED <<lock, at, owner, healed>>

(* What a thread does once it has called lockSync. *)
Run(t) == Acquire(t) \/ Busy(t) \/ SelfHeal(t) \/ NotYet(t) \/ Wait(t) \/ WakeByTimeout(t)
          \/ Unlock(t) \/ UnlockFree(t) \/ Notify(t)

LockNext == Tick \/ \E t \in Threads : LockSync(t) \/ Run(t) \/ Die(t)

LockSpec == LockInit /\ [][LockNext]_lockVars

(* Threads are scheduled by the operating system and time passes; nobody
   has to ask for the lock, and nobody has to die. *)
LockFairSpec == LockSpec /\ WF_lockVars(Tick) /\ \A t \in Threads : WF_lockVars(Run(t))

-----------------------------------------------------------------------------
LockTypeOK ==
    /\ lock \in {0, 1}
    /\ at \in [Threads -> {"idle", "try", "late", "wait", "asleep", "cs", "notify", "dead"}]
    /\ elapsed \in [Threads -> 0..(Timeout + 1)]
    /\ owner \in Threads \cup {None}
    /\ healed \in BOOLEAN

InCS(t) == at[t] = "cs"

(* Two threads never run a cache operation at the same time (README.md:54,
   "critical sections are synchronized"). A wait that times out breaks it. *)
MutualExclusion == \A t, u \in Threads : InCS(t) /\ InCS(u) => t = u

(* Until the first self-healing, it is so: even if threads die anywhere,
   wake up spuriously or find the word changed between two tests. *)
ExclusiveUntilHealed == healed \/ MutualExclusion

(* Until the first self-healing, the word tells the truth: a thread in its
   critical section took the lock and still has it, and the word is 1
   exactly while it does or has died doing so.  So no unlock releases
   another thread's lock and no wait is for a lock nobody took. *)
WordTellsOwner ==
    healed \/ /\ lock = 1 <=> owner # None
              /\ \A t \in Threads : InCS(t) => owner = t
              /\ owner # None => at[owner] \in {"cs", "dead"}

(* Whoever asks for the lock enters, even when the holder died holding it:
   the reason for the self-healing. *)
NoWaiterStuck ==
    \A t \in Threads : at[t] = "try" ~> at[t] \in {"cs", "dead"}
=============================================================================
