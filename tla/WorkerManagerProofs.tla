------------------------ MODULE WorkerManagerProofs ------------------------
(***************************************************************************)
(* The supervisor keeps its workers, for any number of them, any delays    *)
(* and any breaker; and shutdown is ordered whenever WorkerForce is less   *)
(* than MasterForce.                                                       *)
(***************************************************************************)
EXTENDS WorkerManager, FiniteSetTheorems, TLAPS

(* Why the forced exits are in order: nobody is "up" in a shutdown, a worker
   that was not told yet has the master's whole time ahead, and one that is
   draining has less time left than the master. *)
ShutdownOrder ==
    /\ isShuttingDown /\ master.code = "up" =>
          \A w \in DOMAIN workers :
             /\ workers[w].phase # "up"
             /\ workers[w].phase = "told" => master.left = MasterForce
             /\ workers[w].phase = "draining" => workers[w].left < master.left
    /\ ~isShuttingDown => master.code = "up" /\ \A w \in DOMAIN workers : workers[w].phase = "up"
    /\ WorkersGoFirst

TimerType == [left : Nat, restarts : Nat]

Params ==
    /\ MaxBusy \in Nat /\ Pause \in Nat /\ WorkerForce \in Nat /\ MasterForce \in Nat
    /\ WorkerForce < MasterForce
    /\ Backoff \in Seq(Nat) /\ Backoff # <<>>

LEMMA ParamsHold == Params
BY ManagerAssumption DEF ManagerAssumption, Params

(* The delay before a restart is one of the list. *)
LEMMA DelayType ==
    ASSUME NEW n \in Nat \ {0}
    PROVE  DelayBefore(n) \in Nat
<1>1. Len(Backoff) \in Nat \ {0}
  BY ParamsHold DEF Params
<1>2. (IF n < Len(Backoff) THEN n ELSE Len(Backoff)) \in 1..Len(Backoff)
  BY <1>1
<1> QED BY <1>1, <1>2, ParamsHold DEF Params, DelayBefore

(* An exit outside a shutdown is one restart timer more and one worker less. *)
LEMMA ExitSound ==
    ASSUME TypeOK, NEW w \in DOMAIN workers, HandleExit(w)
    PROVE  /\ DOMAIN workers' = DOMAIN workers \ {w}
           /\ \A x \in DOMAIN workers' : workers'[x] = workers[x]
           /\ workers' \in [DOMAIN workers' -> Worker]
           /\ timers' \in Seq(TimerType)
           /\ recentCrashes' \in [Ages -> Nat]
           /\ ~isShuttingDown => Len(timers') = Len(timers) + 1
           /\ isShuttingDown => timers' = timers
<1> USE ParamsHold DEF Params
<1>1. workers' = Without(w)
  BY DEF HandleExit
<1>2. /\ DOMAIN workers' = DOMAIN workers \ {w}
      /\ \A x \in DOMAIN workers' : workers'[x] = workers[x]
      /\ workers' \in [DOMAIN workers' -> Worker]
  BY <1>1 DEF Without, TypeOK
<1>3. CASE isShuttingDown
  BY <1>2, <1>3 DEF HandleExit, TypeOK, TimerType
<1>4. CASE ~isShuttingDown
  <2> DEFINE tripped == Tripped(OneMore)
             n == IF workers[w].restarts < Len(Backoff) THEN workers[w].restarts + 1
                  ELSE workers[w].restarts
             timer == [left |-> IF tripped THEN Pause ELSE DelayBefore(n), restarts |-> n]
  <2>1. /\ recentCrashes' = OneMore
        /\ timers' = Append(timers, timer)
    BY <1>4 DEF HandleExit
  <2>2. workers[w].restarts \in Nat
    BY DEF TypeOK, Worker
  <2>3. n \in Nat \ {0}
    BY <2>2
  <2>4. timer \in TimerType
    BY <2>3, DelayType DEF TimerType
  <2>5. timers' \in Seq(TimerType) /\ Len(timers') = Len(timers) + 1
    BY <2>1, <2>4 DEF TypeOK, TimerType
  <2>6. recentCrashes' \in [Ages -> Nat]
    <3>1. 0 \in Ages
      BY ManagerAssumption DEF ManagerAssumption, Ages
    <3>2. OneMore \in [Ages -> Nat]
      BY <3>1 DEF TypeOK, OneMore
    <3> QED BY <2>1, <3>2
  <2> QED BY <1>2, <1>4, <2>5, <2>6
<1> QED BY <1>3, <1>4

(* Timers without the one that fired. *)
LEMMA RemoveTimer ==
    ASSUME timers \in Seq(TimerType), NEW i \in DOMAIN timers
    PROVE  /\ RemoveAt(timers, i) \in Seq(TimerType)
           /\ Len(RemoveAt(timers, i)) = Len(timers) - 1
BY DEF RemoveAt

IInv == TypeOK /\ Staffed /\ ShutdownOrder

LEMMA FiniteWorkers == TypeOK => IsFiniteSet(DOMAIN workers)
BY ManagerAssumption, FS_Subset DEF ManagerAssumption, TypeOK

(* The count of one worker less. *)
LEMMA StaffedAfterExit ==
    ASSUME TypeOK, Staffed, NEW w \in DOMAIN workers, HandleExit(w),
           isShuttingDown' = isShuttingDown
    PROVE  Staffed'
<1>1. Cardinality(DOMAIN workers') = Cardinality(DOMAIN workers) - 1
  BY FiniteWorkers, ExitSound, FS_RemoveElement
<1>2. Cardinality(DOMAIN workers) \in Nat
  BY FiniteWorkers, FS_CardinalityType
<1>3. Len(timers) \in Nat
  BY DEF TypeOK
<1>4. ~isShuttingDown => Len(timers') = Len(timers) + 1
  BY ExitSound
<1>5. ~isShuttingDown => Cardinality(DOMAIN workers) + Len(timers) = NumWorkers
  BY DEF Staffed
<1>6. ~isShuttingDown => Cardinality(DOMAIN workers') + Len(timers') = NumWorkers
  BY <1>1, <1>2, <1>3, <1>4, <1>5
<1> QED BY <1>6 DEF Staffed

LEMMA ExitKeeps ==
    ASSUME IInv, NEW w \in DOMAIN workers, HandleExit(w),
           isShuttingDown' = isShuttingDown, master' = master, dropped' \in BOOLEAN
    PROVE  IInv'
<1>1. TypeOK'
  BY ExitSound DEF IInv, TypeOK, TimerType
<1>2. Staffed'
  BY StaffedAfterExit DEF IInv
<1>3. ShutdownOrder'
  BY ExitSound DEF IInv, ShutdownOrder, WorkersGoFirst
<1> QED BY <1>1, <1>2, <1>3 DEF IInv

(* What changes only the record of one worker. *)
LEMMA ChangeKeeps ==
    ASSUME IInv, NEW w \in DOMAIN workers, NEW rec \in Worker,
           workers' = [workers EXCEPT ![w] = rec],
           \/ rec.phase = workers[w].phase /\ rec.left = workers[w].left
           \/ workers[w].phase = "told" /\ rec.phase = "draining" /\ rec.left = WorkerForce,
           UNCHANGED <<timers, recentCrashes, isShuttingDown, master, dropped>>
    PROVE  IInv'
<1> USE ParamsHold DEF Params
<1>1. DOMAIN workers' = DOMAIN workers
  OBVIOUS
<1>2. TypeOK'
  BY <1>1 DEF IInv, TypeOK
<1>3. Staffed'
  BY <1>1 DEF IInv, Staffed
<1>4. ShutdownOrder'
  <2>1. \A x \in DOMAIN workers : workers'[x] = IF x = w THEN rec ELSE workers[x]
    BY DEF IInv, TypeOK
  <2> QED BY <1>1, <2>1 DEF IInv, TypeOK, ShutdownOrder, WorkersGoFirst, Worker
<1> QED BY <1>2, <1>3, <1>4 DEF IInv

LEMMA InitSound == Init => IInv
<1> USE ParamsHold DEF Params
<1> SUFFICES ASSUME Init PROVE IInv
  OBVIOUS
<1>1. PICK first \in kSubset(NumWorkers, Ids) : workers = [w \in first |-> NewWorker(0)]
  BY DEF Init
<1>2. first \subseteq Ids /\ Cardinality(first) = NumWorkers
  BY <1>1 DEF kSubset
<1>3. NewWorker(0) \in Worker /\ NewWorker(0).phase = "up"
  BY DEF NewWorker, Worker
<1>4. DOMAIN workers = first /\ \A w \in first : workers[w] = NewWorker(0)
  BY <1>1
<1>5. TypeOK
  <2>1. workers \in [DOMAIN workers -> Worker]
    BY <1>1, <1>3, <1>4
  <2>2. <<>> \in Seq(TimerType)
    OBVIOUS
  <2>3. master \in [code : {"up", "0", "1"}, left : Nat]
    BY DEF Init
  <2>4. recentCrashes \in [Ages -> Nat]
    BY DEF Init
  <2> QED BY <1>2, <1>4, <2>1, <2>2, <2>3, <2>4 DEF Init, TypeOK, TimerType
<1>6. Staffed
  BY <1>2, <1>4, ManagerAssumption DEF Init, Staffed, ManagerAssumption
<1>7. ShutdownOrder
  BY <1>3, <1>4 DEF Init, ShutdownOrder, WorkersGoFirst
<1> QED BY <1>5, <1>6, <1>7 DEF IInv

LEMMA RespawnKeeps ==
    ASSUME IInv, NEW i \in DOMAIN timers, Respawn(i)
    PROVE  IInv'
<1> USE ParamsHold DEF Params
<1>1. timers' \in Seq(TimerType) /\ Len(timers') = Len(timers) - 1
  BY RemoveTimer DEF Respawn, IInv, TypeOK, TimerType
<1>2. CASE isShuttingDown
  <2>1. workers' = workers
    BY <1>2 DEF Respawn
  <2>2. TypeOK' /\ Staffed'
    BY <1>1, <1>2, <2>1 DEF Respawn, IInv, TypeOK, Staffed, TimerType
  <2>3. ShutdownOrder'
    BY <2>1 DEF Respawn, IInv, ShutdownOrder, WorkersGoFirst
  <2> QED BY <2>2, <2>3 DEF IInv
<1>3. CASE ~isShuttingDown
  <2>1. PICK w \in Ids \ DOMAIN workers :
           workers' = [x \in DOMAIN workers \cup {w} |->
                         IF x = w THEN NewWorker(timers[i].restarts) ELSE workers[x]]
    BY <1>3 DEF Respawn
  <2>2. timers[i].restarts \in Nat
    <3>1. timers \in Seq(TimerType)
      BY DEF IInv, TypeOK, TimerType
    <3>2. timers[i] \in TimerType
      BY <3>1
    <3> QED BY <3>2 DEF TimerType
  <2>3. NewWorker(timers[i].restarts) \in Worker /\ NewWorker(timers[i].restarts).phase = "up"
    BY <2>2 DEF NewWorker, Worker
  <2>4. DOMAIN workers' = DOMAIN workers \cup {w}
    BY <2>1
  <2>5. TypeOK'
    BY <1>1, <2>1, <2>3, <2>4 DEF Respawn, IInv, TypeOK, TimerType
  <2>6. Staffed'
    <3>1. Cardinality(DOMAIN workers') = Cardinality(DOMAIN workers) + 1
      BY <2>4, FiniteWorkers, FS_AddElement DEF IInv
    <3>2. Cardinality(DOMAIN workers) \in Nat /\ Len(timers) \in Nat
      BY FiniteWorkers, FS_CardinalityType DEF IInv, TypeOK
    <3> QED BY <1>1, <3>1, <3>2 DEF IInv, Staffed, Respawn
  <2>7. ShutdownOrder'
    BY <1>3, <2>1, <2>3, <2>4 DEF Respawn, IInv, ShutdownOrder, WorkersGoFirst
  <2> QED BY <2>5, <2>6, <2>7 DEF IInv
<1> QED BY <1>2, <1>3 DEF IInv, TypeOK

LEMMA ShutdownKeeps ==
    ASSUME IInv, GracefulShutdown
    PROVE  IInv'
<1> USE ParamsHold DEF Params
<1>1. /\ ~isShuttingDown /\ isShuttingDown'
      /\ workers' = [w \in DOMAIN workers |-> [workers[w] EXCEPT !.phase = "told"]]
      /\ master' = [master EXCEPT !.left = MasterForce]
      /\ UNCHANGED <<timers, recentCrashes, dropped>>
  BY DEF GracefulShutdown
<1>2. \A w \in DOMAIN workers : workers'[w] \in Worker /\ workers'[w].phase = "told"
  BY <1>1 DEF IInv, TypeOK, Worker
<1>3. TypeOK'
  BY <1>1, <1>2 DEF IInv, TypeOK, GracefulShutdown
<1>4. Staffed'
  BY <1>1 DEF Staffed
<1>5. ShutdownOrder'
  BY <1>1, <1>2 DEF IInv, TypeOK, ShutdownOrder, WorkersGoFirst
<1> QED BY <1>3, <1>4, <1>5 DEF IInv

LEMMA MasterKeeps ==
    ASSUME IInv, MasterIdle \/ MasterForceExit
    PROVE  IInv'
<1> USE ParamsHold DEF Params
<1>1. isShuttingDown /\ master.code = "up" /\ isShuttingDown' = isShuttingDown
      /\ workers' = workers /\ master'.code # "up"
  BY DEF MasterIdle, MasterForceExit, IInv, TypeOK
<1>2. DOMAIN workers = {}
  <2>1. CASE MasterIdle
    BY <2>1 DEF MasterIdle
  <2>2. CASE MasterForceExit
    <3>1. SUFFICES ASSUME NEW w \in DOMAIN workers PROVE FALSE
      OBVIOUS
    <3>2. master.left = 0 /\ MasterForce > 0
      BY <2>2 DEF MasterForceExit
    <3>3. workers[w].phase \in {"up", "told", "draining"} /\ workers[w].left \in Nat
      BY DEF IInv, TypeOK, Worker
    <3> QED BY <1>1, <3>2, <3>3 DEF IInv, ShutdownOrder
  <2> QED BY <2>1, <2>2
<1>3. TypeOK'
  <2>1. master' \in [code : {"up", "0", "1"}, left : Nat]
    BY DEF MasterIdle, MasterForceExit, IInv, TypeOK
  <2>2. timers' \in Seq(TimerType)
    <3>1. timers \in Seq(TimerType) /\ <<>> \in Seq(TimerType)
      BY DEF IInv, TypeOK, TimerType
    <3>2. timers' = timers \/ timers' = <<>>
      BY DEF MasterIdle, MasterForceExit
    <3> QED BY <3>1, <3>2
  <2> QED BY <1>1, <2>1, <2>2 DEF MasterIdle, MasterForceExit, IInv, TypeOK, TimerType
<1>4. Staffed'
  BY <1>1 DEF Staffed
<1>5. ShutdownOrder'
  BY <1>1, <1>2 DEF ShutdownOrder, WorkersGoFirst, IInv
<1> QED BY <1>3, <1>4, <1>5 DEF IInv

LEMMA TickKeeps ==
    ASSUME IInv, Tick
    PROVE  IInv'
<1> USE ParamsHold DEF Params
<1>1. /\ ~Due
      /\ timers' = [i \in DOMAIN timers |-> [timers[i] EXCEPT !.left = @ - 1]]
      /\ workers' = [w \in DOMAIN workers |-> [workers[w] EXCEPT !.left = Down(@)]]
      /\ recentCrashes' = [age \in Ages |-> IF age = 0 THEN 0 ELSE recentCrashes[age - 1]]
      /\ master' = [master EXCEPT !.left = Down(@)]
      /\ UNCHANGED <<isShuttingDown, dropped>>
  BY DEF Tick
<1>2. \A n \in Nat : Down(n) \in Nat /\ (n > 0 => Down(n) = n - 1)
  BY DEF Down
<1>3. /\ timers \in Seq(TimerType)
      /\ workers \in [DOMAIN workers -> Worker]
      /\ recentCrashes \in [Ages -> Nat]
  BY DEF IInv, TypeOK, TimerType
<1>4. timers' \in Seq(TimerType) /\ Len(timers') = Len(timers)
  <2>1. \A i \in DOMAIN timers : timers[i] \in TimerType /\ timers[i].left # 0
    BY <1>1, <1>3 DEF Due
  <2>2. ASSUME NEW i \in DOMAIN timers PROVE timers'[i] \in TimerType
    <3>1. timers[i] \in TimerType /\ timers[i].left # 0
      BY <2>1
    <3>2. timers[i].left \in Nat /\ timers[i].left - 1 \in Nat
      BY <3>1 DEF TimerType
    <3>3. timers'[i] = [timers[i] EXCEPT !.left = @ - 1]
      BY <1>1
    <3> QED BY <3>1, <3>2, <3>3 DEF TimerType
  <2>3. DOMAIN timers' = 1..Len(timers)
    BY <1>1, <1>3
  <2> QED BY <1>1, <1>3, <2>2, <2>3
<1>5. workers' \in [DOMAIN workers -> Worker]
  <2>1. \A w \in DOMAIN workers : [workers[w] EXCEPT !.left = Down(@)] \in Worker
    BY <1>2, <1>3 DEF Worker
  <2> QED BY <1>1, <2>1
<1>6. recentCrashes' \in [Ages -> Nat]
  <2>1. \A age \in Ages : age # 0 => age - 1 \in Ages
    BY ManagerAssumption DEF ManagerAssumption, Ages
  <2> QED BY <1>1, <1>3, <2>1
<1>7. TypeOK'
  <2>1. master' \in [code : {"up", "0", "1"}, left : Nat]
    BY <1>1, <1>2 DEF IInv, TypeOK
  <2>2. DOMAIN workers' = DOMAIN workers
    BY <1>5
  <2> QED BY <1>1, <1>4, <1>5, <1>6, <2>1, <2>2 DEF IInv, TypeOK, TimerType
<1>8. Staffed'
  BY <1>1, <1>4 DEF IInv, Staffed
<1>9. ShutdownOrder'
  <2>1. DOMAIN workers' = DOMAIN workers
    BY <1>5
  <2>2. \A w \in DOMAIN workers :
           workers'[w].phase = workers[w].phase /\ workers'[w].left = Down(workers[w].left)
    BY <1>1, <1>3 DEF Worker
  <2>3. master'.code = master.code /\ master'.left = Down(master.left) /\ master.left \in Nat
    BY <1>1 DEF IInv, TypeOK
  <2>4. ASSUME isShuttingDown, master.code = "up", NEW w \in DOMAIN workers
        PROVE  /\ workers[w].phase = "draining"
               /\ workers'[w].left < master'.left
    <3>1. workers[w].phase \in {"up", "told", "draining"} /\ workers[w].left \in Nat
      BY <1>3 DEF Worker
    <3>2. workers[w].phase = "draining" /\ workers[w].left # 0
      BY <1>1, <2>4, <3>1 DEF Due, IInv, ShutdownOrder
    <3>3. workers[w].left < master.left
      BY <2>4, <3>2 DEF IInv, ShutdownOrder
    <3>4. workers'[w].left = workers[w].left - 1 /\ master'.left = master.left - 1
      <4>1. workers[w].left > 0 /\ master.left > 0
        BY <2>3, <3>1, <3>2, <3>3
      <4> QED BY <2>2, <2>3, <3>1, <4>1 DEF Down
    <3> QED BY <2>3, <3>1, <3>2, <3>3, <3>4
  <2> QED BY <1>1, <2>1, <2>2, <2>3, <2>4 DEF IInv, ShutdownOrder, WorkersGoFirst
<1> QED BY <1>7, <1>8, <1>9 DEF IInv

LEMMA StepSound == IInv /\ [Next]_vars => IInv'
<1> USE ParamsHold DEF Params
<1> SUFFICES ASSUME IInv, [Next]_vars PROVE IInv'
  OBVIOUS
<1>0. \A w \in DOMAIN workers : workers[w] \in Worker
  BY DEF IInv, TypeOK
<1>1. ASSUME NEW w \in DOMAIN workers, Crash(w) \/ Drained(w) \/ ForceExit(w) PROVE IInv'
  <2>1. /\ HandleExit(w) /\ isShuttingDown' = isShuttingDown /\ master' = master
        /\ dropped' \in BOOLEAN
    BY <1>1 DEF Crash, Drained, ForceExit, IInv, TypeOK
  <2> QED BY <2>1, ExitKeeps
<1>2. ASSUME NEW w \in DOMAIN workers, SendFails(w) PROVE IInv'
  <2>1. dropped' \in BOOLEAN
    BY <1>2 DEF SendFails, IInv, TypeOK
  <2>2. HandleExit(w) /\ isShuttingDown' = isShuttingDown /\ master' = master
    BY <1>2 DEF SendFails
  <2> QED BY <2>1, <2>2, ExitKeeps
<1>3. ASSUME NEW w \in DOMAIN workers, RequestStart(w) PROVE IInv'
  <2> DEFINE rec == [workers[w] EXCEPT !.busy = @ + 1]
  <2>1. rec \in Worker /\ rec.phase = workers[w].phase /\ rec.left = workers[w].left
    <3>1. workers[w] \in Worker /\ workers[w].busy \in 0..MaxBusy
      BY <1>0 DEF Worker
    <3>2. workers[w].busy + 1 \in 0..MaxBusy
      BY <1>3, <3>1 DEF RequestStart
    <3> QED BY <3>1, <3>2 DEF Worker
  <2>2. workers' = [workers EXCEPT ![w] = rec]
    BY <1>3 DEF RequestStart
  <2> QED BY <1>3, <2>1, <2>2, ChangeKeeps DEF RequestStart
<1>4. ASSUME NEW w \in DOMAIN workers, RequestEnd(w) PROVE IInv'
  <2> DEFINE rec == [workers[w] EXCEPT !.busy = @ - 1]
  <2>1. rec \in Worker /\ rec.phase = workers[w].phase /\ rec.left = workers[w].left
    <3>1. workers[w] \in Worker /\ workers[w].busy \in 0..MaxBusy
      BY <1>0 DEF Worker
    <3>2. workers[w].busy - 1 \in 0..MaxBusy
      BY <1>4, <3>1 DEF RequestEnd
    <3> QED BY <3>1, <3>2 DEF Worker
  <2>2. workers' = [workers EXCEPT ![w] = rec]
    BY <1>4 DEF RequestEnd
  <2> QED BY <1>4, <2>1, <2>2, ChangeKeeps DEF RequestEnd
<1>5. ASSUME NEW w \in DOMAIN workers, Deliver(w) PROVE IInv'
  <2> DEFINE rec == [workers[w] EXCEPT !.phase = "draining", !.left = WorkerForce]
  <2>1. rec \in Worker /\ rec.phase = "draining" /\ rec.left = WorkerForce
    BY <1>0, <1>5 DEF Worker
  <2>2. workers' = [workers EXCEPT ![w] = rec] /\ workers[w].phase = "told"
    BY <1>5 DEF Deliver
  <2> QED BY <1>5, <2>1, <2>2, ChangeKeeps DEF Deliver
<1>6. ASSUME NEW w \in DOMAIN workers, CloseChannel(w) PROVE IInv'
  <2> DEFINE rec == [workers[w] EXCEPT !.channel = FALSE]
  <2>1. rec \in Worker /\ rec.phase = workers[w].phase /\ rec.left = workers[w].left
    BY <1>0, <1>6 DEF Worker
  <2>2. workers' = [workers EXCEPT ![w] = rec]
    BY <1>6 DEF CloseChannel
  <2> QED BY <1>6, <2>1, <2>2, ChangeKeeps DEF CloseChannel
<1>7. CASE UNCHANGED vars
  BY <1>7 DEF vars, IInv, TypeOK, Staffed, ShutdownOrder, WorkersGoFirst
<1> QED
  BY <1>1, <1>2, <1>3, <1>4, <1>5, <1>6, <1>7, RespawnKeeps, ShutdownKeeps, MasterKeeps,
     TickKeeps DEF Next

THEOREM Invariant == Spec => []IInv
BY InitSound, StepSound, PTL DEF Spec

(* Type correctness of the supervisor and its workers. *)
THEOREM TypeCorrect == Spec => []TypeOK
<1>1. IInv => TypeOK
  BY DEF IInv
<1> QED BY <1>1, Invariant, PTL

(* Until a shutdown, live workers and pending restarts (_handleWorkerExit)
   add up to numWorkers. *)
THEOREM StaffedCorrect == Spec => []Staffed
<1>1. IInv => Staffed
  BY DEF IInv
<1> QED BY <1>1, Invariant, PTL

(* The master is never forced out, or idle, before its workers are gone. *)
THEOREM WorkersGoFirstCorrect == Spec => []WorkersGoFirst
<1>1. IInv => WorkersGoFirst
  BY DEF IInv, ShutdownOrder
<1> QED BY <1>1, Invariant, PTL

(* A restart timer that outlives the start of a shutdown spawns nothing. *)
THEOREM NoSpawnCorrect == Spec => NoSpawnOnceShutting
<1>1. IInv /\ [Next]_vars => [isShuttingDown => DOMAIN workers' \subseteq DOMAIN workers]_vars
  <2> SUFFICES ASSUME IInv, Next, isShuttingDown
               PROVE  DOMAIN workers' \subseteq DOMAIN workers
    BY DEF vars
  <2>1. ASSUME NEW i \in DOMAIN timers, Respawn(i) PROVE DOMAIN workers' \subseteq DOMAIN workers
    BY <2>1 DEF Respawn
  <2>2. ASSUME NEW w \in DOMAIN workers, HandleExit(w) PROVE DOMAIN workers' \subseteq DOMAIN workers
    BY <2>2, ExitSound DEF IInv
  <2>3. ASSUME NEW w \in DOMAIN workers,
               RequestStart(w) \/ RequestEnd(w) \/ Deliver(w) \/ CloseChannel(w)
        PROVE  DOMAIN workers' = DOMAIN workers
    BY <2>3 DEF RequestStart, RequestEnd, Deliver, CloseChannel
  <2>4. CASE GracefulShutdown \/ MasterIdle \/ MasterForceExit \/ Tick
    <3>1. DOMAIN workers' = DOMAIN workers
      BY <2>4 DEF GracefulShutdown, MasterIdle, MasterForceExit, Tick
    <3> QED BY <3>1
  <2> QED BY <2>1, <2>2, <2>3, <2>4 DEF Next, Crash, SendFails, Drained, ForceExit
<1> QED BY <1>1, Invariant, PTL DEF Spec, NoSpawnOnceShutting
=============================================================================
