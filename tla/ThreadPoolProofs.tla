-------------------------- MODULE ThreadPoolProofs --------------------------
(***************************************************************************)
(* For any tasks, any number of threads and any deaths among them: every   *)
(* worker and every task of ThreadPool is in one place.                    *)
(***************************************************************************)
EXTENDS ThreadPool, CollectionLemmas

-----------------------------------------------------------------------------
(* The inductive invariant. *)

(* The states of a promise, and the messages a thread posts. *)
Promises == {"none", "waiting", "resolved", "rejected"}
Replies == [task : Tasks, success : BOOLEAN]

(* The task of a worker that has one, sent or answered. *)
Assigned(w, messages, ans) == IF w \in DOMAIN messages THEN messages[w] ELSE ans[w].task

(* What is in the hands of the workers, of the queue and of the callers agrees.
   It holds of the state, and of what a handler makes of it before it drains
   the queue. *)
Consistent(free, queue, pending, messages, ans, prom) ==
    /\ free \in Seq(Threads) /\ IsInjective(free)
    /\ queue \in Seq(Tasks) /\ IsInjective(queue)
    /\ pending \subseteq Tasks
    /\ messages \in [DOMAIN messages -> Tasks] /\ DOMAIN messages \subseteq Threads
    /\ ans \in [DOMAIN ans -> Replies] /\ DOMAIN ans \subseteq Threads
    /\ prom \in [Tasks -> Promises]
    /\ ToSet(free) \cap (DOMAIN messages \cup DOMAIN ans) = {}
    /\ DOMAIN messages \cap DOMAIN ans = {}
    /\ ToSet(queue) \cap pending = {}
    /\ \A t \in Tasks : prom[t] = "waiting" <=> t \in ToSet(queue) \cup pending
    /\ \A w \in DOMAIN messages \cup DOMAIN ans : Assigned(w, messages, ans) \in pending
    /\ \A w, v \in DOMAIN messages \cup DOMAIN ans :
          Assigned(w, messages, ans) = Assigned(v, messages, ans) => w = v

(* The workers of the list: as many as configured, each free or busy until
   the pool is destroyed; only such a worker ends. *)
Manned ==
    /\ isInitialized \in BOOLEAN /\ isDestroyed \in BOOLEAN /\ deaths \in Nat
    /\ workers \subseteq Threads /\ dead \subseteq workers
    /\ ToSet(freeWorkers) \cup Busy \subseteq workers
    /\ ~isDestroyed => ToSet(freeWorkers) \cup Busy = workers
    /\ IF isInitialized THEN Cardinality(workers) = ThreadCount
                        ELSE workers = {} /\ taskQueue = <<>>

(* Nobody waits in front of a free worker, until a thread ends. *)
Served ==
    /\ deaths = 0 /\ ~isDestroyed => dead = {}
    /\ WorkConserving

(* The three together are inductive. *)
PInv ==
    /\ Consistent(freeWorkers, taskQueue, pendingTasks, posted, answers, promise)
    /\ Manned
    /\ Served
-----------------------------------------------------------------------------
(* The queue is drained. *)

(* What _drainQueue does, without its order: the workers given get a task each
   out of the queue, and the stack or the queue is empty then. *)
Handed(free, queue, pending, messages, given, task) ==
    /\ freeWorkers' \in Seq(Threads) /\ IsInjective(freeWorkers')
    /\ ToSet(freeWorkers') = ToSet(free) \ given
    /\ taskQueue' \in Seq(Tasks) /\ IsInjective(taskQueue')
    /\ ToSet(taskQueue') = ToSet(queue) \ {task[w] : w \in given}
    /\ pendingTasks' = pending \cup {task[w] : w \in given}
    /\ \A w, v \in given : task[w] = task[v] => w = v
    /\ posted' = [w \in DOMAIN messages \cup given |->
                     IF w \in given THEN task[w] ELSE messages[w]]
    /\ freeWorkers' = <<>> \/ taskQueue' = <<>>

(* The order is one way to hand some free workers a task each. *)
LEMMA Drained ==
    ASSUME NEW free \in Seq(Threads), IsInjective(free),
           NEW queue \in Seq(Tasks), IsInjective(queue), NEW pending, NEW messages,
           DrainQueue(free, queue, pending, messages)
    PROVE  \E given \in SUBSET ToSet(free) : \E task \in [given -> ToSet(queue)] :
              Handed(free, queue, pending, messages, given, task)
<1> DEFINE f == Len(free)
           q == Len(queue)
           n == Min({f, q})
           at(w) == CHOOSE i \in 1..n : free[f + 1 - i] = w
           given == {free[f + 1 - i] : i \in 1..n}
           task == [w \in given |-> queue[at(w)]]
<1>1. f \in Nat /\ q \in Nat /\ DOMAIN free = 1..f /\ DOMAIN queue = 1..q
  OBVIOUS
<1>2. n \in 0..f /\ n \in 0..q /\ (n = f \/ n = q)
  <2>1. n = IF f <= q THEN f ELSE q
    BY <1>1, MinOfTwo
  <2> HIDE DEF n
  <2> QED
    BY <1>1, <2>1
<1>3. /\ freeWorkers' = SubSeq(free, 1, f - n) /\ taskQueue' = SubSeq(queue, n + 1, q)
      /\ pendingTasks' = pending \cup {queue[i] : i \in 1..n}
      /\ posted' = [w \in DOMAIN messages \cup given |->
                       IF w \in given THEN queue[at(w)] ELSE messages[w]]
  BY DEF DrainQueue
<1> HIDE DEF f, q, n
<1>4. \A i \in 1..n : f + 1 - i \in 1..f /\ f + 1 - i \notin 1..(f - n)
  BY <1>1, <1>2
<1>5. ASSUME NEW i \in 1..n PROVE at(free[f + 1 - i]) = i
  <2>1. ASSUME NEW j \in 1..n, free[f + 1 - j] = free[f + 1 - i] PROVE j = i
    <3>1. f + 1 - j = f + 1 - i
      BY <1>1, <1>4, <2>1 DEF IsInjective
    <3> QED
      BY <1>1, <1>2, <3>1
  <2> QED
    BY <2>1
<1>6. \A w \in given : at(w) \in 1..n /\ w = free[f + 1 - at(w)]
  BY <1>5
<1> HIDE DEF at
<1>7. given \in SUBSET ToSet(free)
  BY <1>1, <1>4 DEF ToSet
<1>8. \A i \in 1..n : i \in 1..q
  BY <1>1, <1>2
<1>9. \A w \in given : task[w] = queue[at(w)] /\ task[w] \in ToSet(queue)
  BY <1>1, <1>6, <1>8 DEF ToSet
<1>10. {task[w] : w \in given} = {queue[i] : i \in 1..n}
  <2>1. ASSUME NEW w \in given PROVE task[w] \in {queue[i] : i \in 1..n}
    BY <1>6, <1>9
  <2>2. ASSUME NEW i \in 1..n PROVE queue[i] \in {task[w] : w \in given}
    <3>1. free[f + 1 - i] \in given /\ task[free[f + 1 - i]] = queue[i]
      BY <1>5, <1>9
    <3> QED
      BY <3>1
  <2> QED
    BY <2>1, <2>2
<1>11. ASSUME NEW w \in given, NEW v \in given, task[w] = task[v] PROVE w = v
  <2> HIDE DEF given, task
  <2>1. at(w) \in 1..q /\ at(v) \in 1..q /\ queue[at(w)] = queue[at(v)]
    BY <1>6, <1>8, <1>9, <1>11
  <2>2. at(w) = at(v)
    BY <1>1, <2>1 DEF IsInjective
  <2> QED
    BY <1>6, <2>2
<1>12. /\ freeWorkers' \in Seq(Threads) /\ IsInjective(freeWorkers')
       /\ ToSet(freeWorkers') = {free[i] : i \in 1..(f - n)}
       /\ n = f => freeWorkers' = <<>>
  <2>1. f = Len(free)
    BY DEF f
  <2>2. f - n \in 0..f /\ (n = f => f - n = 0)
    BY <1>1, <1>2
  <2> QED
    BY <1>3, <2>1, <2>2, Cut
<1>13. /\ taskQueue' \in Seq(Tasks) /\ IsInjective(taskQueue')
       /\ ToSet(taskQueue') = {queue[i] : i \in (n + 1)..q}
       /\ n = q => taskQueue' = <<>>
  <2>1. n \in 0..Len(queue)
    BY <1>2 DEF q
  <2> QED
    BY <1>3, <2>1, Cut DEF q
<1>14. {free[i] : i \in 1..(f - n)} = ToSet(free) \ given
  <2>1. ASSUME NEW i \in 1..(f - n) PROVE free[i] \in ToSet(free) \ given
    <3>1. i \in 1..f
      BY <1>1, <1>2
    <3>2. \A j \in 1..n : free[f + 1 - j] # free[i]
      BY <1>1, <1>4, <3>1 DEF IsInjective
    <3> QED
      BY <1>1, <3>1, <3>2 DEF ToSet
  <2>2. ASSUME NEW i \in 1..f, free[i] \notin given PROVE i \in 1..(f - n)
    <3> SUFFICES ASSUME i \notin 1..(f - n) PROVE FALSE
      OBVIOUS
    <3>1. f + 1 - i \in 1..n /\ f + 1 - (f + 1 - i) = i
      BY <1>1, <1>2
    <3> QED
      BY <2>2, <3>1
  <2> QED
    BY <1>1, <2>1, <2>2 DEF ToSet
<1>15. {queue[i] : i \in (n + 1)..q} = ToSet(queue) \ {queue[i] : i \in 1..n}
  <2>1. \A i \in 1..q : i \in 1..n \/ i \in (n + 1)..q
    BY <1>1, <1>2
  <2>2. \A i \in (n + 1)..q : i \in 1..q /\ i \notin 1..n
    BY <1>1, <1>2
  <2> QED
    BY <1>1, <1>8, <2>1, <2>2 DEF ToSet, IsInjective
<1>16. posted' = [w \in DOMAIN messages \cup given |->
                     IF w \in given THEN task[w] ELSE messages[w]]
  BY <1>3, <1>9
<1>17. task \in [given -> ToSet(queue)]
  BY <1>9
<1> HIDE DEF given, task
<1>18. /\ freeWorkers' \in Seq(Threads) /\ IsInjective(freeWorkers')
       /\ ToSet(freeWorkers') = ToSet(free) \ given
       /\ taskQueue' \in Seq(Tasks) /\ IsInjective(taskQueue')
       /\ ToSet(taskQueue') = ToSet(queue) \ {task[w] : w \in given}
       /\ pendingTasks' = pending \cup {task[w] : w \in given}
       /\ freeWorkers' = <<>> \/ taskQueue' = <<>>
  BY <1>2, <1>3, <1>10, <1>12, <1>13, <1>14, <1>15
<1> QED
  BY <1>7, <1>11, <1>16, <1>17, <1>18 DEF Handed

(* Draining moves workers from free to busy and tasks from queued to pending. *)
LEMMA DrainConsistent ==
    ASSUME NEW free, NEW queue, NEW pending, NEW messages, NEW ans, NEW prom,
           Consistent(free, queue, pending, messages, ans, prom),
           DrainQueue(free, queue, pending, messages)
    PROVE  /\ Consistent(freeWorkers', taskQueue', pendingTasks', posted', ans, prom)
           /\ ToSet(freeWorkers') \cup DOMAIN posted' = ToSet(free) \cup DOMAIN messages
           /\ freeWorkers' = <<>> \/ taskQueue' = <<>>
<1>1. /\ free \in Seq(Threads) /\ IsInjective(free)
      /\ queue \in Seq(Tasks) /\ IsInjective(queue)
  BY DEF Consistent
<1>2. PICK given \in SUBSET ToSet(free) : \E task \in [given -> ToSet(queue)] :
             Handed(free, queue, pending, messages, given, task)
  BY <1>1, Drained
<1>3. PICK task \in [given -> ToSet(queue)] :
             Handed(free, queue, pending, messages, given, task)
  BY <1>2
<1>4. ToSet(free) \subseteq Threads /\ ToSet(queue) \subseteq Tasks
  BY <1>1 DEF ToSet
<1>5. given \cap (DOMAIN messages \cup DOMAIN ans) = {}
  BY DEF Consistent
<1>6. /\ DOMAIN posted' = DOMAIN messages \cup given
      /\ \A w \in given : posted'[w] = task[w]
      /\ \A w \in DOMAIN messages : posted'[w] = messages[w]
  BY <1>3, <1>5 DEF Handed
<1>7. \A w \in given : Assigned(w, posted', ans) = task[w]
  BY <1>6 DEF Assigned
<1>8. \A w \in DOMAIN messages \cup DOMAIN ans :
          Assigned(w, posted', ans) = Assigned(w, messages, ans)
  BY <1>5, <1>6 DEF Assigned
<1>9. \A w \in given : task[w] \in ToSet(queue) /\ task[w] \notin pending
  BY DEF Consistent
<1>10. posted' \in [DOMAIN posted' -> Tasks] /\ DOMAIN posted' \subseteq Threads
  <2>1. \A w \in DOMAIN posted' : posted'[w] \in Tasks
    BY <1>4, <1>6, <1>9 DEF Consistent
  <2> QED
    BY <1>3, <1>4, <1>6, <2>1 DEF Consistent, Handed
<1>11. pendingTasks' \subseteq Tasks
  BY <1>3, <1>4, <1>9 DEF Consistent, Handed
<1>12. /\ ToSet(freeWorkers') \cap (DOMAIN posted' \cup DOMAIN ans) = {}
       /\ DOMAIN posted' \cap DOMAIN ans = {}
  BY <1>3, <1>5, <1>6 DEF Consistent, Handed
<1>13. /\ ToSet(taskQueue') \cap pendingTasks' = {}
       /\ ToSet(taskQueue') \cup pendingTasks' = ToSet(queue) \cup pending
  <2> DEFINE gone == {task[w] : w \in given}
  <2>1. ToSet(taskQueue') = ToSet(queue) \ gone /\ pendingTasks' = pending \cup gone
    BY <1>3 DEF Handed
  <2>2. gone \subseteq ToSet(queue)
    BY <1>9
  <2>3. ToSet(queue) \cap pending = {}
    BY DEF Consistent
  <2> HIDE DEF gone
  <2> QED
    BY <2>1, <2>2, <2>3
<1>14. \A w \in DOMAIN posted' \cup DOMAIN ans : Assigned(w, posted', ans) \in pendingTasks'
  <2>1. pending \subseteq pendingTasks' /\ \A w \in given : task[w] \in pendingTasks'
    BY <1>3 DEF Handed
  <2> QED
    BY <1>6, <1>7, <1>8, <2>1 DEF Consistent
<1>15. ASSUME NEW w \in DOMAIN posted' \cup DOMAIN ans, NEW v \in DOMAIN posted' \cup DOMAIN ans,
              Assigned(w, posted', ans) = Assigned(v, posted', ans)
       PROVE  w = v
  <2>1. CASE w \in given /\ v \in given
    BY <1>3, <1>7, <1>15, <2>1 DEF Handed
  <2>2. CASE w \notin given /\ v \notin given
    BY <1>6, <1>8, <1>15, <2>2 DEF Consistent
  <2>3. \A x \in DOMAIN posted' \cup DOMAIN ans :
            x \in given <=> Assigned(x, posted', ans) \notin pending
    BY <1>6, <1>7, <1>8, <1>9 DEF Consistent
  <2> QED
    BY <1>15, <2>1, <2>2, <2>3
<1>16. Consistent(freeWorkers', taskQueue', pendingTasks', posted', ans, prom)
  BY <1>3, <1>10, <1>11, <1>12, <1>13, <1>14, <1>15 DEF Consistent, Handed
<1> QED
  BY <1>3, <1>6, <1>16 DEF Handed

-----------------------------------------------------------------------------
(* Every step preserves the invariant. *)

(* Nothing is there at first. *)
LEMMA InitInv == Init => PInv
<1> SUFFICES ASSUME Init PROVE PInv
  OBVIOUS
<1>1. ToSet(<<>>) = {} /\ IsInjective(<<>>)
  BY DEF ToSet, IsInjective
<1>2. Consistent(freeWorkers, taskQueue, pendingTasks, posted, answers, promise)
  <2>1. freeWorkers = <<>> /\ taskQueue = <<>> /\ pendingTasks = {}
    BY DEF Init
  <2>2. DOMAIN posted = {} /\ posted \in [{} -> Tasks]
    BY DEF Init
  <2>3. DOMAIN answers = {} /\ answers \in [{} -> Replies]
    BY DEF Init
  <2>4. promise \in [Tasks -> Promises] /\ \A t \in Tasks : promise[t] # "waiting"
    BY DEF Init, Promises
  <2> QED
    BY <1>1, <2>1, <2>2, <2>3, <2>4 DEF Consistent
<1>3. Manned
  BY <1>1 DEF Init, Manned, Busy
<1> QED
  BY <1>2, <1>3 DEF Init, PInv, Served, WorkConserving

(* The first workers, all free. *)
LEMMA Spawned ==
    ASSUME PInv, ~isInitialized, NEW first \in kSubset(ThreadCount, Threads)
    PROVE  /\ first \subseteq Threads /\ Cardinality(first) = ThreadCount
           /\ SetToSeq(first) \in Seq(Threads) /\ IsInjective(SetToSeq(first))
           /\ ToSet(SetToSeq(first)) = first
           /\ workers = {} /\ dead = {} /\ Busy = {} /\ taskQueue = <<>>
<1>1. first \in SUBSET Threads /\ Cardinality(first) = ThreadCount
  BY DEF kSubset
<1>2. IsFiniteSet(first)
  BY <1>1, PoolAssumption, FS_Subset DEF PoolAssumption
<1>3. SetToSeq(first) \in Seq(first) /\ IsInjective(SetToSeq(first)) /\ ToSet(SetToSeq(first)) = first
  BY <1>2, Listed
<1>4. SetToSeq(first) \in Seq(Threads)
  BY <1>1, <1>3, SeqMonotonic
<1> QED
  BY <1>1, <1>3, <1>4 DEF PInv, Manned

(* The pool is manned with free workers. *)
LEMMA InitPoolInv == PInv /\ InitPool => PInv'
<1> SUFFICES ASSUME PInv, InitPool PROVE PInv'
  OBVIOUS
<1>1. PICK first \in kSubset(ThreadCount, Threads) :
             workers' = first /\ freeWorkers' = SetToSeq(first)
  BY DEF InitPool
<1>2. /\ first \subseteq Threads /\ Cardinality(first) = ThreadCount
      /\ freeWorkers' \in Seq(Threads) /\ IsInjective(freeWorkers')
      /\ ToSet(freeWorkers') = first
      /\ workers = {} /\ dead = {} /\ Busy = {} /\ taskQueue = <<>>
  BY <1>1, Spawned DEF InitPool
<1>3. /\ isInitialized' /\ isInitialized' \in BOOLEAN
      /\ UNCHANGED <<isDestroyed, taskQueue, pendingTasks, posted, answers, dead, promise, deaths>>
  BY DEF InitPool
<1>4. Consistent(freeWorkers, taskQueue, pendingTasks, posted, answers, promise)'
  BY <1>2, <1>3 DEF PInv, Consistent, Assigned, Busy
<1>5. Manned'
  BY <1>1, <1>2, <1>3 DEF PInv, Manned, Busy
<1>6. Served'
  BY <1>2, <1>3 DEF PInv, Served, WorkConserving
<1> QED
  BY <1>4, <1>5, <1>6 DEF PInv

(* A new task is queued before the queue is drained. *)
LEMMA ExecuteInv == ASSUME PInv, NEW t \in Tasks, Execute(t) PROVE PInv'
<1>1. /\ promise[t] = "none" /\ promise' = [promise EXCEPT ![t] = "waiting"]
      /\ isInitialized' = TRUE /\ UNCHANGED <<isDestroyed, answers, dead, deaths>>
  BY DEF Execute
<1>2. PICK free :
        /\ DrainQueue(free, Append(taskQueue, t), pendingTasks, posted)
        /\ free \in Seq(Threads) /\ IsInjective(free)
        /\ ToSet(free) \cap Busy = {}
        /\ workers' \subseteq Threads /\ dead \subseteq workers'
        /\ Cardinality(workers') = ThreadCount
        /\ ToSet(free) \cup Busy \subseteq workers'
        /\ ~isDestroyed => ToSet(free) \cup Busy = workers'
  <2>1. CASE isInitialized
    BY <2>1 DEF Execute, PInv, Consistent, Manned, Busy
  <2>2. CASE ~isInitialized
    <3>1. PICK first \in kSubset(ThreadCount, Threads) :
                 /\ workers' = first
                 /\ DrainQueue(SetToSeq(first), Append(taskQueue, t), pendingTasks, posted)
      BY <2>2 DEF Execute
    <3> QED
      BY <2>2, <3>1, Spawned
  <2> QED
    BY <2>1, <2>2
<1>3. t \notin ToSet(taskQueue) /\ t \notin pendingTasks
  BY <1>1 DEF PInv, Consistent
<1>4. /\ Append(taskQueue, t) \in Seq(Tasks) /\ IsInjective(Append(taskQueue, t))
      /\ ToSet(Append(taskQueue, t)) = ToSet(taskQueue) \cup {t}
  BY <1>3, Appended DEF PInv, Consistent
<1>5. Consistent(free, Append(taskQueue, t), pendingTasks, posted, answers, promise')
  <2>1. promise' \in [Tasks -> Promises]
    BY <1>1 DEF PInv, Consistent, Promises
  <2>2. \A u \in Tasks : promise'[u] = "waiting"
                           <=> u \in ToSet(Append(taskQueue, t)) \cup pendingTasks
    BY <1>1, <1>4 DEF PInv, Consistent
  <2>3. ToSet(Append(taskQueue, t)) \cap pendingTasks = {}
    BY <1>3, <1>4 DEF PInv, Consistent
  <2> QED
    BY <1>2, <1>4, <2>1, <2>2, <2>3 DEF PInv, Consistent, Busy
<1>6. /\ Consistent(freeWorkers', taskQueue', pendingTasks', posted', answers, promise')
      /\ ToSet(freeWorkers') \cup DOMAIN posted' = ToSet(free) \cup DOMAIN posted
      /\ freeWorkers' = <<>> \/ taskQueue' = <<>>
  BY <1>2, <1>5, DrainConsistent
<1>7. Manned'
  BY <1>1, <1>2, <1>6 DEF PInv, Manned, Busy
<1>8. Served'
  BY <1>1, <1>6 DEF PInv, Served, WorkConserving
<1> QED
  BY <1>1, <1>6, <1>7, <1>8 DEF PInv

(* The task of a worker goes with it from sent to answered. *)
LEMMA AnswerInv == ASSUME PInv, NEW w \in Threads, Answer(w) PROVE PInv'
<1>1. /\ w \in DOMAIN posted /\ posted' = Forget(posted, w)
      /\ UNCHANGED <<isInitialized, isDestroyed, workers, freeWorkers, taskQueue,
                     pendingTasks, dead, promise, deaths>>
  BY DEF Answer
<1>2. PICK success \in BOOLEAN :
          answers' = [x \in DOMAIN answers \cup {w} |->
                        IF x = w THEN [task |-> posted[w], success |-> success] ELSE answers[x]]
  BY DEF Answer
<1>3. DOMAIN posted' = DOMAIN posted \ {w} /\ \A x \in DOMAIN posted' : posted'[x] = posted[x]
  BY <1>1 DEF Forget
<1>4. /\ DOMAIN answers' = DOMAIN answers \cup {w} /\ answers'[w].task = posted[w]
      /\ \A x \in DOMAIN answers : x # w => answers'[x] = answers[x]
  BY <1>2
<1>5. posted[w] \in Tasks /\ w \notin DOMAIN answers
  BY <1>1 DEF PInv, Consistent
<1>6. answers' \in [DOMAIN answers' -> Replies]
  BY <1>2, <1>5 DEF PInv, Consistent, Replies
<1>7. posted' \in [DOMAIN posted' -> Tasks]
  BY <1>1, <1>3 DEF PInv, Consistent, Forget
<1>8. \A x \in DOMAIN posted \cup DOMAIN answers :
          Assigned(x, posted', answers') = Assigned(x, posted, answers)
  BY <1>1, <1>3, <1>4, <1>5 DEF Assigned
<1>9. DOMAIN posted' \cup DOMAIN answers' = DOMAIN posted \cup DOMAIN answers
  BY <1>1, <1>3, <1>4
<1>10. Consistent(freeWorkers, taskQueue, pendingTasks, posted, answers, promise)'
  <2>1. DOMAIN posted' \cap DOMAIN answers' = {}
    BY <1>3, <1>4 DEF PInv, Consistent
  <2> QED
    BY <1>1, <1>6, <1>7, <1>8, <1>9, <2>1 DEF PInv, Consistent
<1> QED
  BY <1>1, <1>9, <1>10 DEF PInv, Manned, Served, WorkConserving, Busy

(* The answer settles the promise of its task, which is pending, and its worker
   is free before the queue is drained. *)
LEMMA OnMessageInv == ASSUME PInv, NEW w \in Threads, OnMessage(w) PROVE PInv'
<1> DEFINE t == answers[w].task
           free == Append(freeWorkers, w)
<1>1. /\ w \in DOMAIN answers /\ answers' = Forget(answers, w)
      /\ DrainQueue(free, taskQueue, pendingTasks \ {t}, posted)
      /\ UNCHANGED <<isInitialized, isDestroyed, workers, dead, deaths>>
  BY DEF OnMessage
<1>2. /\ t \in pendingTasks /\ t \in Tasks /\ w \notin DOMAIN posted /\ w \notin ToSet(freeWorkers)
      /\ t = Assigned(w, posted, answers)
  BY <1>1 DEF PInv, Consistent, Assigned
<1>3. /\ promise' \in [Tasks -> Promises] /\ promise'[t] # "waiting"
      /\ \A u \in Tasks : u # t => promise'[u] = promise[u]
  <2>1. promise' = Settled(answers[w])
    BY <1>2 DEF OnMessage
  <2> QED
    BY <1>2, <2>1 DEF Settled, PInv, Consistent, Promises
<1>4. free \in Seq(Threads) /\ IsInjective(free) /\ ToSet(free) = ToSet(freeWorkers) \cup {w}
  BY <1>2, Appended DEF PInv, Consistent
<1>5. /\ DOMAIN answers' = DOMAIN answers \ {w}
      /\ \A x \in DOMAIN answers' : answers'[x] = answers[x]
      /\ answers' \in [DOMAIN answers' -> Replies]
  BY <1>1 DEF Forget, PInv, Consistent
<1>6. \A x \in DOMAIN posted \cup DOMAIN answers' :
          /\ x # w /\ x \in DOMAIN posted \cup DOMAIN answers
          /\ Assigned(x, posted, answers') = Assigned(x, posted, answers)
  BY <1>2, <1>5 DEF Assigned
<1> HIDE DEF free, t
<1>7. Consistent(free, taskQueue, pendingTasks \ {t}, posted, answers', promise')
  <2>1. \A u \in Tasks : promise'[u] = "waiting"
                           <=> u \in ToSet(taskQueue) \cup (pendingTasks \ {t})
    BY <1>2, <1>3 DEF PInv, Consistent
  <2>2. ToSet(taskQueue) \cap (pendingTasks \ {t}) = {} /\ pendingTasks \ {t} \subseteq Tasks
    BY DEF PInv, Consistent
  <2>3. \A x \in DOMAIN posted \cup DOMAIN answers' :
            Assigned(x, posted, answers') \in pendingTasks \ {t}
    BY <1>1, <1>2, <1>6 DEF PInv, Consistent
  <2>4. \A x, v \in DOMAIN posted \cup DOMAIN answers' :
            Assigned(x, posted, answers') = Assigned(v, posted, answers') => x = v
    BY <1>6 DEF PInv, Consistent
  <2>5. ToSet(free) \cap (DOMAIN posted \cup DOMAIN answers') = {}
    BY <1>2, <1>4, <1>5 DEF PInv, Consistent
  <2>6. DOMAIN answers' \subseteq Threads /\ DOMAIN posted \cap DOMAIN answers' = {}
    BY <1>5 DEF PInv, Consistent
  <2>7. /\ taskQueue \in Seq(Tasks) /\ IsInjective(taskQueue)
        /\ posted \in [DOMAIN posted -> Tasks] /\ DOMAIN posted \subseteq Threads
    BY DEF PInv, Consistent
  <2> QED
    BY <1>3, <1>4, <1>5, <2>1, <2>2, <2>3, <2>4, <2>5, <2>6, <2>7 DEF Consistent
<1>8. /\ Consistent(freeWorkers', taskQueue', pendingTasks', posted', answers', promise')
      /\ ToSet(freeWorkers') \cup DOMAIN posted' = ToSet(free) \cup DOMAIN posted
      /\ freeWorkers' = <<>> \/ taskQueue' = <<>>
  BY <1>1, <1>7, DrainConsistent
<1>9. ToSet(freeWorkers') \cup (DOMAIN posted' \cup DOMAIN answers')
         = ToSet(freeWorkers) \cup (DOMAIN posted \cup DOMAIN answers)
  BY <1>1, <1>4, <1>5, <1>8
<1>10. Manned'
  <2>1. isInitialized
    BY <1>1 DEF PInv, Manned, Busy
  <2> QED
    BY <1>1, <1>9, <2>1 DEF PInv, Manned, Busy
<1>11. Served'
  BY <1>1, <1>8 DEF PInv, Served, WorkConserving
<1> QED
  BY <1>8, <1>10, <1>11 DEF PInv

(* A death is not seen until its event. *)
LEMMA DieInv == ASSUME PInv, NEW w \in Threads, Die(w) PROVE PInv'
<1>1. /\ w \in workers /\ dead' = dead \cup {w} /\ deaths' = deaths + 1
      /\ UNCHANGED <<isInitialized, isDestroyed, workers, freeWorkers, taskQueue,
                     pendingTasks, posted, answers, promise>>
  BY DEF Die
<1>2. deaths' # 0 /\ deaths' \in Nat
  BY <1>1 DEF PInv, Manned
<1> QED
  BY <1>1, <1>2 DEF PInv, Consistent, Manned, Served, WorkConserving, Busy

(* A worker that is gone leaves no name behind, on the stack or with a task,
   and its replacement is nobody who is still there. *)
LEMMA OnExitInv == ASSUME PInv, NEW w \in Threads, OnExit(w) PROVE PInv'
<1>1. /\ w \in dead /\ w \notin DOMAIN answers
      /\ dead' = dead \ {w} /\ posted' = Forget(posted, w)
      /\ UNCHANGED <<isInitialized, isDestroyed, taskQueue, pendingTasks, answers,
                     promise, deaths>>
  BY DEF OnExit
<1>2. DOMAIN posted' = DOMAIN posted \ {w} /\ \A x \in DOMAIN posted' : posted'[x] = posted[x]
  BY <1>1 DEF Forget
<1>3. posted' \in [DOMAIN posted' -> Tasks]
  BY <1>1, <1>2 DEF PInv, Consistent, Forget
<1>4. \A x \in DOMAIN posted' \cup DOMAIN answers :
          Assigned(x, posted', answers) = Assigned(x, posted, answers)
  BY <1>1, <1>2 DEF Assigned
<1>5. ASSUME freeWorkers' \in Seq(Threads), IsInjective(freeWorkers'),
             ToSet(freeWorkers') \cap (DOMAIN posted' \cup DOMAIN answers) = {}
      PROVE  Consistent(freeWorkers, taskQueue, pendingTasks, posted, answers, promise)'
  BY <1>1, <1>2, <1>3, <1>4, <1>5 DEF PInv, Consistent
<1>6. CASE isDestroyed
  <2>1. UNCHANGED <<workers, freeWorkers>>
    BY <1>6 DEF OnExit
  <2>2. Consistent(freeWorkers, taskQueue, pendingTasks, posted, answers, promise)'
    BY <1>2, <1>5, <2>1 DEF PInv, Consistent
  <2>3. Manned'
    BY <1>1, <1>2, <1>6, <2>1 DEF PInv, Manned, Busy
  <2>4. Served'
    BY <1>1, <1>6, <2>1 DEF PInv, Served, WorkConserving
  <2> QED
    BY <2>2, <2>3, <2>4 DEF PInv
<1>7. CASE ~isDestroyed
  <2>1. PICK new \in Threads \ workers :
               /\ workers' = (workers \ {w}) \cup {new}
               /\ freeWorkers' = Append(RemoveFirst(freeWorkers, w), new)
    BY <1>7 DEF OnExit
  <2>2. /\ RemoveFirst(freeWorkers, w) \in Seq(Threads)
        /\ IsInjective(RemoveFirst(freeWorkers, w))
        /\ ToSet(RemoveFirst(freeWorkers, w)) = ToSet(freeWorkers) \ {w}
    BY FirstRemoved DEF PInv, Consistent
  <2>3. /\ w \in workers /\ new # w /\ new \notin Busy /\ new \notin ToSet(freeWorkers)
        /\ workers \subseteq Threads
    BY <1>1, <2>1 DEF PInv, Manned
  <2>4. /\ freeWorkers' \in Seq(Threads) /\ IsInjective(freeWorkers')
        /\ ToSet(freeWorkers') = (ToSet(freeWorkers) \ {w}) \cup {new}
    BY <2>1, <2>2, <2>3, Appended
  <2>5. Consistent(freeWorkers, taskQueue, pendingTasks, posted, answers, promise)'
    BY <1>2, <1>5, <2>3, <2>4 DEF PInv, Consistent, Busy
  <2>6. Cardinality(workers') = ThreadCount /\ isInitialized
    <3>1. isInitialized /\ Cardinality(workers) = ThreadCount
      BY <2>3 DEF PInv, Manned
    <3>2. IsFiniteSet(workers)
      BY <2>3, PoolAssumption, FS_Subset DEF PoolAssumption
    <3>3. IsFiniteSet(workers \ {w}) /\ Cardinality(workers \ {w}) = ThreadCount - 1
      BY <2>3, <3>1, <3>2, FS_RemoveElement
    <3>4. Cardinality((workers \ {w}) \cup {new}) = Cardinality(workers \ {w}) + 1
      BY <2>1, <3>3, FS_AddElement
    <3> QED
      BY <2>1, <3>1, <3>3, <3>4, PoolAssumption DEF PoolAssumption
  <2>7. Manned'
    BY <1>1, <1>2, <1>7, <2>1, <2>3, <2>4, <2>6 DEF PInv, Manned, Busy
  <2>8. Served'
    BY <1>1, <1>7 DEF PInv, Served, WorkConserving
  <2> QED
    BY <2>5, <2>7, <2>8 DEF PInv
<1> QED
  BY <1>6, <1>7

(* From here on the pool is not replaced, and threads end at will. *)
LEMMA DestroyInv == PInv /\ Destroy => PInv'
<1> SUFFICES ASSUME PInv, Destroy PROVE PInv'
  OBVIOUS
<1>1. /\ isDestroyed' = TRUE /\ dead' = dead \cup workers
      /\ UNCHANGED <<isInitialized, workers, freeWorkers, taskQueue, pendingTasks,
                     posted, answers, promise, deaths>>
  BY DEF Destroy
<1> QED
  BY <1>1 DEF PInv, Consistent, Manned, Served, WorkConserving, Busy

(* Initially true, and kept by every step. *)
LEMMA Invariance == Spec => []PInv
<1>1. PInv /\ [Next]_vars => PInv'
  <2> SUFFICES ASSUME PInv, [Next]_vars PROVE PInv'
    OBVIOUS
  <2>1. CASE UNCHANGED vars
    BY <2>1 DEF vars, PInv, Consistent, Manned, Served, WorkConserving, Busy
  <2>2. CASE Next
    BY <2>2, InitPoolInv, ExecuteInv, AnswerInv, OnMessageInv, DieInv, OnExitInv, DestroyInv
    DEF Next
  <2> QED
    BY <2>1, <2>2
<1> QED
  BY <1>1, InitInv, PTL DEF Spec

-----------------------------------------------------------------------------
(* No worker gets a second task before it answered the first, none drops out
   of the pool, and the dead ones are replaced, however deaths, messages and
   exit events interleave. *)
THEOREM OneTaskEachCorrect == Spec => []OneTaskEach
<1>1. PInv => OneTaskEach
  BY DEF PInv, Consistent, Manned, OneTaskEach, Busy
<1> QED
  BY <1>1, Invariance, PTL

(* A task is queued, pending or settled, and no two workers have the same. *)
THEOREM TasksAccountedCorrect == Spec => []TasksAccounted
<1>1. PInv => TasksAccounted
  <2> SUFFICES ASSUME PInv PROVE TasksAccounted
    OBVIOUS
  <2>1. \A w \in Busy : TaskOf(w) = Assigned(w, posted, answers)
    BY DEF TaskOf, Assigned
  <2> QED
    BY <2>1 DEF PInv, Consistent, TasksAccounted, Busy
<1> QED
  BY <1>1, Invariance, PTL

(* Until a thread ends no task waits while a worker is free. *)
THEOREM WorkConservingCorrect == Spec => []WorkConserving
<1>1. PInv => WorkConserving
  BY DEF PInv, Served
<1> QED
  BY <1>1, Invariance, PTL
=============================================================================
