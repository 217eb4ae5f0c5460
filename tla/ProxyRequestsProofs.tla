------------------------ MODULE ProxyRequestsProofs ------------------------
(***************************************************************************)
(* The single-flight table is sound and nobody gets a body of another key, *)
(* for any number of requests, workers and keys.  The inductive invariant  *)
(* adds to the two properties where bodies travel: the master's cache and  *)
(* its answers hold a body only under the key it was fetched for.          *)
(***************************************************************************)
EXTENDS ProxyRequests, TLAPS

KeySound ==
    /\ \A k \in Keys : cache[k] # None => KeyOf[cache[k]] = k
    /\ \A r \in Requests : reply[r] # None => KeyOf[reply[r]] = KeyOf[r]
    /\ OwnKey

IInv == TypeOK /\ FlightSound /\ KeySound

(* What Settle touches. *)
FlightPart ==
    /\ stage \in [Requests -> {"new", "lookup", "answer", "follow", "stream"} \cup Leading \cup Over]
    /\ flight \in [Workers -> [Keys -> Requests \cup {None}]]
    /\ FlightSound

OutcomePart ==
    /\ outcome \in [Requests -> Requests \cup {None, "error", "streamed"}]
    /\ OwnKey

(* A flight that lands takes along everyone who waits for it. *)
LEMMA SettleSound ==
    ASSUME IInv, NEW r \in Requests, stage[r] \in Leading,
           NEW result \in Requests \cup {"error"},
           result \in Requests => KeyOf[result] = KeyOf[r],
           Settle(r, result)
    PROVE  FlightPart' /\ OutcomePart'
<1> USE RequestsAssumption DEF RequestsAssumption
<1> DEFINE ends == {r} \cup {q \in Requests : stage[q] = "follow" /\ SameFlight(r, q)}
<1>1. /\ flight' = [flight EXCEPT ![WorkerOf[r]][KeyOf[r]] = None]
      /\ stage' = [q \in Requests |-> IF q \in ends THEN "done" ELSE stage[q]]
      /\ outcome' = [q \in Requests |-> IF q \in ends THEN result ELSE outcome[q]]
  BY DEF Settle
<1>2. ends \subseteq Requests /\ \A q \in ends : KeyOf[q] = KeyOf[r] /\ WorkerOf[q] = WorkerOf[r]
  BY DEF SameFlight
<1>3. FlightOf(r) = r
  BY DEF IInv, FlightSound
<1>4. FlightPart'
  <2>1. stage' \in [Requests -> {"new", "lookup", "answer", "follow", "stream"} \cup Leading \cup Over]
    BY <1>1 DEF IInv, TypeOK, Over
  <2>2. flight' \in [Workers -> [Keys -> Requests \cup {None}]]
    BY <1>1 DEF IInv, TypeOK
  <2>3. \A w \in Workers, k \in Keys :
           flight'[w][k] = IF w = WorkerOf[r] /\ k = KeyOf[r] THEN None ELSE flight[w][k]
    BY <1>1 DEF IInv, TypeOK
  <2>4. ASSUME NEW q \in Requests PROVE stage'[q] \in Leading <=> FlightOf(q)' = q
    <3>1. CASE SameFlight(r, q)
      <4>1. FlightOf(q)' = None
        BY <2>3, <3>1 DEF FlightOf, SameFlight
      <4>2. stage[q] \in Leading => q = r
        BY <1>3, <3>1 DEF IInv, FlightSound, FlightOf, SameFlight
      <4>3. stage'[q] \notin Leading
        BY <1>1, <4>2 DEF Leading
      <4> QED BY <4>1, <4>3
    <3>2. CASE ~SameFlight(r, q)
      <4>1. FlightOf(q)' = FlightOf(q)
        BY <2>3, <3>2 DEF FlightOf, SameFlight
      <4>2. q \notin ends
        BY <3>2, <1>2 DEF SameFlight
      <4>3. stage'[q] = stage[q]
        BY <1>1, <4>2
      <4> QED BY <4>1, <4>3 DEF IInv, FlightSound
    <3> QED BY <3>1, <3>2
  <2>5. ASSUME NEW q \in Requests, stage'[q] = "follow" PROVE FlightOf(q)' # None
    <3>1. stage[q] = "follow" /\ q \notin ends
      BY <2>5, <1>1
    <3>2. ~SameFlight(r, q)
      BY <3>1
    <3>3. FlightOf(q)' = FlightOf(q)
      BY <2>3, <3>2 DEF FlightOf, SameFlight
    <3> QED BY <3>1, <3>3 DEF IInv, FlightSound
  <2>6. \A w \in Workers, k \in Keys : flight'[w][k] # None =>
           WorkerOf[flight'[w][k]] = w /\ KeyOf[flight'[w][k]] = k
    BY <2>3 DEF IInv, FlightSound
  <2> QED BY <2>1, <2>2, <2>4, <2>5, <2>6 DEF FlightPart, FlightSound
<1>5. OutcomePart'
  <2>1. outcome' \in [Requests -> Requests \cup {None, "error", "streamed"}]
    BY <1>1 DEF IInv, TypeOK
  <2>2. ASSUME NEW q \in Requests, outcome'[q] \in Requests PROVE KeyOf[outcome'[q]] = KeyOf[q]
    BY <2>2, <1>1, <1>2 DEF IInv, KeySound, OwnKey
  <2> QED BY <2>1, <2>2 DEF OutcomePart, OwnKey
<1> QED BY <1>4, <1>5

(* A request joins the flight that is there or starts one where none is. *)
LEMMA JoinOrLeadSound ==
    ASSUME IInv, NEW r \in Requests, stage[r] \in {"lookup", "answer"}, JoinOrLead(r)
    PROVE  FlightPart'
<1> USE RequestsAssumption DEF RequestsAssumption
<1>1. stage[r] \notin Leading /\ FlightOf(r) # r
  BY DEF IInv, FlightSound, Leading
<1>2. CASE FlightOf(r) # None
  <2>1. stage' = [stage EXCEPT ![r] = "follow"] /\ flight' = flight
    BY <1>2 DEF JoinOrLead
  <2>2. \A q \in Requests : FlightOf(q)' = FlightOf(q)
    BY <2>1 DEF FlightOf
  <2>3. \A q \in Requests : stage'[q] = IF q = r THEN "follow" ELSE stage[q]
    BY <2>1 DEF IInv, TypeOK
  <2>4. stage' \in [Requests -> {"new", "lookup", "answer", "follow", "stream"} \cup Leading \cup Over]
    BY <2>1 DEF IInv, TypeOK
  <2>5. FlightSound'
    BY <1>1, <1>2, <2>1, <2>2, <2>3 DEF IInv, FlightSound, Leading
  <2> QED BY <2>1, <2>4, <2>5 DEF FlightPart, IInv, TypeOK
<1>3. CASE FlightOf(r) = None
  <2>1. /\ stage' = [stage EXCEPT ![r] = "recheck"]
        /\ flight' = [flight EXCEPT ![WorkerOf[r]][KeyOf[r]] = r]
    BY <1>3 DEF JoinOrLead
  <2>2. \A w \in Workers, k \in Keys :
           flight'[w][k] = IF w = WorkerOf[r] /\ k = KeyOf[r] THEN r ELSE flight[w][k]
    BY <2>1 DEF IInv, TypeOK
  <2>3. \A q \in Requests : stage'[q] = IF q = r THEN "recheck" ELSE stage[q]
    BY <2>1 DEF IInv, TypeOK
  <2>4. /\ stage' \in [Requests -> {"new", "lookup", "answer", "follow", "stream"} \cup Leading \cup Over]
        /\ flight' \in [Workers -> [Keys -> Requests \cup {None}]]
    BY <2>1 DEF IInv, TypeOK, Leading
  <2>5. ASSUME NEW q \in Requests
        PROVE  /\ stage'[q] \in Leading <=> FlightOf(q)' = q
               /\ stage'[q] = "follow" => FlightOf(q)' # None
    <3>1. CASE SameFlight(r, q)
      <4>1. FlightOf(q)' = r /\ FlightOf(q) = None
        BY <1>3, <2>2, <3>1 DEF FlightOf, SameFlight
      <4>2. stage[q] \notin Leading /\ stage[q] # "follow"
        BY <4>1 DEF IInv, FlightSound
      <4> QED BY <4>1, <4>2, <2>3 DEF Leading
    <3>2. CASE ~SameFlight(r, q)
      <4>1. FlightOf(q)' = FlightOf(q) /\ q # r
        BY <2>2, <3>2 DEF FlightOf, SameFlight
      <4> QED BY <4>1, <2>3 DEF IInv, FlightSound
    <3> QED BY <3>1, <3>2
  <2>6. \A w \in Workers, k \in Keys : flight'[w][k] # None =>
           WorkerOf[flight'[w][k]] = w /\ KeyOf[flight'[w][k]] = k
    BY <2>2 DEF IInv, FlightSound
  <2> QED BY <2>4, <2>5, <2>6 DEF FlightPart, FlightSound
<1> QED BY <1>2, <1>3

(* A request that moves on without touching the table neither leads nor
   follows afterwards unless it did before. *)
LEMMA MoveSound ==
    ASSUME IInv, NEW r \in Requests,
           NEW to \in {"new", "lookup", "answer", "stream"} \cup Leading \cup Over,
           stage[r] \in Leading <=> to \in Leading,
           stage' = [stage EXCEPT ![r] = to], flight' = flight
    PROVE  FlightPart'
<1> USE RequestsAssumption DEF RequestsAssumption
<1>1. \A q \in Requests : stage'[q] = IF q = r THEN to ELSE stage[q]
  BY DEF IInv, TypeOK
<1>2. to # "follow"
  BY DEF Leading, Over
<1>3. \A q \in Requests : FlightOf(q)' = FlightOf(q)
  BY DEF FlightOf
<1>4. FlightSound'
  BY <1>1, <1>2, <1>3 DEF IInv, FlightSound
<1>5. stage' \in [Requests -> {"new", "lookup", "answer", "follow", "stream"} \cup Leading \cup Over]
  BY DEF IInv, TypeOK
<1> QED BY <1>4, <1>5 DEF FlightPart, IInv, TypeOK

(* A worker that dies takes its table and all its requests along. *)
LEMMA CrashSound ==
    ASSUME IInv, NEW w \in Workers, Crash(w)
    PROVE  FlightPart'
<1> USE RequestsAssumption DEF RequestsAssumption
<1>1. /\ stage' = [r \in Requests |-> IF WorkerOf[r] = w /\ Active(r) THEN "lost" ELSE stage[r]]
      /\ flight' = [flight EXCEPT ![w] = [k \in Keys |-> None]]
  BY DEF Crash
<1>2. \A v \in Workers, k \in Keys : flight'[v][k] = IF v = w THEN None ELSE flight[v][k]
  BY <1>1 DEF IInv, TypeOK
<1>3. \A r \in Requests : stage[r] \in Leading \/ stage[r] = "follow" => Active(r)
  BY DEF Active, Leading, Over
<1>4. stage' \in [Requests -> {"new", "lookup", "answer", "follow", "stream"} \cup Leading \cup Over]
  BY <1>1 DEF IInv, TypeOK, Over
<1>5. flight' \in [Workers -> [Keys -> Requests \cup {None}]]
  BY <1>1 DEF IInv, TypeOK
<1>6. ASSUME NEW r \in Requests
      PROVE  /\ stage'[r] \in Leading <=> FlightOf(r)' = r
             /\ stage'[r] = "follow" => FlightOf(r)' # None
  <2>1. CASE WorkerOf[r] = w
    <3>1. FlightOf(r)' = None
      BY <1>2, <2>1 DEF FlightOf
    <3>2. stage'[r] \notin Leading /\ stage'[r] # "follow"
      BY <1>1, <1>3, <2>1 DEF Leading
    <3> QED BY <3>1, <3>2
  <2>2. CASE WorkerOf[r] # w
    <3>1. FlightOf(r)' = FlightOf(r) /\ stage'[r] = stage[r]
      BY <1>1, <1>2, <2>2 DEF FlightOf
    <3> QED BY <3>1 DEF IInv, FlightSound
  <2> QED BY <2>1, <2>2
<1>7. \A v \in Workers, k \in Keys : flight'[v][k] # None =>
         WorkerOf[flight'[v][k]] = v /\ KeyOf[flight'[v][k]] = k
  BY <1>2 DEF IInv, FlightSound
<1> QED BY <1>4, <1>5, <1>6, <1>7 DEF FlightPart, FlightSound

LEMMA InitSound == Init => IInv
<1> USE RequestsAssumption DEF RequestsAssumption
<1> SUFFICES ASSUME Init PROVE IInv
  OBVIOUS
<1>1. TypeOK
  BY DEF Init, TypeOK, Leading, Over
<1>2. FlightSound
  BY DEF Init, FlightSound, FlightOf, Leading
<1>3. KeySound
  BY DEF Init, KeySound, OwnKey
<1> QED BY <1>1, <1>2, <1>3 DEF IInv

(* The parts that no Settle, JoinOrLead or Crash touches. *)
Rest ==
    /\ reply \in [Requests -> Requests \cup {None}]
    /\ puts \subseteq stored /\ stored \subseteq Requests
    /\ cache \in [Keys -> Requests \cup {None}]
    /\ calm \in BOOLEAN
    /\ \A k \in Keys : cache[k] # None => KeyOf[cache[k]] = k
    /\ \A r \in Requests : reply[r] # None => KeyOf[reply[r]] = KeyOf[r]

LEMMA Parts == IInv <=> FlightPart /\ OutcomePart /\ Rest
BY DEF IInv, TypeOK, KeySound, FlightPart, OutcomePart, Rest

LEMMA StepSound == IInv /\ [Next]_vars => IInv'
<1> USE RequestsAssumption DEF RequestsAssumption
<1> SUFFICES ASSUME IInv, [Next]_vars PROVE FlightPart' /\ OutcomePart' /\ Rest'
  BY DEF IInv, TypeOK, KeySound, FlightPart, OutcomePart, Rest
<1>0. FlightPart /\ OutcomePart /\ Rest
  BY Parts
<1>1. ASSUME NEW r \in Requests, Arrive(r)
      PROVE  FlightPart' /\ OutcomePart' /\ Rest'
  <2>1. FlightPart'
    BY <1>1, MoveSound DEF Arrive, Leading
  <2> QED BY <1>0, <1>1, <2>1 DEF Arrive, OutcomePart, OwnKey, Rest
<1>2. ASSUME NEW r \in Requests, Refuse(r)
      PROVE  FlightPart' /\ OutcomePart' /\ Rest'
  <2>1. FlightPart'
    BY <1>2, MoveSound DEF Refuse, Leading, Over
  <2>2. OutcomePart'
    BY <1>0, <1>2 DEF Refuse, OutcomePart, OwnKey
  <2> QED BY <1>0, <1>2, <2>1, <2>2 DEF Refuse, Rest
<1>3. ASSUME NEW r \in Requests, MasterGet(r)
      PROVE  FlightPart' /\ OutcomePart' /\ Rest'
  <2>1. FlightPart'
    <3>1. CASE stage[r] = "lookup" /\ stage' = [stage EXCEPT ![r] = "answer"]
      BY <1>3, <3>1, MoveSound DEF MasterGet, Leading
    <3>2. CASE stage[r] = "recheck" /\ stage' = [stage EXCEPT ![r] = "reanswer"]
      BY <1>3, <3>2, MoveSound DEF MasterGet, Leading
    <3> QED BY <1>3, <3>1, <3>2 DEF MasterGet
  <2>2. Rest'
    BY <1>0, <1>3 DEF MasterGet, Rest
  <2> QED BY <1>0, <1>3, <2>1, <2>2 DEF MasterGet, OutcomePart, OwnKey
<1>4. ASSUME NEW r \in Requests, Hit(r)
      PROVE  FlightPart' /\ OutcomePart' /\ Rest'
  <2>1. FlightPart'
    BY <1>4, MoveSound DEF Hit, Leading, Over
  <2>2. reply[r] \in Requests /\ KeyOf[reply[r]] = KeyOf[r]
    BY <1>0, <1>4 DEF Hit, Rest
  <2>3. OutcomePart'
    BY <1>0, <1>4, <2>2 DEF Hit, OutcomePart, OwnKey
  <2> QED BY <1>0, <1>4, <2>1, <2>3 DEF Hit, Rest
<1>5. ASSUME NEW r \in Requests, Miss(r) \/ LookupTimeout(r)
      PROVE  FlightPart' /\ OutcomePart' /\ Rest'
  <2>1. FlightPart'
    BY <1>5, JoinOrLeadSound DEF Miss, LookupTimeout
  <2> QED BY <1>0, <1>5, <2>1 DEF Miss, LookupTimeout, OutcomePart, OwnKey, Rest
<1>6. ASSUME NEW r \in Requests, Recheck(r)
      PROVE  FlightPart' /\ OutcomePart' /\ Rest'
  <2>1. Rest'
    BY <1>0, <1>6 DEF Recheck, Rest
  <2>2. CASE reply[r] # None
    <3>1. reply[r] \in Requests /\ KeyOf[reply[r]] = KeyOf[r] /\ stage[r] \in Leading
      BY <1>0, <1>6, <2>2 DEF Recheck, Rest, Leading
    <3> QED BY <1>6, <2>1, <2>2, <3>1, SettleSound DEF Recheck
  <2>3. CASE reply[r] = None
    <3>1. FlightPart'
      BY <1>6, <2>3, MoveSound DEF Recheck, Leading
    <3> QED BY <1>0, <1>6, <2>1, <2>3, <3>1 DEF Recheck, OutcomePart, OwnKey
  <2> QED BY <2>2, <2>3
<1>7. ASSUME NEW r \in Requests, RecheckTimeout(r)
      PROVE  FlightPart' /\ OutcomePart' /\ Rest'
  <2>1. FlightPart'
    BY <1>7, MoveSound DEF RecheckTimeout, Leading
  <2> QED BY <1>0, <1>7, <2>1 DEF RecheckTimeout, OutcomePart, OwnKey, Rest
<1>8. ASSUME NEW r \in Requests, FetchCacheable(r)
      PROVE  FlightPart' /\ OutcomePart' /\ Rest'
  <2>1. FlightPart'
    BY <1>8, MoveSound DEF FetchCacheable, Leading
  <2> QED BY <1>0, <1>8, <2>1 DEF FetchCacheable, OutcomePart, OwnKey, Rest
<1>9. ASSUME NEW r \in Requests, FetchOther(r) \/ PutAck(r) \/ PutTimeout(r)
      PROVE  FlightPart' /\ OutcomePart' /\ Rest'
  <2>1. stage[r] \in Leading
    BY <1>9 DEF FetchOther, PutAck, PutTimeout, Leading
  <2>2. Settle(r, r) \/ Settle(r, "error")
    BY <1>9 DEF FetchOther, PutAck, PutTimeout
  <2>3. FlightPart' /\ OutcomePart'
    BY <2>1, <2>2, SettleSound
  <2> QED BY <1>0, <1>9, <2>3 DEF FetchOther, PutAck, PutTimeout, Rest
<1>10. ASSUME NEW r \in Requests, MasterPut(r)
       PROVE  FlightPart' /\ OutcomePart' /\ Rest'
  <2>1. Rest'
    BY <1>0, <1>10 DEF MasterPut, Rest
  <2> QED BY <1>0, <1>10, <2>1 DEF MasterPut, FlightPart, FlightSound, FlightOf, OutcomePart, OwnKey
<1>11. ASSUME NEW r \in Requests, StreamEnd(r)
       PROVE  FlightPart' /\ OutcomePart' /\ Rest'
  <2>1. FlightPart'
    BY <1>11, MoveSound DEF StreamEnd, Leading, Over
  <2>2. OutcomePart'
    BY <1>0, <1>11 DEF StreamEnd, OutcomePart, OwnKey
  <2> QED BY <1>0, <1>11, <2>1, <2>2 DEF StreamEnd, Rest
<1>12. ASSUME NEW r \in Requests, Disconnect(r)
       PROVE  FlightPart' /\ OutcomePart' /\ Rest'
  <2>1. FlightPart'
    <3>1. CASE stage[r] = "stream"
      <4>1. stage' = [stage EXCEPT ![r] = "lost"] /\ flight' = flight
        BY <1>12, <3>1 DEF Disconnect
      <4> QED BY <3>1, <4>1, MoveSound DEF Leading, Over
    <3>2. CASE stage[r] # "stream"
      <4>1. stage' = stage /\ flight' = flight
        BY <1>12, <3>2 DEF Disconnect, IInv, TypeOK
      <4> QED BY <1>0, <4>1 DEF FlightPart, FlightSound, FlightOf
    <3> QED BY <3>1, <3>2
  <2>2. Rest'
    BY <1>0, <1>12 DEF Disconnect, Rest
  <2> QED BY <1>0, <1>12, <2>1, <2>2 DEF Disconnect, OutcomePart, OwnKey
<1>13. ASSUME NEW k \in Keys, Evict(k)
       PROVE  FlightPart' /\ OutcomePart' /\ Rest'
  <2>1. FlightPart'
    BY <1>0, <1>13 DEF Evict, FlightPart, FlightSound, FlightOf
  <2>2. Rest'
    BY <1>0, <1>13 DEF Evict, Rest
  <2> QED BY <1>0, <1>13, <2>1, <2>2 DEF Evict, OutcomePart, OwnKey
<1>14. ASSUME NEW w \in Workers, Crash(w)
       PROVE  FlightPart' /\ OutcomePart' /\ Rest'
  <2>1. FlightPart'
    BY <1>14, CrashSound
  <2> QED BY <1>0, <1>14, <2>1 DEF Crash, OutcomePart, OwnKey, Rest
<1>15. CASE UNCHANGED vars
  BY <1>0, <1>15 DEF vars, FlightPart, FlightSound, FlightOf, OutcomePart, OwnKey, Rest
<1> QED
  BY <1>1, <1>2, <1>3, <1>4, <1>5, <1>6, <1>7, <1>8, <1>9, <1>10, <1>11, <1>12,
     <1>13, <1>14, <1>15 DEF Next, Progress

THEOREM Invariant == Spec => []IInv
BY InitSound, StepSound, PTL DEF Spec

(* Type correctness of the requests, the tables and the cache. *)
THEOREM TypeCorrect == Spec => []TypeOK
<1>1. IInv => TypeOK
  BY DEF IInv
<1> QED BY <1>1, Invariant, PTL

(* The single-flight table of each worker names exactly its leaders, one per
   key, and no follower waits for a flight that is over (singleFlight.do). *)
THEOREM FlightCorrect == Spec => []FlightSound
<1>1. IInv => FlightSound
  BY DEF IInv
<1> QED BY <1>1, Invariant, PTL

(* A client is never sent a body fetched for another key, whatever is lost,
   late or crashed on the way (handleRequest). *)
THEOREM OwnKeyCorrect == Spec => []OwnKey
<1>1. IInv => OwnKey
  BY DEF IInv, KeySound
<1> QED BY <1>1, Invariant, PTL
-----------------------------------------------------------------------------
(* As long as nothing went wrong: a put under way is that of a leader which
   waits for it, any other body sent is in the cache, and a leader that found
   nothing there, and so will fetch, is the first of its worker to do so. *)
Kept ==
    /\ \A q \in puts : stage[q] = "store"
    /\ \A q \in stored \ puts : cache[KeyOf[q]] # None
    /\ \A r \in Requests, q \in stored :
          stage[r] = "fetch" \/ (stage[r] = "reanswer" /\ reply[r] = None) => ~SameFlight(r, q)
    /\ \A r, q \in stored : SameFlight(r, q) => r = q

KInv == IInv /\ (calm => Kept)

(* No two requests of a worker lead for the same key. *)
LEMMA OneLeader ==
    ASSUME IInv, NEW r \in Requests, NEW q \in Requests,
           stage[r] \in Leading, stage[q] \in Leading, SameFlight(r, q)
    PROVE  r = q
BY DEF IInv, FlightSound, FlightOf, SameFlight

(* What a flight that lands does to the requests on board: they are done. *)
LEMMA LandedStage ==
    ASSUME IInv, NEW r \in Requests, NEW result, Settle(r, result)
    PROVE  /\ stage'[r] = "done"
           /\ \A q \in Requests : stage'[q] = stage[q] \/ (stage'[q] = "done" /\ (q = r \/ stage[q] = "follow"))
BY DEF Settle

(* A landing, of a leader whose put, if it sent one, has arrived. *)
LEMMA SettleKept ==
    ASSUME IInv, Kept, NEW r \in Requests, NEW result, Settle(r, result),
           r \notin puts, UNCHANGED <<reply, puts, cache, stored>>
    PROVE  Kept'
<1>1. \A q \in Requests : stage'[q] = stage[q] \/ (stage'[q] = "done" /\ (q = r \/ stage[q] = "follow"))
  BY LandedStage
<1>2. puts \subseteq Requests
  BY DEF IInv, TypeOK
<1>3. \A q \in puts : stage'[q] = "store"
  BY <1>1, <1>2 DEF Kept
<1>4. \A q \in Requests : stage'[q] \in {"fetch", "reanswer"} => stage'[q] = stage[q]
  BY <1>1
<1> QED
  BY <1>3, <1>4 DEF Kept, SameFlight

(* A request moves on, and not to the upstream server. *)
LEMMA MoveKept ==
    ASSUME IInv, Kept, NEW r \in Requests, NEW to,
           to \notin {"fetch", "reanswer"}, r \notin puts,
           stage' = [stage EXCEPT ![r] = to], UNCHANGED <<reply, puts, cache, stored>>
    PROVE  Kept'
<1>1. \A q \in Requests : stage'[q] = IF q = r THEN to ELSE stage[q]
  BY DEF IInv, TypeOK
<1>2. puts \subseteq Requests
  BY DEF IInv, TypeOK
<1> QED
  BY <1>1, <1>2 DEF Kept, SameFlight

(* Every step keeps the account of what was fetched; a step that ends the
   calm owes nothing. *)
LEMMA StepKept == ASSUME IInv, calm => Kept, [Next]_vars PROVE calm' => Kept'
<1> USE RequestsAssumption DEF RequestsAssumption
<1>0. /\ stage \in [Requests -> {"new", "lookup", "answer", "follow", "stream"} \cup Leading \cup Over]
      /\ reply \in [Requests -> Requests \cup {None}]
      /\ cache \in [Keys -> Requests \cup {None}]
      /\ puts \subseteq stored /\ stored \subseteq Requests
  BY DEF IInv, TypeOK
<1> SUFFICES ASSUME calm' PROVE Kept'
  OBVIOUS
<1>1. ASSUME NEW r \in Requests, Arrive(r) PROVE Kept'
  <2>1. calm /\ r \notin puts
    BY <1>1 DEF Arrive, Kept
  <2>2. PICK to \in {"lookup", "stream"} : stage' = [stage EXCEPT ![r] = to]
    BY <1>1 DEF Arrive
  <2> QED
    BY <1>1, <2>1, <2>2, MoveKept DEF Arrive
<1>2. ASSUME NEW r \in Requests, Refuse(r) \/ Hit(r) \/ StreamEnd(r) PROVE Kept'
  <2>1. /\ calm /\ stage[r] \in {"new", "answer", "stream"}
        /\ stage' = [stage EXCEPT ![r] = "done"]
        /\ UNCHANGED <<reply, puts, cache, stored>>
    BY <1>2 DEF Refuse, Hit, StreamEnd
  <2> QED
    BY <2>1, MoveKept DEF Kept
<1>3. ASSUME NEW r \in Requests, MasterGet(r) PROVE Kept'
  <2>1. calm /\ Kept
    BY <1>3 DEF MasterGet
  <2>2. /\ reply' = [reply EXCEPT ![r] = cache[KeyOf[r]]]
        /\ UNCHANGED <<puts, cache, stored>>
    BY <1>3 DEF MasterGet
  <2>3. PICK to \in {"answer", "reanswer"} :
               /\ stage' = [stage EXCEPT ![r] = to]
               /\ stage[r] = IF to = "answer" THEN "lookup" ELSE "recheck"
    BY <1>3 DEF MasterGet
  <2>4. \A q \in Requests : /\ stage'[q] = IF q = r THEN to ELSE stage[q]
                            /\ reply'[q] = IF q = r THEN cache[KeyOf[r]] ELSE reply[q]
    BY <1>0, <2>2, <2>3
  <2>5. ASSUME to = "reanswer", cache[KeyOf[r]] = None, NEW q \in stored, SameFlight(r, q)
        PROVE  FALSE
    <3>1. q \in puts
      BY <2>1, <2>5 DEF Kept, SameFlight
    <3>2. stage[q] = "store" /\ stage[r] = "recheck"
      BY <2>1, <2>3, <2>5, <3>1 DEF Kept
    <3>3. q = r
      BY <1>0, <2>5, <3>2, OneLeader DEF Leading
    <3> QED
      BY <3>2, <3>3
  <2>6. \A q \in puts : q # r
    BY <2>1, <2>3 DEF Kept
  <2> QED
    BY <1>0, <2>1, <2>2, <2>4, <2>5, <2>6 DEF Kept, SameFlight
<1>4. ASSUME NEW r \in Requests, Miss(r) PROVE Kept'
  <2>1. /\ calm /\ stage[r] = "answer" /\ UNCHANGED <<reply, puts, cache, stored>>
    BY <1>4 DEF Miss
  <2>2. PICK to \in {"follow", "recheck"} : stage' = [stage EXCEPT ![r] = to]
    BY <1>4 DEF Miss, JoinOrLead
  <2> QED
    BY <2>1, <2>2, MoveKept DEF Kept
<1>5. ASSUME NEW r \in Requests, Recheck(r) PROVE Kept'
  <2>1. /\ calm /\ Kept /\ stage[r] = "reanswer" /\ r \notin puts
        /\ UNCHANGED <<reply, puts, cache, stored>>
    BY <1>5 DEF Recheck, Kept
  <2>2. CASE reply[r] # None
    BY <1>5, <2>1, <2>2, SettleKept DEF Recheck
  <2>3. CASE reply[r] = None
    <3>1. \A q \in Requests : stage'[q] = IF q = r THEN "fetch" ELSE stage[q]
      BY <1>0, <1>5, <2>3 DEF Recheck
    <3> QED
      BY <1>0, <2>1, <2>3, <3>1 DEF Kept, SameFlight
  <2> QED
    BY <2>2, <2>3
<1>6. ASSUME NEW r \in Requests, FetchCacheable(r) PROVE Kept'
  <2>1. /\ calm /\ Kept /\ stage[r] = "fetch"
        /\ puts' = puts \cup {r} /\ stored' = stored \cup {r} /\ UNCHANGED <<reply, cache>>
    BY <1>6 DEF FetchCacheable
  <2>2. \A q \in Requests : stage'[q] = IF q = r THEN "store" ELSE stage[q]
    BY <1>0, <1>6 DEF FetchCacheable
  <2>3. ASSUME NEW q \in Requests, stage'[q] \in {"fetch", "reanswer"} PROVE ~SameFlight(q, r)
    <3>1. q # r /\ stage[q] \in Leading /\ stage[r] \in Leading
      BY <2>1, <2>2, <2>3 DEF Leading
    <3> QED
      BY <3>1, OneLeader
  <2>4. \A q \in stored : ~SameFlight(r, q) /\ ~SameFlight(q, r)
    BY <2>1 DEF Kept, SameFlight
  <2>5. \A q \in stored' \ puts' : cache'[KeyOf[q]] # None
    BY <2>1 DEF Kept
  <2>6. \A q, p \in stored' : SameFlight(p, q) => p = q
    BY <2>1, <2>4 DEF Kept
  <2>7. \A q \in puts' : stage'[q] = "store"
    BY <1>0, <2>1, <2>2 DEF Kept
  <2>8. \A p \in Requests, q \in stored' :
           stage'[p] = "fetch" \/ (stage'[p] = "reanswer" /\ reply'[p] = None) => ~SameFlight(p, q)
    BY <2>1, <2>2, <2>3 DEF Kept
  <2> QED
    BY <2>5, <2>6, <2>7, <2>8 DEF Kept, SameFlight
<1>7. ASSUME NEW r \in Requests, FetchOther(r) PROVE Kept'
  <2>1. calm /\ Kept /\ r \notin puts /\ UNCHANGED <<reply, puts, cache, stored>>
    BY <1>7 DEF FetchOther, Kept
  <2> QED
    BY <1>7, <2>1, SettleKept DEF FetchOther
<1>8. ASSUME NEW r \in Requests, MasterPut(r) PROVE Kept'
  <2>1. /\ calm /\ Kept /\ puts' = puts \ {r} /\ UNCHANGED <<stage, reply, stored>>
        /\ \A k \in Keys : cache'[k] = IF k = KeyOf[r] THEN r ELSE cache[k]
    BY <1>0, <1>8 DEF MasterPut
  <2>2. \A q \in stored \ puts' : cache'[KeyOf[q]] # None
    BY <1>0, <2>1 DEF Kept
  <2> QED
    BY <2>1, <2>2 DEF Kept, SameFlight
<1>9. ASSUME NEW r \in Requests, PutAck(r) PROVE Kept'
  <2>1. calm /\ Kept /\ r \notin puts /\ UNCHANGED <<reply, puts, cache, stored>>
    BY <1>9 DEF PutAck
  <2> QED
    BY <1>9, <2>1, SettleKept DEF PutAck
<1>10. ASSUME NEW r \in Requests, Disconnect(r) PROVE Kept'
  BY <1>10, MoveKept DEF Disconnect, Kept
<1>11. CASE UNCHANGED vars
  BY <1>11 DEF vars, Kept, SameFlight
<1> QED
  BY <1>1, <1>2, <1>3, <1>4, <1>5, <1>6, <1>7, <1>8, <1>9, <1>10, <1>11
  DEF Next, Progress, LookupTimeout, RecheckTimeout, PutTimeout, Evict, Crash

(* Why the leader looks at the cache a second time (proxyHandler.js:91): as
   long as nothing times out, is evicted or crashes, a worker fetches a body
   for the cache once, for any number of requests in any order. *)
THEOREM FetchedOnceCorrect == Spec => []FetchedOncePerWorker
<1>1. Init => KInv
  <2>1. Init => Kept
    BY DEF Init, Kept
  <2> QED
    BY <2>1, InitSound DEF KInv
<1>2. KInv /\ [Next]_vars => KInv'
  BY StepSound, StepKept DEF KInv
<1>3. KInv => FetchedOncePerWorker
  BY DEF KInv, Kept, FetchedOncePerWorker
<1> QED
  BY <1>1, <1>2, <1>3, PTL DEF Spec
=============================================================================
