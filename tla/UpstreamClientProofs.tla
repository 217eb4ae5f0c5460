------------------------ MODULE UpstreamClientProofs ------------------------
(***************************************************************************)
(* For bodies and buffers of any size: backpressure neither hangs nor      *)
(* overflows, bodies are whole, and nobody writes to a client that left.   *)
(***************************************************************************)
EXTENDS UpstreamClient, TLAPS

Typed ==
    /\ mode \in {"stream", "fetch"}
    /\ client \in {"connected", "gone"}
    /\ answer \in {"none", "origin", "error"}
    /\ req \in {"open", "destroyed", "closed"}
    /\ res \in {"none", "flowing", "paused", "ended", "failed"}
    /\ ended \in BOOLEAN /\ needDrain \in BOOLEAN /\ complete \in BOOLEAN
    /\ dumped \in BOOLEAN /\ stalled \in BOOLEAN

Numbers ==
    /\ total \in Nat /\ buffered \in Nat /\ listeners \in Nat
    /\ received \in Nat /\ written \in Nat

(* Chunks are written after they arrive, and taken after they are written. *)
Counted ==
    /\ written <= received /\ received <= total /\ buffered <= written
    /\ received - written <= ResBuffer
    /\ complete => received = total

(* A drain is due exactly if there is a listener for it; until it comes, or the
   response is dumped, no chunk is emitted.  Only a stream is ever paused. *)
Pressure ==
    /\ needDrain => listeners = 1
    /\ ~needDrain => listeners = 0
    /\ buffered <= HighWater
    /\ needDrain => buffered > 0 /\ (res # "flowing" \/ dumped)
    /\ ~needDrain => buffered < HighWater
    /\ res = "paused" => needDrain
    /\ needDrain => res # "none"
    /\ mode = "fetch" => buffered = 0

(* What the state of the upstream side says of its past. *)
History ==
    /\ dumped => req # "open" /\ res \notin {"none", "paused"}
    /\ dumped /\ client = "connected" /\ ~stalled => ~complete
    /\ res = "ended" => complete /\ (written = total \/ dumped)
    /\ req = "closed" => complete \/ res \in {"none", "failed"}

(* A response with the origin's headers is only ended by End; in a stream, an
   error answers only if no response came, or none that is listened to. *)
Endings ==
    /\ ended /\ answer = "origin" => res = "ended"
    /\ ended => answer # "none"
    /\ mode = "stream" /\ answer = "none" => res = "none" \/ dumped
    /\ mode = "stream" /\ ended => res = "ended" \/ dumped \/ (res = "none" /\ req # "open")

(* The stream of a client that is gone does not flow. *)
NoFlowAfterClose == mode = "stream" /\ client = "gone" => res # "flowing" \/ dumped

Inv == Typed /\ Numbers /\ Counted /\ Pressure /\ History /\ Endings /\ NoFlowAfterClose

-----------------------------------------------------------------------------

(* The first states satisfy the invariant. *)
LEMMA InitInv == Init => Inv
<1>1. HighWater \in Nat /\ HighWater > 0
  BY UpstreamAssumption
<1>2. Init => Pressure
  BY <1>1 DEF Init, Pressure
<1>3. Init => Typed
  BY DEF Init, Typed
<1>4. Init => Numbers /\ Counted
  BY UpstreamAssumption DEF Init, Numbers, Counted
<1>5. Init => History /\ Endings /\ NoFlowAfterClose
  BY DEF Init, History, Endings, NoFlowAfterClose
<1> QED
  BY <1>2, <1>3, <1>4, <1>5 DEF Inv

(* Every step preserves the invariant. *)
LEMMA StepInv == Inv /\ [Next]_vars => Inv'
<1> SUFFICES ASSUME Inv, [Next]_vars PROVE Inv'
  OBVIOUS
<1>0. HighWater \in Nat /\ HighWater > 0 /\ ResBuffer \in Nat
  BY UpstreamAssumption
<1> USE <1>0 DEF Inv, Typed, Numbers, Counted, Pressure, History, Endings, NoFlowAfterClose,
               downstream, upstream
<1>1. CASE Respond
  <2>1. Typed'
    BY <1>1 DEF Respond, Reject
  <2>7. Numbers'
    BY <1>1 DEF Respond, Reject
  <2>2. Counted'
    BY <1>1 DEF Respond, Reject
  <2>3. Pressure'
    BY <1>1 DEF Respond, Reject
  <2>4. History'
    BY <1>1 DEF Respond, Reject
  <2>5. Endings'
    BY <1>1 DEF Respond, Reject
  <2>6. NoFlowAfterClose'
    BY <1>1 DEF Respond, Reject
  <2> QED
    BY <2>1, <2>2, <2>3, <2>4, <2>5, <2>6, <2>7
<1>2. CASE Receive
  <2>1. Typed'
    BY <1>2 DEF Receive, Quiet, CanEmit, CanEnd
  <2>7. Numbers'
    BY <1>2 DEF Receive, Quiet, CanEmit, CanEnd
  <2>2. Counted'
    BY <1>2 DEF Receive, Quiet, CanEmit, CanEnd
  <2>3. Pressure'
    BY <1>2 DEF Receive, Quiet, CanEmit, CanEnd
  <2>4. History'
    BY <1>2 DEF Receive, Quiet, CanEmit, CanEnd
  <2>5. Endings'
    BY <1>2 DEF Receive, Quiet, CanEmit, CanEnd
  <2>6. NoFlowAfterClose'
    BY <1>2 DEF Receive, Quiet, CanEmit, CanEnd
  <2> QED
    BY <2>1, <2>2, <2>3, <2>4, <2>5, <2>6, <2>7
<1>3. CASE KeepData
  <2>1. Typed'
    BY <1>3 DEF KeepData, CanEmit
  <2>7. Numbers'
    BY <1>3 DEF KeepData, CanEmit
  <2>2. Counted'
    BY <1>3 DEF KeepData, CanEmit
  <2>3. Pressure'
    BY <1>3 DEF KeepData, CanEmit
  <2>4. History'
    BY <1>3 DEF KeepData, CanEmit
  <2>5. Endings'
    BY <1>3 DEF KeepData, CanEmit
  <2>6. NoFlowAfterClose'
    BY <1>3 DEF KeepData, CanEmit
  <2> QED
    BY <2>1, <2>2, <2>3, <2>4, <2>5, <2>6, <2>7
<1>4. CASE WriteData
  <2>1. Typed'
    BY <1>4 DEF WriteData, CanEmit
  <2>7. Numbers'
    BY <1>4 DEF WriteData, CanEmit
  <2>2. Counted'
    BY <1>4 DEF WriteData, CanEmit
  <2>3. Pressure'
    BY <1>4 DEF WriteData, CanEmit
  <2>4. History'
    BY <1>4 DEF WriteData, CanEmit
  <2>5. Endings'
    BY <1>4 DEF WriteData, CanEmit
  <2>6. NoFlowAfterClose'
    BY <1>4 DEF WriteData, CanEmit
  <2> QED
    BY <2>1, <2>2, <2>3, <2>4, <2>5, <2>6, <2>7
<1>5. CASE ClientReads
  <2>1. Typed'
    BY <1>5 DEF ClientReads, Quiet, CanEmit, CanEnd
  <2>7. Numbers'
    BY <1>5 DEF ClientReads, Quiet, CanEmit, CanEnd
  <2>2. Counted'
    BY <1>5 DEF ClientReads, Quiet, CanEmit, CanEnd
  <2>3. Pressure'
    BY <1>5 DEF ClientReads, Quiet, CanEmit, CanEnd
  <2>4. History'
    BY <1>5 DEF ClientReads, Quiet, CanEmit, CanEnd
  <2>5. Endings'
    BY <1>5 DEF ClientReads, Quiet, CanEmit, CanEnd
  <2>6. NoFlowAfterClose'
    BY <1>5 DEF ClientReads, Quiet, CanEmit, CanEnd
  <2> QED
    BY <2>1, <2>2, <2>3, <2>4, <2>5, <2>6, <2>7
<1>6. CASE End
  <2>1. Typed'
    BY <1>6 DEF End, CanEnd
  <2>7. Numbers'
    BY <1>6 DEF End, CanEnd
  <2>2. Counted'
    BY <1>6 DEF End, CanEnd
  <2>3. Pressure'
    BY <1>6 DEF End, CanEnd
  <2>4. History'
    BY <1>6 DEF End, CanEnd
  <2>5. Endings'
    BY <1>6 DEF End, CanEnd
  <2>6. NoFlowAfterClose'
    BY <1>6 DEF End, CanEnd
  <2> QED
    BY <2>1, <2>2, <2>3, <2>4, <2>5, <2>6, <2>7
<1>7. CASE ClientLeaves
  <2>1. Typed'
    BY <1>7 DEF ClientLeaves, Dump, Quiet, CanEmit, CanEnd
  <2>7. Numbers'
    BY <1>7 DEF ClientLeaves, Dump, Quiet, CanEmit, CanEnd
  <2>2. Counted'
    BY <1>7 DEF ClientLeaves, Dump, Quiet, CanEmit, CanEnd
  <2>3. Pressure'
    BY <1>7 DEF ClientLeaves, Dump, Quiet, CanEmit, CanEnd
  <2>4. History'
    BY <1>7 DEF ClientLeaves, Dump, Quiet, CanEmit, CanEnd
  <2>5. Endings'
    BY <1>7 DEF ClientLeaves, Dump, Quiet, CanEmit, CanEnd
  <2>6. NoFlowAfterClose'
    <3>1. ~(complete /\ res = "flowing" /\ ~dumped)
      <4>1. written < received \/ written = received
        OBVIOUS
      <4> QED
        BY <4>1, <1>7 DEF ClientLeaves, Quiet, CanEmit, CanEnd
    <3>2. UNCHANGED mode
      BY <1>7 DEF ClientLeaves
    <3>3. CASE mode = "stream" /\ ~(ended /\ buffered = 0) /\ res # "ended" /\ req # "closed"
      BY <3>2, <3>3, <1>7 DEF ClientLeaves, Dump
    <3>4. CASE ~(mode = "stream" /\ ~(ended /\ buffered = 0) /\ res # "ended" /\ req # "closed")
      <4>1. UNCHANGED <<res, dumped>>
        BY <3>4, <1>7 DEF ClientLeaves
      <4> QED
        BY <3>1, <3>2, <3>4, <4>1
    <3> QED
      BY <3>3, <3>4
  <2> QED
    BY <2>1, <2>2, <2>3, <2>4, <2>5, <2>6, <2>7
<1>8. CASE Timeout
  <2>1. Typed'
    BY <1>8 DEF Timeout, Dump, Quiet, CanEmit, CanEnd
  <2>7. Numbers'
    BY <1>8 DEF Timeout, Dump, Quiet, CanEmit, CanEnd
  <2>2. Counted'
    BY <1>8 DEF Timeout, Dump, Quiet, CanEmit, CanEnd
  <2>3. Pressure'
    BY <1>8 DEF Timeout, Dump, Quiet, CanEmit, CanEnd
  <2>4. History'
    BY <1>8 DEF Timeout, Dump, Quiet, CanEmit, CanEnd
  <2>5. Endings'
    BY <1>8 DEF Timeout, Dump, Quiet, CanEmit, CanEnd
  <2>6. NoFlowAfterClose'
    BY <1>8 DEF Timeout, Dump, Quiet, CanEmit, CanEnd
  <2> QED
    BY <2>1, <2>2, <2>3, <2>4, <2>5, <2>6, <2>7
<1>9. CASE OriginCloses
  <2>1. Typed'
    BY <1>9 DEF OriginCloses
  <2>7. Numbers'
    BY <1>9 DEF OriginCloses
  <2>2. Counted'
    BY <1>9 DEF OriginCloses
  <2>3. Pressure'
    BY <1>9 DEF OriginCloses
  <2>4. History'
    BY <1>9 DEF OriginCloses
  <2>5. Endings'
    BY <1>9 DEF OriginCloses
  <2>6. NoFlowAfterClose'
    BY <1>9 DEF OriginCloses
  <2> QED
    BY <2>1, <2>2, <2>3, <2>4, <2>5, <2>6, <2>7
<1>10. CASE ReqError
  <2>1. Typed'
    BY <1>10 DEF ReqError, Reject
  <2>7. Numbers'
    BY <1>10 DEF ReqError, Reject
  <2>2. Counted'
    BY <1>10 DEF ReqError, Reject
  <2>3. Pressure'
    BY <1>10 DEF ReqError, Reject
  <2>4. History'
    BY <1>10 DEF ReqError, Reject
  <2>5. Endings'
    BY <1>10 DEF ReqError, Reject
  <2>6. NoFlowAfterClose'
    BY <1>10 DEF ReqError, Reject
  <2> QED
    BY <2>1, <2>2, <2>3, <2>4, <2>5, <2>6, <2>7
<1>11. CASE SocketCloses
  <2>1. Typed'
    BY <1>11 DEF SocketCloses, Reject
  <2>7. Numbers'
    BY <1>11 DEF SocketCloses, Reject
  <2>2. Counted'
    BY <1>11 DEF SocketCloses, Reject
  <2>3. Pressure'
    BY <1>11 DEF SocketCloses, Reject
  <2>4. History'
    BY <1>11 DEF SocketCloses, Reject
  <2>5. Endings'
    BY <1>11 DEF SocketCloses, Reject
  <2>6. NoFlowAfterClose'
    BY <1>11 DEF SocketCloses, Reject
  <2> QED
    BY <2>1, <2>2, <2>3, <2>4, <2>5, <2>6, <2>7
<1>12. CASE UNCHANGED vars
  BY <1>12 DEF vars
<1> QED
  BY <1>1, <1>2, <1>3, <1>4, <1>5, <1>6, <1>7, <1>8, <1>9, <1>10, <1>11, <1>12
  DEF Next, ProxySteps

(* The invariant holds in every state. *)
LEMMA InvCorrect == Spec => []Inv
  BY InitInv, StepInv, PTL DEF Spec

(* upstreamClient.js:52-57: a paused response has its drain to come and one
   listener for it. *)
THEOREM PausedCorrect == Spec => []PausedWillDrain
<1>1. Inv => PausedWillDrain
  BY DEF Inv, Pressure, PausedWillDrain
<1> QED
  BY <1>1, InvCorrect, PTL

(* upstreamClient.js:51-57: a stream holds at most the two buffers. *)
THEOREM BoundedCorrect == Spec => []StreamBounded
<1>1. Inv => StreamBounded
  BY UpstreamAssumption DEF Inv, Numbers, Counted, Pressure, StreamBounded
<1> QED
  BY <1>1, InvCorrect, PTL

(* upstreamClient.js:60, 69-71: a response ended as the origin's is whole, or
   its client had stalled. *)
THEOREM WholeCorrect == Spec => []EndedWhole
<1>1. Inv => EndedWhole
  BY DEF Inv, Typed, History, Endings, EndedWhole
<1> QED
  BY <1>1, InvCorrect, PTL

(* upstreamClient.js:38-41, 77-81: no chunk is written to a client that left. *)
THEOREM NoWriteCorrect == Spec => NoWriteAfterClose
<1>1. Inv /\ [Next]_vars => [mode = "stream" /\ written' # written => client = "connected"]_vars
  <2> SUFFICES ASSUME Inv, Next, mode = "stream", written' # written
               PROVE  client = "connected"
    OBVIOUS
  <2>1. WriteData
    BY DEF Next, ProxySteps, Respond, Receive, KeepData, ClientReads, End, ClientLeaves,
        Timeout, OriginCloses, ReqError, SocketCloses
  <2> QED
    BY <2>1 DEF WriteData, CanEmit, Inv, Typed, NoFlowAfterClose
<1> QED
  BY <1>1, InvCorrect, PTL DEF Spec, NoWriteAfterClose
=============================================================================
