--------------------------- MODULE UpstreamClient ---------------------------
(***************************************************************************)
(* One exchange of src/upstreamClient.js between an origin and a client:   *)
(* forwardRequestStream writes each chunk through to the client, under     *)
(* backpressure; fetchUpstreamResponse keeps all chunks until the end.     *)
(* Around them the catch of src/proxyHandler.js and, from how the code     *)
(* uses them, Node's streams: a response buffers a little while paused, a  *)
(* writable emits drain after a write returned false, a request that is    *)
(* destroyed discards what its response has not emitted and emits its      *)
(* error, then the close of its socket.  Data is counted in chunks.        *)
(***************************************************************************)
EXTENDS Integers

CONSTANTS
    MaxChunks,      \* bound: chunks of a body
    HighWater,      \* chunks in the client's buffer at which write returns false
    ResBuffer,      \* chunks a paused upstream response holds
    MaxItem         \* MAX_ITEM_BYTES in chunks

ASSUME UpstreamAssumption ==
    MaxChunks \in Nat /\ HighWater \in Nat \ {0} /\ ResBuffer \in Nat \ {0} /\ MaxItem \in Nat

VARIABLES
    mode,       \* "stream" or "fetch"
    total,      \* chunks of the origin's body
    client,     \* "connected" or "gone": clientRes is destroyed
    answer,     \* headers sent: "none", "origin" or "error"
    ended,      \* clientRes.end was called
    buffered,   \* chunks written to clientRes that the client has not taken
    needDrain,  \* a write returned false and drain was not emitted
    listeners,  \* drain listeners on clientRes
    req,        \* upstreamReq: "open", "destroyed" or "closed"
    failing,    \* an error event of upstreamReq is to come
    res,        \* upstreamRes: "none", "flowing", "paused", "ended" or "failed"
    received,   \* chunks that have arrived
    complete,   \* the end of the body has arrived
    written,    \* chunks emitted: written to clientRes, or kept by fetch
    dumped,     \* upstreamRes has lost its data listeners
    promise,    \* "pending", "resolved" or "rejected"
    stalled     \* history: timed out while the client did not read

downstream == <<client, answer, ended, buffered, needDrain, listeners>>
upstream == <<req, failing, res, received, complete, written, dumped>>
vars == <<mode, total, downstream, upstream, promise, stalled>>

Init ==
    /\ mode \in {"stream", "fetch"}
    /\ total \in 0..MaxChunks
    /\ client \in {"connected", "gone"}
    /\ answer = "none" /\ ended = FALSE
    /\ buffered = 0 /\ needDrain = FALSE /\ listeners = 0
    /\ req = "open" /\ failing = FALSE /\ res = "none"
    /\ received = 0 /\ complete = FALSE /\ written = 0 /\ dumped = FALSE
    /\ promise = "pending" /\ stalled = FALSE

(* The promise is rejected, if it is pending, and the handler's catch answers
   502 or 504, unless the origin's headers were sent. *)
Reject ==
    /\ promise' = IF promise = "pending" THEN "rejected" ELSE promise
    /\ IF promise = "pending" /\ answer = "none"
       THEN answer' = "error" /\ ended' = TRUE
       ELSE UNCHANGED <<answer, ended>>

(* What destroying upstreamReq does to its response: it loses its data
   listeners and runs to its end. *)
Dump ==
    /\ dumped' = (dumped \/ res # "none")
    /\ res' = IF res = "paused" THEN "flowing" ELSE res

(* The head of the response arrives.  A client that left before the exchange
   began is only noticed here. *)
Respond ==
    /\ req = "open" /\ res = "none"
    /\ IF mode = "stream" /\ client = "gone"
       THEN /\ req' = "destroyed" /\ res' = "flowing" /\ dumped' = TRUE
            /\ Reject
       ELSE /\ res' = "flowing"
            /\ answer' = IF mode = "stream" THEN "origin" ELSE answer
            /\ UNCHANGED <<req, dumped, ended, promise>>
    /\ UNCHANGED <<mode, total, client, buffered, needDrain, listeners, failing,
                   received, complete, written, stalled>>

CanEmit == res = "flowing" /\ ~dumped /\ written < received
CanEnd == res = "flowing" /\ complete /\ (written = received \/ dumped)

(* A flowing response emits what it holds, and its end, before Node turns to
   the next event of a socket or a timer. *)
Quiet == ~CanEmit /\ ~CanEnd

(* Part of the body arrives, as long as the response has room for it. *)
Receive ==
    /\ Quiet /\ req = "open" /\ res \in {"flowing", "paused"}
    /\ \/ received < total /\ received - written < ResBuffer
          /\ received' = received + 1 /\ UNCHANGED complete
       \/ received = total /\ ~complete
          /\ complete' = TRUE /\ UNCHANGED received
    /\ UNCHANGED <<mode, total, downstream, req, failing, res, written, dumped,
                   promise, stalled>>

(* fetch keeps the chunk. *)
KeepData ==
    /\ mode = "fetch" /\ CanEmit
    /\ written' = written + 1
    /\ UNCHANGED <<mode, total, downstream, req, failing, res, received, complete,
                   dumped, promise, stalled>>

(* Fault: the response is not paused. *)
WriteDataOn ==
    /\ mode = "stream" /\ CanEmit
    /\ written' = written + 1 /\ buffered' = buffered + 1
    /\ IF buffered' >= HighWater
       THEN needDrain' = TRUE /\ listeners' = listeners + 1
       ELSE UNCHANGED <<needDrain, listeners>>
    /\ UNCHANGED <<mode, total, client, answer, ended, req, failing, res, received,
                   complete, dumped, promise, stalled>>

(* forwardRequestStream writes the chunk, and pauses if write returned false. *)
WriteData ==
    /\ mode = "stream" /\ CanEmit
    /\ written' = written + 1 /\ buffered' = buffered + 1
    /\ IF buffered' >= HighWater
       THEN needDrain' = TRUE /\ res' = "paused" /\ listeners' = listeners + 1
       ELSE UNCHANGED <<needDrain, res, listeners>>
    /\ UNCHANGED <<mode, total, client, answer, ended, req, failing, received,
                   complete, dumped, promise, stalled>>

(* Fault: what had not arrived when drain came is not asked for again. *)
ClientReadsNoResume ==
    /\ Quiet /\ client = "connected" /\ buffered > 0
    /\ buffered' = buffered - 1
    /\ IF buffered = 1 THEN needDrain' = FALSE /\ listeners' = 0
                       ELSE UNCHANGED <<needDrain, listeners>>
    /\ UNCHANGED <<mode, total, client, answer, ended, upstream, promise, stalled>>

(* The client takes a chunk.  With the last one comes drain, if it is due. *)
ClientReads ==
    /\ Quiet /\ client = "connected" /\ buffered > 0
    /\ buffered' = buffered - 1
    /\ IF buffered = 1 /\ needDrain
       THEN /\ needDrain' = FALSE /\ listeners' = 0
            /\ res' = IF res = "paused" /\ listeners > 0 THEN "flowing" ELSE res
       ELSE UNCHANGED <<needDrain, listeners, res>>
    /\ UNCHANGED <<mode, total, client, answer, ended, req, failing, received,
                   complete, written, dumped, promise, stalled>>

(* The response ends, or what is left of it after it was dumped. *)
End ==
    /\ CanEnd
    /\ res' = "ended" /\ ended' = TRUE
    /\ answer' = IF answer = "none" THEN "origin" ELSE answer
    /\ promise' = IF promise = "pending" THEN "resolved" ELSE promise
    /\ UNCHANGED <<mode, total, client, buffered, needDrain, listeners, req, failing,
                   received, complete, written, dumped, stalled>>

(* Fault: nobody listens for the close of clientRes. *)
ClientLeavesUnseen ==
    /\ Quiet /\ client = "connected"
    /\ client' = "gone"
    /\ UNCHANGED <<mode, total, answer, ended, buffered, needDrain, listeners,
                   upstream, promise, stalled>>

(* The client disconnects.  Only a stream that is not over sees to it: it
   destroys its request, unless the socket has closed by itself. *)
ClientLeaves ==
    /\ Quiet /\ client = "connected"
    /\ client' = "gone"
    /\ IF mode = "stream" /\ ~(ended /\ buffered = 0) /\ res # "ended" /\ req # "closed"
       THEN req' = "destroyed" /\ Dump
       ELSE UNCHANGED <<req, res, dumped>>
    /\ UNCHANGED <<mode, total, answer, ended, buffered, needDrain, listeners, failing,
                   received, complete, written, promise, stalled>>

(* Fault: the event is not handled; Node itself does nothing. *)
TimeoutUnhandled == FALSE /\ UNCHANGED vars

(* UPSTREAM_TIMEOUT_MS without traffic on the socket: the origin is silent, or
   the response is paused and nobody reads. *)
Timeout ==
    /\ Quiet /\ req = "open" /\ res \in {"none", "flowing", "paused"}
    /\ req' = "destroyed" /\ failing' = TRUE /\ Dump
    /\ stalled' = (res = "paused")
    /\ UNCHANGED <<mode, total, downstream, received, complete, written, promise>>

(* The origin ends the connection, with an error or without. *)
OriginCloses ==
    /\ Quiet /\ req = "open" /\ res # "ended"
    /\ req' = "destroyed" /\ failing' \in BOOLEAN
    /\ UNCHANGED <<mode, total, downstream, res, received, complete, written, dumped,
                   promise, stalled>>

(* upstreamReq's error event. *)
ReqError ==
    /\ req = "destroyed" /\ failing
    /\ failing' = FALSE /\ Reject
    /\ UNCHANGED <<mode, total, client, buffered, needDrain, listeners, req, res,
                   received, complete, written, dumped, stalled>>

(* Fault: the response's error ends the client's response as if it were whole. *)
SocketClosesQuietly ==
    /\ req = "destroyed" /\ ~failing
    /\ req' = "closed"
    /\ IF res = "none"
       THEN Reject /\ UNCHANGED res
       ELSE IF ~complete
       THEN /\ res' = "failed" /\ ended' = TRUE
            /\ promise' = "rejected" /\ UNCHANGED answer
       ELSE UNCHANGED <<res, answer, ended, promise>>
    /\ UNCHANGED <<mode, total, client, buffered, needDrain, listeners, failing,
                   received, complete, written, dumped, stalled>>

(* The socket is closed.  Without a response that is an error of the request;
   an unfinished response fails, and forwardRequestStream then breaks off its
   client; a complete one is still read to its end. *)
SocketCloses ==
    /\ req = "destroyed" /\ ~failing
    /\ req' = "closed"
    /\ \/ /\ res = "none"
          /\ Reject
          /\ UNCHANGED <<res, client>>
       \/ /\ res # "none" /\ ~complete
          /\ res' = "failed"
          /\ client' = IF mode = "stream" THEN "gone" ELSE client
          /\ Reject
       \/ /\ complete
          /\ UNCHANGED <<res, client, answer, ended, promise>>
    /\ UNCHANGED <<mode, total, buffered, needDrain, listeners, failing, received,
                   complete, written, dumped, stalled>>

ProxySteps == KeepData \/ WriteData \/ End \/ Timeout \/ ReqError \/ SocketCloses

Next == ProxySteps \/ Respond \/ Receive \/ ClientReads \/ ClientLeaves \/ OriginCloses

Spec == Init /\ [][Next]_vars

(* Events of the proxy's own process are handled and its timer goes off.
   Neither the origin nor the client has to do anything. *)
FairSpec == Spec /\ WF_vars(ProxySteps)

-----------------------------------------------------------------------------

(* upstreamClient.js:52-57: while the client is there, a paused response waits
   for a drain that will be emitted and that one listener awaits, and drain
   listeners do not pile up. *)
PausedWillDrain ==
    /\ listeners <= 1
    /\ res = "paused" /\ client = "connected" => needDrain /\ listeners = 1 /\ buffered > 0

(* upstreamClient.js:51-57: however slow the client, a stream holds no more
   than the two buffers. *)
StreamBounded ==
    mode = "stream" => received - written + buffered <= ResBuffer + HighWater

(* upstreamClient.js:60, 69-71: a connected client whose response is ended
   normally with the origin's headers has been written the whole body, but for
   one case: it stalled until the upstream socket timed out, and the rest of a
   body that had arrived was discarded. *)
EndedWhole ==
    client = "connected" /\ ended /\ answer = "origin" => written = total \/ stalled

(* upstreamClient.js:38-41, 77-81: nothing is written to a client that has
   left, whether before the exchange, or between two chunks, or in a pause. *)
NoWriteAfterClose ==
    [][mode = "stream" /\ written' # written => client = "connected"]_vars

(* upstreamClient.js:69-89, proxyHandler.js:126: whatever the origin or the
   client fails to do, the upstream socket is released in the end, and the
   client has been answered or broken off, or it has chunks it could take. *)
BothSidesEnd ==
    <>[](/\ res = "ended" \/ req # "open"
         /\ ended \/ client = "gone" \/ buffered > 0)

(* What ARCHITECTURE.md:91 says of the buffering for the cache: chunks are
   collected only while they are within MAX_ITEM_BYTES. *)
BoundedBuffering == mode = "fetch" => written <= MaxItem
=============================================================================
