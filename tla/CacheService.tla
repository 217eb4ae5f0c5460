---------------------------- MODULE CacheService ----------------------------
(***************************************************************************)
(* What the workers' calls to the master's cache promise together.  A call *)
(* takes effect on the one cache in a single step, at most once, and after *)
(* the earlier calls of its worker.  Its answer is that of its own effect, *)
(* so an answered call takes effect between its beginning and its end.  A  *)
(* call may be given up; it then takes effect later, or never if its       *)
(* worker ends.                                                            *)
(***************************************************************************)
EXTENDS Integers, Sequences

CONSTANTS Workers, Calls, WorkerOf, Kind, KeyOf, Keys, Weight, MaxEntries,
          MaxBytes, MaxItemBytes, NoValue

VARIABLES
    entries, ret,   \* the cache
    alive,          \* workers that run
    phase,          \* of each call: idle, open, answered, given up, gone
    line,           \* of each worker: its calls that have no effect yet
    did,            \* what each call returned when it took effect
    answer          \* what its caller was told

vars == <<entries, ret, alive, phase, line, did, answer>>

Store == INSTANCE LRUStore WITH
    Values <- Calls, ItemLimits <- {MaxItemBytes}, PutReplaces <- TRUE

(* A put is acknowledged in the same way whether it was stored or refused. *)
Told(r) == IF r.kind = "put" THEN Store!Result("put", NoValue, TRUE, NoValue) ELSE r

Init ==
    /\ Store!Init
    /\ alive = Workers
    /\ phase = [c \in Calls |-> "idle"]
    /\ line = [w \in Workers |-> <<>>]
    /\ did = [c \in Calls |-> Store!NoResult]
    /\ answer = [c \in Calls |-> Store!NoResult]

Make(c) ==
    /\ WorkerOf[c] \in alive /\ phase[c] = "idle"
    /\ phase' = [phase EXCEPT ![c] = "open"]
    /\ line' = [line EXCEPT ![WorkerOf[c]] = Append(@, c)]
    /\ UNCHANGED <<entries, ret, alive, did, answer>>

Effect(c) == LET k == KeyOf[c] IN
    \/ Kind[c] = "get" /\ (Store!GetHit(k) \/ Store!GetMiss(k))
    \/ Kind[c] = "put" /\ \/ Store!PutRefused(c, MaxItemBytes)
                          \/ Store!PutPresent(k, c, MaxItemBytes)
                          \/ Store!PutAbsent(k, c, MaxItemBytes)
    \/ Kind[c] = "delete" /\ Store!Delete(k)
    \/ Kind[c] = "clear" /\ Store!Clear
    \/ /\ Kind[c] = "stats"
       /\ ret' = Store!Result("stats", NoValue, TRUE, entries)
       /\ UNCHANGED entries

TakeEffect(w) ==
    /\ line[w] # <<>>
    /\ Effect(Head(line[w]))
    /\ line' = [line EXCEPT ![w] = Tail(@)]
    /\ did' = [did EXCEPT ![Head(line[w])] = ret']
    /\ UNCHANGED <<alive, phase, answer>>

Return(c) ==
    /\ phase[c] = "open" /\ did[c] # Store!NoResult
    /\ phase' = [phase EXCEPT ![c] = "answered"]
    /\ answer' = [answer EXCEPT ![c] = Told(did[c])]
    /\ UNCHANGED <<entries, ret, alive, line, did>>

GiveUp(c) ==
    /\ phase[c] = "open"
    /\ phase' = [phase EXCEPT ![c] = "given up"]
    /\ UNCHANGED <<entries, ret, alive, line, did, answer>>

(* A worker ends: its callers are gone and its last calls may be lost. *)
Break(w) ==
    /\ w \in alive
    /\ alive' = alive \ {w}
    /\ phase' = [c \in Calls |-> IF WorkerOf[c] = w /\ phase[c] = "open"
                                 THEN "gone" ELSE phase[c]]
    /\ \E n \in 0..Len(line[w]) : line' = [line EXCEPT ![w] = SubSeq(@, 1, n)]
    /\ UNCHANGED <<entries, ret, did, answer>>

Next ==
    \/ \E c \in Calls : Make(c) \/ Return(c) \/ GiveUp(c)
    \/ \E w \in Workers : TakeEffect(w) \/ Break(w)

Spec == Init /\ [][Next]_vars
=============================================================================
