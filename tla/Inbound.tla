------------------------------ MODULE Inbound ------------------------------
(***************************************************************************)
(* The read path of iocp_server.cpp and the bytes it holds: HandleRead,    *)
(* ProcessIncoming, ProcessDetection, ProcessRaw, ProcessWebSocket and     *)
(* UpdateInboundAccounting.                                                *)
(*                                                                         *)
(* A session has one read operation, so one worker at a time runs its read *)
(* path (thread "reader"); another thread (timer, writer, Stop) may        *)
(* Disconnect it meanwhile (thread "other").  inbound_accounted is a plain *)
(* field both write: comparing it, adding to the counter and storing it    *)
(* are separate steps, and the second read of it may give either value.    *)
(***************************************************************************)
EXTENDS Naturals, FiniteSets

CONSTANTS
    Sessions,
    MaxSession,     \* max_session_inbound_bytes
    MaxGlobal,      \* max_global_inbound_bytes
    Chunks,         \* the sizes a read may have
    Width           \* inbound_bytes counts modulo this (2^64 in the code)

\* A read that completes with no bytes ends the session, and the buffers of all
\* sessions together stay below the width of the counter.
ASSUME InboundAssumption ==
    /\ IsFiniteSet(Sessions)
    /\ MaxSession \in Nat /\ MaxGlobal \in Nat /\ Width \in Nat
    /\ Chunks \subseteq Nat \ {0}
    /\ Cardinality(Sessions) * MaxSession < Width

VARIABLES
    transport,              \* Detecting, RawTcp or WebSocket
    closing,                \* the state is Closing
    disconnect_started,
    buffered,               \* detection_buffer.size(), later BufferedBytes()
    pending,                \* bytes on their way from detection to a decoder
    inbound_accounted,
    inbound_bytes,          \* the metric, over all sessions
    step, call,               \* per session and thread
    overlapped,             \* sessions two threads updated at once (history)
    miscounted              \* sessions the global limit ended below it (history)

sessionVars == <<transport, closing, disconnect_started>>
byteVars == <<buffered, pending>>
accountVars == <<inbound_accounted, inbound_bytes, overlapped, miscounted>>
inboundVars == <<sessionVars, byteVars, accountVars, step, call>>

Roles == {"reader", "other"}
CallOf(bytes, then) == [bytes |-> bytes, seen |-> 0, over |-> FALSE, then |-> then]
NoCall == CallOf(0, "idle")

InboundInit ==
    /\ transport = [s \in Sessions |-> "Detecting"]
    /\ closing = [s \in Sessions |-> FALSE]
    /\ disconnect_started = [s \in Sessions |-> FALSE]
    /\ buffered = [s \in Sessions |-> 0]
    /\ pending = [s \in Sessions |-> 0]
    /\ inbound_accounted = [s \in Sessions |-> 0]
    /\ inbound_bytes = 0
    /\ step = [s \in Sessions |-> [t \in Roles |-> "idle"]]
    /\ call = [s \in Sessions |-> [t \in Roles |-> NoCall]]
    /\ overlapped = {}
    /\ miscounted = {}

AtRest(s) == \A t \in Roles : step[s][t] \in {"idle", "done"}

\* The sum of f[s] over the sessions of S, each at most MaxSession.
Total(f, S) == Cardinality({p \in S \X (1 .. MaxSession) : p[2] <= f[p[1]]})

Connected == {s \in Sessions : ~disconnect_started[s]}

-----------------------------------------------------------------------------
Goto(s, t, label) ==
    step' = [step EXCEPT ![s][t] = label] /\ UNCHANGED call

\* Call UpdateInboundAccounting(bytes), and go on at then.
Update(s, t, bytes, then) ==
    /\ step' = [step EXCEPT ![s][t] = "compare"]
    /\ call' = [call EXCEPT ![s][t] = CallOf(bytes, then)]

\* Call Disconnect, and go on at then.
CallDisconnect(s, t, then) ==
    /\ step' = [step EXCEPT ![s][t] = "disconnect"]
    /\ call' = [call EXCEPT ![s][t] = CallOf(0, then)]

\* Either call returns.
Return(s, t) ==
    /\ step' = [step EXCEPT ![s][t] = call[s][t].then]
    /\ call' = [call EXCEPT ![s][t] = NoCall]

\* UpdateInboundAccounting: which branch, if any.
Compare(s, t) ==
    /\ step[s][t] = "compare"
    /\ LET seen == inbound_accounted[s]
       IN  \/ seen = call[s][t].bytes /\ Return(s, t) /\ UNCHANGED overlapped
          \/ /\ seen # call[s][t].bytes
             /\ step' = [step EXCEPT ![s][t] = "count"]
             /\ call' = [call EXCEPT ![s][t].seen = seen]
             /\ overlapped' = IF \E u \in Roles : step[s][u] \in {"count", "store"}
                              THEN overlapped \cup {s} ELSE overlapped
    /\ UNCHANGED <<sessionVars, byteVars, inbound_accounted, inbound_bytes,
                   miscounted>>

\* fetch_add or fetch_sub of the difference to inbound_accounted, read again.
Count(s, t) ==
    /\ step[s][t] = "count"
    /\ \E old \in {call[s][t].seen, inbound_accounted[s]} :
           inbound_bytes' = (inbound_bytes + call[s][t].bytes + Width - old) % Width
    /\ call' = [call EXCEPT ![s][t].over =
                   call[s][t].bytes > call[s][t].seen /\ inbound_bytes' > MaxGlobal]
    /\ step' = [step EXCEPT ![s][t] = "store"]
    /\ miscounted' =
           IF /\ call'[s][t].over /\ ~disconnect_started[s]
              /\ \A u \in Sessions \ {s} : AtRest(u)
              /\ call[s][t].bytes + Total(inbound_accounted, Connected \ {s}) <= MaxGlobal
           THEN miscounted \cup {s} ELSE miscounted
    /\ UNCHANGED <<sessionVars, byteVars, inbound_accounted, overlapped>>

\* Mutant: the session's own count is not brought up to date.
MutantStoreForgotten(s, t) ==
    /\ step[s][t] = "store"
    /\ IF call[s][t].over THEN CallDisconnect(s, t, call[s][t].then) ELSE Return(s, t)
    /\ UNCHANGED <<sessionVars, byteVars, accountVars>>

\* inbound_accounted = bytes; a total over the limit disconnects the session.
Store(s, t) ==
    /\ step[s][t] = "store"
    /\ inbound_accounted' = [inbound_accounted EXCEPT ![s] = call[s][t].bytes]
    /\ IF call[s][t].over THEN CallDisconnect(s, t, call[s][t].then) ELSE Return(s, t)
    /\ UNCHANGED <<sessionVars, byteVars, inbound_bytes, overlapped, miscounted>>

\* Disconnect, as far as the read path goes: the first caller gives the
\* session's bytes back, any other returns.
Disconnect(s, t) ==
    /\ step[s][t] = "disconnect"
    /\ IF disconnect_started[s]
       THEN Return(s, t) /\ UNCHANGED disconnect_started
       ELSE /\ disconnect_started' = [disconnect_started EXCEPT ![s] = TRUE]
            /\ Update(s, t, 0, call[s][t].then)
    /\ UNCHANGED <<transport, closing, byteVars, accountVars>>

\* Another thread disconnects the session.
OtherDisconnect(s) ==
    /\ step[s]["other"] = "idle"
    /\ CallDisconnect(s, "other", "done")
    /\ UNCHANGED <<sessionVars, byteVars, accountVars>>

\* Another thread closes a WebSocket session.
OtherCloses(s) ==
    /\ transport[s] = "WebSocket" /\ ~closing[s] /\ ~disconnect_started[s]
    /\ closing' = [closing EXCEPT ![s] = TRUE]
    /\ UNCHANGED <<transport, disconnect_started, byteVars, accountVars, step, call>>

-----------------------------------------------------------------------------
At(s, label) == step[s]["reader"] = label

\* Close(handle): a WebSocket session turns Closing, and is disconnected only if
\* its Close frame is refused; any other session is disconnected.
Close(s) ==
    /\ closing' = [closing EXCEPT ![s] = transport[s] = "WebSocket"]
    /\ \/ transport[s] = "WebSocket" /\ Goto(s, "reader", "end")
       \/ CallDisconnect(s, "reader", "end")

\* HandleRead of n bytes.  A Closing session drops them; a buffer they do not
\* fit in ends the session; otherwise they are buffered and counted.
HandleRead(s, n) ==
    /\ At(s, "idle") /\ ~disconnect_started[s]
    /\ \/ closing[s] /\ UNCHANGED <<closing, buffered, step, call>>
       \/ /\ ~closing[s] /\ buffered[s] + n > MaxSession
          /\ Close(s) /\ UNCHANGED buffered
       \/ /\ ~closing[s] /\ buffered[s] + n <= MaxSession
          /\ buffered' = [buffered EXCEPT ![s] = @ + n]
          /\ Update(s, "reader", buffered[s] + n,
                    IF transport[s] = "Detecting" THEN "detect" ELSE "loop")
          /\ UNCHANGED closing
    /\ UNCHANGED <<transport, disconnect_started, pending, accountVars>>

\* A read that failed, had no bytes, or completes after Disconnect began.
ReadEnds(s) ==
    /\ At(s, "idle")
    /\ CallDisconnect(s, "reader", "done")
    /\ UNCHANGED <<sessionVars, byteVars, accountVars>>

\* ProcessDetection, once the bytes are buffered: a transport is chosen and
\* the rest handed to its decoder, or there is nothing to do but wait (for
\* more bytes, or for the rejection to be written).
Detect(s, chosen, rest) ==
    /\ At(s, "detect")
    /\ transport' = [transport EXCEPT ![s] = chosen]
    /\ pending' = [pending EXCEPT ![s] = rest]
    /\ buffered' = [buffered EXCEPT ![s] = 0]
    /\ Update(s, "reader", 0, IF rest = 0 THEN "end" ELSE "append")
    /\ UNCHANGED <<closing, disconnect_started, accountVars>>

DetectRaw(s) == Detect(s, "RawTcp", buffered[s])
DetectWebSocket(s) == \E rest \in 0 .. buffered[s] - 1 : Detect(s, "WebSocket", rest)

DetectWaits(s) ==
    /\ At(s, "detect")
    /\ Goto(s, "reader", "end") \/ CallDisconnect(s, "reader", "end")
    /\ UNCHANGED <<sessionVars, byteVars, accountVars>>

\* ProcessRaw or ProcessWebSocket on what detection left; the latter drops it if
\* the session is Closing already, and not if Disconnect has made it Closed.
AppendPending(s) ==
    /\ At(s, "append")
    /\ pending' = [pending EXCEPT ![s] = 0]
    /\ \/ closing[s] /\ Goto(s, "reader", "end") /\ UNCHANGED buffered
       \/ /\ ~closing[s] \/ disconnect_started[s]
          /\ buffered' = [buffered EXCEPT ![s] = pending[s]]
          /\ Update(s, "reader", pending[s], "loop")
    /\ UNCHANGED <<sessionVars, accountVars>>

\* One turn of the decoding loop that takes k bytes out of the buffer: an event
\* is handled and the loop goes on, or it ends the session.
Decode(s, k) ==
    /\ At(s, "loop") /\ ~disconnect_started[s] /\ ~closing[s]
    /\ buffered' = [buffered EXCEPT ![s] = @ - k]
    /\ \/ k > 0 /\ UNCHANGED <<closing, step, call>>
       \/ Close(s)
    /\ UNCHANGED <<transport, disconnect_started, pending, accountVars>>

\* The loop is over (no whole frame, Disconnect began, or the session is
\* Closing): the trailing update.
LoopEnds(s) ==
    /\ At(s, "loop")
    /\ Update(s, "reader", buffered[s], "end")
    /\ UNCHANGED <<sessionVars, byteVars, accountVars>>

\* HandleRead posts the next read, or ends the session.
PostRead(s) ==
    /\ At(s, "end")
    /\ \/ ~disconnect_started[s] /\ Goto(s, "reader", "idle")
       \/ CallDisconnect(s, "reader", "done")
    /\ UNCHANGED <<sessionVars, byteVars, accountVars>>

InboundNext ==
    \E s \in Sessions :
        \/ \E t \in Roles :
               Compare(s, t) \/ Count(s, t) \/ Store(s, t) \/ Disconnect(s, t)
        \/ OtherDisconnect(s) \/ OtherCloses(s)
        \/ \E n \in Chunks : HandleRead(s, n)
        \/ ReadEnds(s)
        \/ DetectRaw(s) \/ DetectWebSocket(s) \/ DetectWaits(s)
        \/ AppendPending(s)
        \/ \E k \in 0 .. buffered[s] : Decode(s, k)
        \/ LoopEnds(s) \/ PostRead(s)

InboundSpec == InboundInit /\ [][InboundNext]_inboundVars

-----------------------------------------------------------------------------
Labels == {"idle", "detect", "append", "loop", "end", "done",
           "compare", "count", "store", "disconnect"}
Calls == [bytes : 0 .. MaxSession, seen : 0 .. MaxSession, over : BOOLEAN, then : Labels]

\* The values every variable may have.
InboundTypeOK ==
    /\ transport \in [Sessions -> {"Detecting", "RawTcp", "WebSocket"}]
    /\ closing \in [Sessions -> BOOLEAN]
    /\ disconnect_started \in [Sessions -> BOOLEAN]
    /\ buffered \in [Sessions -> 0 .. MaxSession]
    /\ pending \in [Sessions -> 0 .. MaxSession]
    /\ inbound_accounted \in [Sessions -> 0 .. MaxSession]
    /\ inbound_bytes \in 0 .. Width - 1
    /\ step \in [Sessions -> [Roles -> Labels]]
    /\ call \in [Sessions -> [Roles -> Calls]]
    /\ overlapped \in SUBSET Sessions /\ miscounted \in SUBSET Sessions

\* The counter is the sum of what the sessions have accounted, whenever no
\* update is in progress, as long as no session was updated by two threads at
\* once: the unsynchronised inbound_accounted is the only way they come apart.
CounterIsSum ==
    (overlapped = {} /\ \A s \in Sessions : AtRest(s))
        => inbound_bytes = Total(inbound_accounted, Sessions)

\* Between two reads a session has accounted exactly the bytes it buffers; one
\* that is Closing at least those; and one that is gone either nothing or what
\* its decoder was left with, never something in between.
SettledAccount ==
    \A s \in Sessions \ overlapped :
        AtRest(s) =>
            /\ disconnect_started[s] => inbound_accounted[s] \in {0, buffered[s]}
            /\ ~disconnect_started[s] => inbound_accounted[s] >= buffered[s]
            /\ ~disconnect_started[s] /\ ~closing[s] => inbound_accounted[s] = buffered[s]

\* The metric inbound_bytes is the sum of what the sessions have accounted, unless
\* two threads updated one session at once; and between two reads
\* UpdateInboundAccounting has accounted what a session buffers.
InboundExact == InboundTypeOK /\ CounterIsSum /\ SettledAccount

\* The limit on the bytes of all sessions (max_global_inbound_bytes) ends one, at a
\* moment when every other is at rest, only if those still connected account for
\* more bytes than it allows; or else a session that is gone left its bytes in the
\* counter, which nothing takes back, or two threads updated one session at once.
LimitDeserved ==
    miscounted # {} =>
        \/ overlapped # {}
        \/ \E s \in Sessions : disconnect_started[s] /\ inbound_accounted[s] > 0
=============================================================================
