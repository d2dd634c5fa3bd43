------------------------------ MODULE Session ------------------------------
(***************************************************************************)
(* The life of one session as its threads see it (iocp_server.cpp): the    *)
(* reader takes it from Handshaking to Open and handles control frames,    *)
(* the timer drops it when it is late, the writer drops it when a write    *)
(* fails or a last item is written, and callers of Send and Close act on   *)
(* it from outside.                                                        *)
(*                                                                         *)
(* Every atomic load and store is a step of its own.  Time stamps are kept *)
(* as ages, which stop growing at Old; the timer's now, read once a pass,  *)
(* as the time since then.  The bytes of the read path are in Inbound, the *)
(* queue itself in SendPath: here Enqueue accepts or refuses.              *)
(***************************************************************************)
EXTENDS Integers

CONSTANTS
    HandshakeTimeout, IdleTimeout, PingInterval, PongTimeout, CloseTimeout,
    MaxPass,        \* bound on how long a pass of the timer takes
    Callers         \* threads of the application that call Send and Close

ASSUME SessionAssumption ==
    /\ {HandshakeTimeout, IdleTimeout, PingInterval, PongTimeout, CloseTimeout, MaxPass}
           \subseteq Nat
    /\ Callers \cap {"reader", "timer", "writer"} = {}

VARIABLES
    state, transport, disconnect_started,
    registered,         \* the session is in ShardedSessionRegistry
    awaiting_pong,
    age,                \* of connected_at, last_activity, last_pong, close_started
    pass,               \* time since the timer read now
    pc,
    response,           \* what became of the 101 response (history)
    unheralded,         \* what it was when a frame was accepted without it (history)
    close_queued,       \* a Close frame, the writer's last item, was accepted (history)
    closing_for,        \* time since the state became Closing (history)
    pinged_for,         \* time since the last ping, Never if refused (history)
    unjust              \* timeouts that dropped the session too early (history)

lifeVars == <<state, transport, disconnect_started, registered>>
clockVars == <<age, pass>>
historyVars == <<response, unheralded, close_queued, closing_for, pinged_for, unjust>>
vars == <<lifeVars, awaiting_pong, clockVars, pc, historyVars>>

Later(a, b) == IF a > b THEN a ELSE b
Old == Later(Later(HandshakeTimeout, IdleTimeout),
             Later(Later(PingInterval, PongTimeout), CloseTimeout)) + MaxPass + 1
Never == -1

Threads == {"reader", "timer", "writer"} \cup Callers

\* HandleAccept: Handshaking and in the registry before the first read;
\* close_started_ms is 0, as old as a time stamp can be.
Init ==
    /\ state = "Handshaking" /\ transport = "Detecting"
    /\ disconnect_started = FALSE /\ registered = TRUE /\ awaiting_pong = FALSE
    /\ age = [connected |-> 0, activity |-> 0, pong |-> 0, close |-> Old]
    /\ pass = 0
    /\ pc = [t \in Threads |-> "idle"]
    /\ response = "none" /\ unheralded = {} /\ close_queued = FALSE
    /\ closing_for = Never /\ pinged_for = Never /\ unjust = {}

-----------------------------------------------------------------------------
Step(t, from, to) == pc[t] = from /\ pc' = [pc EXCEPT ![t] = to]

\* Where a thread goes after SendControl, and after Disconnect.
Returned(t) == IF t = "reader" THEN "post" ELSE "end"
Ended(t) == IF t = "timer" THEN "idle" ELSE "end"

Grow(a) == IF a = Never THEN Never ELSE IF a < Old THEN a + 1 ELSE Old

\* The clock advances; a pass of the timer lasts at most MaxPass.  Nothing looks
\* at the time once Disconnect began.
Tick ==
    /\ ~disconnect_started
    /\ pc["timer"] # "idle" => pass < MaxPass
    /\ pass' = IF pc["timer"] # "idle" THEN pass + 1 ELSE 0
    /\ age' = [f \in DOMAIN age |-> Grow(age[f])]
    /\ closing_for' = Grow(closing_for) /\ pinged_for' = Grow(pinged_for)
    /\ UNCHANGED <<lifeVars, awaiting_pong, pc, response, unheralded, close_queued,
                   unjust>>

\* Disconnect, in the order of its stores: the flag, the state, the registry.
Disconnect(t) ==
    /\ \/ /\ Step(t, "disconnect", IF disconnect_started THEN Ended(t) ELSE "closed")
          /\ disconnect_started' = TRUE
          /\ UNCHANGED <<state, registered>>
       \/ /\ Step(t, "closed", "remove")
          /\ state' = "Closed"
          /\ UNCHANGED <<disconnect_started, registered>>
       \/ /\ Step(t, "remove", Ended(t))
          /\ registered' = FALSE
          /\ UNCHANGED <<state, disconnect_started>>
    /\ UNCHANGED <<transport, awaiting_pong, clockVars, historyVars>>

\* SendControl(Close, close_after): the loop that turns the state to Closing,
\* or returns.
TurnClosing(t) ==
    /\ \/ /\ state \in {"Closing", "Closed"}
          /\ Step(t, "turn", Returned(t))
          /\ UNCHANGED <<state, closing_for>>
       \/ /\ state \notin {"Closing", "Closed"}
          /\ Step(t, "turn", "stamp")
          /\ state' = "Closing" /\ closing_for' = 0
    /\ UNCHANGED <<transport, disconnect_started, registered, awaiting_pong,
                   clockVars, response, unheralded, close_queued, pinged_for, unjust>>

\* Mutant: the time stamp is rounded up, to a time still to come.
MutantStampsAhead(t) ==
    /\ Step(t, "stamp", "enqueue close")
    /\ age' = [age EXCEPT !.close = -1]
    /\ UNCHANGED <<lifeVars, awaiting_pong, pass, historyVars>>

\* close_started_ms.store(now).
StampClosing(t) ==
    /\ Step(t, "stamp", "enqueue close")
    /\ age' = [age EXCEPT !.close = 0]
    /\ UNCHANGED <<lifeVars, awaiting_pong, pass, historyVars>>

\* Enqueue refuses once Disconnect began, and may refuse for want of room.
Accepted ==
    /\ ~disconnect_started
    /\ unheralded' = IF transport = "RawTcp" \/ response = "queued" THEN unheralded
                     ELSE unheralded \cup {response}
Refused == UNCHANGED unheralded

\* Mutant: a Close frame that is refused is forgotten.
MutantRefusalForgotten(t) ==
    /\ Step(t, "enqueue close", Returned(t))
    /\ \/ Accepted /\ close_queued' = TRUE
       \/ Refused /\ UNCHANGED close_queued
    /\ UNCHANGED <<lifeVars, awaiting_pong, clockVars, response, closing_for,
                   pinged_for, unjust>>

\* The Close frame is the writer's last item; refused, it ends the session.
EnqueueClose(t) ==
    /\ \/ /\ Step(t, "enqueue close", Returned(t))
          /\ Accepted /\ close_queued' = TRUE
       \/ /\ Step(t, "enqueue close", "disconnect")
          /\ Refused /\ UNCHANGED close_queued
    /\ UNCHANGED <<lifeVars, awaiting_pong, clockVars, response, closing_for,
                   pinged_for, unjust>>

-----------------------------------------------------------------------------
\* HandleRead: a failed read, or one of a session being disconnected, ends it;
\* otherwise the session was active, and ProcessIncoming goes by the transport.
HandleRead ==
    /\ \/ /\ Step("reader", "idle", "disconnect")
          /\ UNCHANGED age
       \/ /\ ~disconnect_started
          /\ Step("reader", "idle",
                  CASE transport = "Detecting" -> "detect"
                    [] transport = "RawTcp"    -> "raw"
                    [] transport = "WebSocket" ->
                           IF state = "Closing" THEN "post" ELSE "websocket")
          /\ age' = [age EXCEPT !.activity = 0]
    /\ UNCHANGED <<lifeVars, awaiting_pong, pass, historyVars>>

\* ProcessDetection that finds no transport yet, or rejects the handshake.
DetectNothing ==
    /\ Step("reader", "detect", "post") \/ Step("reader", "detect", "disconnect")
    /\ UNCHANGED <<lifeVars, awaiting_pong, clockVars, historyVars>>

\* Raw TCP: the transport, then the state, then ProcessRaw.
DetectRaw ==
    /\ \/ /\ Step("reader", "detect", "open raw")
          /\ transport' = "RawTcp" /\ UNCHANGED state
       \/ /\ Step("reader", "open raw", "raw")
          /\ state' = "Open" /\ UNCHANGED transport
    /\ UNCHANGED <<disconnect_started, registered, awaiting_pong, clockVars,
                   historyVars>>

\* SendRaw of the 101 response: Enqueue accepts it, or refuses it for want of
\* room, or because Disconnect began.
SendResponse ==
    response' \in IF disconnect_started THEN {"disconnected"} ELSE {"queued", "no room"}

\* Mutant: the session is opened before the response is enqueued.
MutantOpensFirst ==
    /\ \/ /\ Step("reader", "detect", "to websocket")
          /\ state' = "Open" /\ transport' = "WebSocket" /\ UNCHANGED response
       \/ /\ Step("reader", "to websocket", "websocket")
          /\ SendResponse /\ UNCHANGED <<state, transport>>
    /\ UNCHANGED <<disconnect_started, registered, awaiting_pong, clockVars,
                   unheralded, close_queued, closing_for, pinged_for, unjust>>

\* An accepted handshake: the 101 response, then the transport, then the state,
\* then ProcessWebSocket, whether or not the response was accepted.
DetectWebSocket ==
    /\ \/ /\ Step("reader", "detect", "to websocket")
          /\ SendResponse /\ UNCHANGED <<state, transport>>
       \/ /\ Step("reader", "to websocket", "open websocket")
          /\ transport' = "WebSocket" /\ UNCHANGED <<state, response>>
       \/ /\ Step("reader", "open websocket", "websocket")
          /\ state' = "Open" /\ UNCHANGED <<transport, response>>
    /\ UNCHANGED <<disconnect_started, registered, awaiting_pong, clockVars,
                   unheralded, close_queued, closing_for, pinged_for, unjust>>

\* ProcessRaw: messages, after which the next read is posted or the session
\* ended (a bad frame, a limit, or Close).
ProcessRaw ==
    /\ Step("reader", "raw", "post") \/ Step("reader", "raw", "disconnect")
    /\ UNCHANGED <<lifeVars, awaiting_pong, clockVars, historyVars>>

\* ProcessWebSocket: the loop is over, or a Close frame, a protocol error or a
\* refused message closes the session, or a Ping is answered, or a Pong noted.
WebSocketEvent ==
    /\ \/ /\ Step("reader", "websocket", "post") /\ Refused
       \/ /\ ~disconnect_started /\ state = "Open"
          /\ \/ Step("reader", "websocket", "turn") /\ Refused
             \/ Step("reader", "websocket", "pong") /\ Refused
             \/ Step("reader", "websocket", "websocket") /\ Accepted
    /\ UNCHANGED <<lifeVars, awaiting_pong, clockVars, response, close_queued,
                   closing_for, pinged_for, unjust>>

\* A Pong frame: awaiting_pong, then last_pong_ms.
HandlePong ==
    /\ \/ /\ Step("reader", "pong", "pong stamp")
          /\ awaiting_pong' = FALSE /\ UNCHANGED age
       \/ /\ Step("reader", "pong stamp", "websocket")
          /\ age' = [age EXCEPT !.pong = 0] /\ UNCHANGED awaiting_pong
    /\ UNCHANGED <<lifeVars, pass, historyVars>>

\* HandleRead's end: post the next read, or end the session.
PostRead ==
    /\ \/ ~disconnect_started /\ Step("reader", "post", "idle")
       \/ Step("reader", "post", "disconnect")
    /\ UNCHANGED <<lifeVars, awaiting_pong, clockVars, historyVars>>

\* A write fails, or the last item of a closing session is written.
WriterDisconnects ==
    /\ Step("writer", "idle", "disconnect")
    /\ UNCHANGED <<lifeVars, awaiting_pong, clockVars, historyVars>>

\* Send and Close, by a thread of the application: Find, then the state or
\* the transport, then the frame.
Send(t) ==
    /\ \/ registered /\ state = "Open" /\ Step(t, "idle", "enqueue") /\ Refused
       \/ Step(t, "enqueue", "end") /\ (Accepted \/ Refused)
    /\ UNCHANGED <<lifeVars, awaiting_pong, clockVars, response, close_queued,
                   closing_for, pinged_for, unjust>>

Close(t) ==
    /\ registered
    /\ Step(t, "idle", IF transport = "WebSocket" THEN "turn" ELSE "disconnect")
    /\ UNCHANGED <<lifeVars, awaiting_pong, clockVars, historyVars>>

-----------------------------------------------------------------------------
\* TimerLoop: now and Snapshot, then the flag, then the state.
TimerWakes ==
    /\ registered
    /\ Step("timer", "idle", "state")
    /\ pass' = 0
    /\ UNCHANGED <<lifeVars, awaiting_pong, age, historyVars>>

\* Mutant: a Closing session is left to its writer.
MutantSkipsClosing ==
    /\ Step("timer", "state",
            IF disconnect_started THEN "idle"
            ELSE CASE state = "Handshaking" -> "handshake"
                   [] state = "Open"        -> "activity"
                   [] OTHER                 -> "idle")
    /\ UNCHANGED <<lifeVars, awaiting_pong, clockVars, historyVars>>

TimerState ==
    /\ Step("timer", "state",
            IF disconnect_started THEN "idle"
            ELSE CASE state = "Handshaking" -> "handshake"
                   [] state = "Closing"     -> "close"
                   [] state = "Open"        -> "activity"
                   [] state = "Closed"      -> "idle")
    /\ UNCHANGED <<lifeVars, awaiting_pong, clockVars, historyVars>>

\* now - stamp, as the timer computes it.
Elapsed(stamp) == age[stamp] - pass

\* A session found late is disconnected; unjustly so if not really late.
TimerCheck(label, late, next, just) ==
    /\ Step("timer", label, IF late THEN "disconnect" ELSE next)
    /\ unjust' = IF late /\ ~just THEN unjust \cup {label} ELSE unjust
    /\ UNCHANGED <<lifeVars, awaiting_pong, clockVars, response, unheralded,
                   close_queued, closing_for, pinged_for>>

TimerHandshake ==
    TimerCheck("handshake", Elapsed("connected") > HandshakeTimeout, "idle",
               age.connected > HandshakeTimeout)

\* Justly so, too, in the gap between the state and close_started_ms.
TimerClose ==
    TimerCheck("close", Elapsed("close") > CloseTimeout, "idle",
               closing_for > CloseTimeout \/ \E t \in Threads : pc[t] = "stamp")

\* Mutant: late at the timeout, not after it.
MutantActivityAtTimeout ==
    TimerCheck("activity", Elapsed("activity") >= IdleTimeout, "awaiting",
               age.activity > IdleTimeout)

TimerActivity ==
    TimerCheck("activity", Elapsed("activity") > IdleTimeout, "awaiting",
               age.activity > IdleTimeout)

TimerAwaiting ==
    /\ Step("timer", "awaiting", IF transport # "WebSocket" THEN "idle"
                                 ELSE IF awaiting_pong THEN "pong" ELSE "ping")
    /\ UNCHANGED <<lifeVars, awaiting_pong, clockVars, historyVars>>

\* Mutant: any traffic counts as the pong.
MutantPongActivity ==
    TimerCheck("pong", Elapsed("activity") > PongTimeout, "idle", TRUE)

TimerPong ==
    TimerCheck("pong", Elapsed("pong") > PongTimeout, "idle",
               pinged_for = Never \/ pinged_for + MaxPass > PongTimeout)

\* A ping is due: awaiting_pong, last_pong_ms, and the frame, whose refusal is
\* ignored.
TimerPing ==
    /\ \/ /\ Step("timer", "ping", IF Elapsed("pong") > PingInterval
                                   THEN "ping stamp" ELSE "idle")
          /\ awaiting_pong' = (awaiting_pong \/ Elapsed("pong") > PingInterval)
          /\ UNCHANGED <<age, unheralded, pinged_for>>
       \/ /\ Step("timer", "ping stamp", "ping enqueue")
          /\ age' = [age EXCEPT !.pong = pass]
          /\ UNCHANGED <<awaiting_pong, unheralded, pinged_for>>
       \/ /\ Step("timer", "ping enqueue", "idle")
          /\ \/ Accepted /\ pinged_for' = 0
             \/ Refused /\ pinged_for' = Never
          /\ UNCHANGED <<awaiting_pong, age>>
    /\ UNCHANGED <<lifeVars, pass, response, close_queued, closing_for, unjust>>

Timer ==
    \/ TimerWakes \/ TimerState \/ TimerHandshake \/ TimerClose \/ TimerActivity
    \/ TimerAwaiting \/ TimerPong \/ TimerPing

Reader ==
    \/ HandleRead \/ DetectNothing \/ DetectRaw \/ DetectWebSocket \/ ProcessRaw
    \/ WebSocketEvent \/ HandlePong \/ PostRead

Control(t) == Disconnect(t) \/ TurnClosing(t) \/ StampClosing(t) \/ EnqueueClose(t)

Next ==
    \/ Tick \/ Timer \/ Reader \/ WriterDisconnects
    \/ \E t \in Threads : Control(t)
    \/ \E t \in Callers : Send(t) \/ Close(t)

\* Time passes (strongly fair, for MaxPass makes it wait for the timer, which
\* time does not), the timer thread runs, and a thread inside a call of the
\* server goes on; a peer need not send, and a write need not complete.
Fairness ==
    /\ SF_vars(Tick) /\ WF_vars(Timer)
    /\ WF_vars(Reader /\ pc["reader"] # "idle")
    /\ \A t \in Threads : WF_vars(Control(t))

Spec == Init /\ [][Next]_vars

-----------------------------------------------------------------------------
\* What may have become of the 101 response.
Fates == {"none", "queued", "no room", "disconnected"}

\* The values every variable may have.
TypeOK ==
    /\ state \in {"Handshaking", "Open", "Closing", "Closed"}
    /\ transport \in {"Detecting", "RawTcp", "WebSocket"}
    /\ {disconnect_started, registered, awaiting_pong, close_queued} \subseteq BOOLEAN
    /\ response \in Fates /\ unheralded \subseteq Fates
    /\ age \in [{"connected", "activity", "pong", "close"} -> 0 .. Old]
    /\ pass \in 0 .. MaxPass
    /\ {closing_for, pinged_for} \subseteq Never .. Old

\* No frame is accepted for a peer before its transport is known, nor for a
\* WebSocket peer before Enqueue answered for the 101 response: Send, the timer's
\* ping and Close wait for what the reader stores after it.  ProcessDetection opens
\* the session whatever the answer was (line 914), so a frame may go out without a
\* 101, but only where the response found no room; one refused because Disconnect
\* began is followed by nothing.
UpgradeFirst == unheralded \subseteq {"no room"}

\* Somebody in S is about to end the session, or it is ended, or the writer ends
\* it once it has written what is queued.
Ending(S) ==
    \/ disconnect_started \/ close_queued
    \/ \E t \in S : pc[t] \in {"stamp", "enqueue close", "disconnect"}

\* A Close once begun is never forgotten.  The reader's store of Open (lines 896 and
\* 916) may overwrite Closing, which takes the session from the close timer and lets
\* Send and the ping pass again; but that happens only to a Close called by the
\* application, and its frame is queued as the last or its caller goes on to
\* Disconnect.
CloseKept ==
    closing_for # Never =>
        Ending(IF state = "Open" THEN DOMAIN pc \ {"reader", "timer", "writer"}
               ELSE DOMAIN pc)

\* The handshake and idle timers never drop a session early, whatever happens
\* between the reading of now and of the time stamp; the pong timer drops one it
\* did ping early by no more than the pass that sent the ping was long; and the
\* close timer only while SendControl is between the state and the time stamp.
TimersNotEarly == unjust = {}

\* No session stays in the handshake: it opens, closes or is disconnected.
HandshakeEnds == state = "Handshaking" ~> state # "Handshaking"

\* A session that turns Closing is disconnected, whether or not its Close frame
\* is ever written.
ClosingEnds == state = "Closing" ~> disconnect_started

\* A session whose peer falls silent for good is disconnected.
SilentEnds == <>[](pc["reader"] = "idle") => <>disconnect_started

\* A ping is answered, or the session is disconnected, however busy it is.
PongAwaited == awaiting_pong ~> (~awaiting_pong \/ disconnect_started)
=============================================================================
