---------------------------- MODULE SessionProofs ----------------------------
(***************************************************************************)
(* The timers, the handshake and the closing of one session, for every     *)
(* timeout, every length of a timer's pass and every set of callers; and   *)
(* ProcessDetection, for every stream, read size and limit.                *)
(***************************************************************************)
EXTENDS Session, Detection, FiniteSetTheorems, TLAPS

\* SMT is tried first and Zenon next, except where a leaf names Zenon.
USE SMTT(30), ZenonT(20)

Places ==
    {"idle", "disconnect", "closed", "remove", "end", "turn", "stamp",
     "enqueue close", "post", "detect", "raw", "websocket", "open raw",
     "to websocket", "open websocket", "pong", "pong stamp", "enqueue", "state",
     "handshake", "close", "activity", "awaiting", "ping", "ping stamp",
     "ping enqueue"}

PlacesOK == pc \in [Threads -> Places]

\* The time stamp of a Close is no older than the Closing it is for, once
\* SendControl has made it; and TimerLoop looks at it only if there was one.
CloseStamped ==
    /\ closing_for # Never /\ (\A t \in Threads : pc[t] # "stamp") =>
           age["close"] <= closing_for
    /\ state = "Closing" \/ pc["timer"] = "close" => closing_for # Never

\* last_pong_ms is at most the timer's pass older than the ping it counts from.
PongStamped ==
    /\ pinged_for # Never => age["pong"] <= pinged_for + MaxPass
    /\ pc["timer"] = "ping enqueue" => age["pong"] <= pass

\* What is known of the transport wherever a thread is: only the reader looks
\* for it, and the threads that frame something waited for what it found.
Fits(t, place) ==
    /\ place \in {"detect", "to websocket"} => t = "reader" /\ transport = "Detecting"
    /\ place = "to websocket" => response # "none"
    /\ place \in {"raw", "open raw"} => transport = "RawTcp"
    /\ place \in {"websocket", "open websocket", "pong", "pong stamp", "turn", "stamp",
                   "enqueue close", "ping", "ping stamp", "ping enqueue"} =>
           transport = "WebSocket"
    /\ place = "enqueue" => transport # "Detecting"
    /\ place = "turn" => t \in Callers \cup {"reader"}

\* The reader stores the transport before it opens the session, and has Enqueue's
\* answer for the 101 response before it stores WebSocket.
Detected ==
    /\ \A t \in Threads : Fits(t, pc[t])
    /\ state = "Open" => transport # "Detecting"
    /\ transport = "WebSocket" => response # "none"
    /\ response = "disconnected" => disconnect_started

\* A Close is begun on a WebSocket session, and whoever is about to end it, or the
\* Close frame, survives the reader's store of Open, which only callers can meet.
CloseBegun ==
    closing_for # Never =>
        /\ transport = "WebSocket"
        /\ Ending(Threads)
        /\ state = "Open" \/ pc["reader"] = "open websocket" => Ending(Callers)

\* The inductive invariant.
SessionInv ==
    /\ TypeOK /\ PlacesOK
    /\ CloseStamped /\ PongStamped /\ TimersNotEarly
    /\ Detected /\ UpgradeFirst /\ CloseBegun

-----------------------------------------------------------------------------
(* Time.                                                                   *)

\* Old is older than any timeout and any pass.
LEMMA OldIsOld ==
    /\ Old \in Nat /\ MaxPass \in Nat /\ MaxPass < Old
    /\ {HandshakeTimeout, IdleTimeout, PingInterval, PongTimeout, CloseTimeout} \subseteq Nat
  BY SessionAssumption DEF Old, Later

\* A stamp grows older, never beyond Old, and keeps its place among the others.
LEMMA GrowOlder ==
    ASSUME NEW a \in 0 .. Old
    PROVE  /\ Grow(a) \in 0 .. Old /\ a <= Grow(a)
           /\ Grow(Never) = Never
           /\ \A b \in 0 .. Old : a <= b => Grow(a) <= Grow(b)
           /\ \A b \in 0 .. Old : a <= b + MaxPass => Grow(a) <= Grow(b) + MaxPass
           /\ \A b \in 0 .. MaxPass : a <= b => Grow(a) <= b + 1
  BY OldIsOld DEF Grow, Never

Stamps == {"connected", "activity", "pong", "close"}

\* Storing a time stamp leaves the others.
LEMMA StampStored ==
    ASSUME NEW f \in Stamps, NEW n \in 0 .. Old, age \in [Stamps -> 0 .. Old],
           age' = [age EXCEPT ![f] = n]
    PROVE  /\ age' \in [Stamps -> 0 .. Old]
           /\ age'[f] = n /\ \A g \in Stamps \ {f} : age'[g] = age[g]
  OBVIOUS

\* The types, one by one.
LEMMA TypesInFull ==
    TypeOK <=>
        /\ state \in {"Handshaking", "Open", "Closing", "Closed"}
        /\ transport \in {"Detecting", "RawTcp", "WebSocket"}
        /\ disconnect_started \in BOOLEAN /\ registered \in BOOLEAN
        /\ awaiting_pong \in BOOLEAN /\ close_queued \in BOOLEAN
        /\ response \in Fates /\ unheralded \subseteq Fates
        /\ age \in [Stamps -> 0 .. Old] /\ pass \in 0 .. MaxPass
        /\ closing_for \in Never .. Old /\ pinged_for \in Never .. Old
  BY DEF TypeOK, Stamps

\* The first state satisfies the invariant.
LEMMA SessionInit == Init => SessionInv
  <1> SUFFICES ASSUME Init PROVE SessionInv
    OBVIOUS
  <1>1. age = [f \in Stamps |-> IF f = "close" THEN Old ELSE 0]
    BY DEF Init, Stamps
  <1>2. TypeOK
    <2>1. age \in [Stamps -> 0 .. Old] /\ pass \in 0 .. MaxPass
      BY <1>1, OldIsOld DEF Init
    <2>2. closing_for \in Never .. Old /\ pinged_for \in Never .. Old
      BY OldIsOld DEF Init, Never
    <2>3. response \in Fates /\ unheralded \subseteq Fates
      BY DEF Init, Fates
    <2>4. QED
      BY <2>1, <2>2, <2>3, TypesInFull, Zenon DEF Init
  <1>3. PlacesOK
    BY DEF Init, PlacesOK, Places
  <1>4. CloseStamped /\ PongStamped /\ TimersNotEarly
    BY <1>1 DEF Init, CloseStamped, PongStamped, TimersNotEarly, Threads
  <1>5. Detected /\ UpgradeFirst /\ CloseBegun
    BY DEF Init, Detected, Fits, UpgradeFirst, CloseBegun
  <1>6. QED
    BY <1>2, <1>3, <1>4, <1>5 DEF SessionInv

-----------------------------------------------------------------------------
(* Types.                                                                  *)

\* The server's own threads, and the callers besides.
LEMMA ThreadsKnown ==
    /\ {"reader", "timer", "writer"} \subseteq Threads /\ Callers \subseteq Threads
    /\ \A t \in Callers : t \notin {"reader", "timer", "writer"}
  BY SessionAssumption DEF Threads

\* Every step of every thread leads to a place.
LEMMA PlacesStep ==
    ASSUME TypeOK, PlacesOK, [Next]_vars
    PROVE  PlacesOK'
  <1>1. ASSUME NEW t \in Threads, Control(t)
        PROVE  PlacesOK'
    BY <1>1, ZenonT(30) DEF Control, Disconnect, TurnClosing, StampClosing, EnqueueClose, Step,
                Ended, Returned, PlacesOK, Places
  <1>2. CASE Reader
    <2>1. CASE HandleRead
      BY <2>1, ThreadsKnown, TypesInFull, ZenonT(30) DEF HandleRead, Step, PlacesOK, Places
    <2>2. CASE ~HandleRead
      BY <1>2, <2>2, ThreadsKnown, ZenonT(30)
      DEF Reader, DetectNothing, DetectRaw, DetectWebSocket, ProcessRaw, WebSocketEvent,
          HandlePong, PostRead, Step, PlacesOK, Places
    <2>3. QED
      BY <2>1, <2>2
  <1>3. CASE Timer
    <2>1. CASE TimerState
      BY <2>1, ThreadsKnown, TypesInFull, Zenon DEF TimerState, Step, PlacesOK, Places
    <2>2. CASE TimerWakes \/ TimerAwaiting \/ TimerPing
      BY <2>2, ThreadsKnown, ZenonT(30) DEF TimerWakes, TimerAwaiting, TimerPing, Step,
             PlacesOK, Places
    <2>3. CASE TimerHandshake \/ TimerClose \/ TimerActivity \/ TimerPong
      BY <2>3, ThreadsKnown, ZenonT(30)
      DEF TimerHandshake, TimerClose, TimerActivity, TimerPong, TimerCheck, Step, PlacesOK,
          Places
    <2>4. QED
      BY <1>3, <2>1, <2>2, <2>3 DEF Timer
  <1>4. CASE WriterDisconnects \/ Tick \/ UNCHANGED vars
    BY <1>4, ThreadsKnown, Zenon DEF WriterDisconnects, Tick, vars, Step, PlacesOK, Places
  <1>5. ASSUME NEW t \in Callers, Send(t) \/ Close(t)
        PROVE  PlacesOK'
    BY <1>5, ThreadsKnown, Zenon DEF Send, Close, Step, PlacesOK, Places
  <1>6. QED
    BY <1>1, <1>2, <1>3, <1>4, <1>5 DEF Next

\* Every step keeps the types.
LEMMA TypesStep ==
    ASSUME TypeOK, [Next]_vars
    PROVE  TypeOK'
  <1>0. /\ state \in {"Handshaking", "Open", "Closing", "Closed"}
        /\ transport \in {"Detecting", "RawTcp", "WebSocket"}
        /\ disconnect_started \in BOOLEAN /\ registered \in BOOLEAN
        /\ awaiting_pong \in BOOLEAN /\ close_queued \in BOOLEAN
        /\ response \in Fates /\ unheralded \subseteq Fates
        /\ age \in [Stamps -> 0 .. Old] /\ pass \in 0 .. MaxPass
        /\ closing_for \in Never .. Old /\ pinged_for \in Never .. Old
    BY TypesInFull
  <1>a. /\ {"activity", "pong", "close"} \subseteq Stamps
        /\ 0 \in 0 .. Old /\ pass \in 0 .. Old /\ {0, Never} \subseteq Never .. Old
    BY <1>0, OldIsOld DEF Stamps, Never
  <1>1. ASSUME state' \in {"Handshaking", "Open", "Closing", "Closed"},
               transport' \in {"Detecting", "RawTcp", "WebSocket"},
               disconnect_started' \in BOOLEAN, registered' \in BOOLEAN,
               awaiting_pong' \in BOOLEAN, close_queued' \in BOOLEAN,
               response' \in Fates, unheralded' \subseteq Fates,
               age' \in [Stamps -> 0 .. Old], pass' \in 0 .. MaxPass,
               closing_for' \in Never .. Old, pinged_for' \in Never .. Old
        PROVE  TypeOK'
    BY <1>1 DEF TypeOK, Stamps
  <1>b. /\ Accepted \/ Refused => unheralded' \subseteq Fates
        /\ SendResponse => response' \in Fates
    BY <1>0 DEF Accepted, Refused, SendResponse, Fates
  <1>2. CASE Tick
    <2>1. age' \in [Stamps -> 0 .. Old] /\ pass' \in 0 .. MaxPass
      BY <1>0, <1>2, GrowOlder, OldIsOld DEF Tick
    <2>2. closing_for' \in Never .. Old /\ pinged_for' \in Never .. Old
      BY <1>0, <1>2, OldIsOld DEF Tick, Grow, Never
    <2>3. QED
      BY <1>0, <1>1, <1>2, <2>1, <2>2 DEF Tick, lifeVars
  <1>3. ASSUME NEW t \in Threads, Control(t)
        PROVE  TypeOK'
    <2>1. CASE Disconnect(t)
      BY <1>0, <1>1, <2>1, Zenon DEF Disconnect, clockVars, historyVars
    <2>2. CASE TurnClosing(t)
      <3>1. closing_for' \in Never .. Old
        BY <1>0, <2>2, OldIsOld DEF TurnClosing, Never
      <3>2. QED
        BY <1>0, <1>1, <2>2, <3>1 DEF TurnClosing, clockVars
    <2>3. CASE StampClosing(t)
      <3>1. age' \in [Stamps -> 0 .. Old]
        BY <1>0, <1>a, <2>3, StampStored, Zenon DEF StampClosing
      <3>2. QED
        BY <1>0, <1>1, <2>3, <3>1, Zenon DEF StampClosing, lifeVars, historyVars
    <2>4. CASE EnqueueClose(t)
      BY <1>0, <1>1, <1>b, <2>4, Zenon DEF EnqueueClose, lifeVars, clockVars
    <2>5. QED
      BY <1>3, <2>1, <2>2, <2>3, <2>4 DEF Control
  <1>4. CASE Reader
    <2>1. CASE HandleRead \/ HandlePong
      <3>1. age' \in [Stamps -> 0 .. Old]
        BY <1>0, <1>a, <2>1, StampStored, Zenon DEF HandleRead, HandlePong
      <3>2. QED
        BY <1>0, <1>1, <2>1, <3>1, Zenon DEF HandleRead, HandlePong, lifeVars, historyVars
    <2>2. CASE DetectNothing \/ ProcessRaw \/ PostRead
      BY <1>0, <1>1, <2>2
      DEF DetectNothing, ProcessRaw, PostRead, lifeVars, clockVars, historyVars
    <2>3. CASE DetectRaw \/ DetectWebSocket
      BY <1>0, <1>1, <1>b, <2>3, Zenon DEF DetectRaw, DetectWebSocket, clockVars, historyVars
    <2>4. CASE WebSocketEvent
      BY <1>0, <1>1, <1>b, <2>4, Zenon DEF WebSocketEvent, lifeVars, clockVars
    <2>5. QED
      BY <1>4, <2>1, <2>2, <2>3, <2>4 DEF Reader
  <1>5. CASE Timer
    <2>1. CASE TimerWakes \/ TimerState \/ TimerAwaiting
      <3>1. pass' \in 0 .. MaxPass
        BY <1>0, <2>1, OldIsOld DEF TimerWakes, TimerState, TimerAwaiting, clockVars
      <3>2. QED
        BY <1>0, <1>1, <2>1, <3>1
        DEF TimerWakes, TimerState, TimerAwaiting, lifeVars, clockVars, historyVars
    <2>2. CASE TimerHandshake \/ TimerClose \/ TimerActivity \/ TimerPong
      BY <1>0, <1>1, <2>2
      DEF TimerHandshake, TimerClose, TimerActivity, TimerPong, TimerCheck, lifeVars,
          clockVars
    <2>3. CASE TimerPing
      <3>1. age' \in [Stamps -> 0 .. Old]
        BY <1>0, <1>a, <2>3, StampStored, Zenon DEF TimerPing
      <3>2. pinged_for' \in Never .. Old
        BY <1>0, <1>a, <2>3, Zenon DEF TimerPing
      <3>3. awaiting_pong' \in BOOLEAN /\ unheralded' \subseteq Fates
        BY <1>0, <1>b, <2>3, Zenon DEF TimerPing
      <3>4. QED
        BY <1>0, <1>1, <2>3, <3>1, <3>2, <3>3, Zenon DEF TimerPing, lifeVars
    <2>4. QED
      BY <1>5, <2>1, <2>2, <2>3 DEF Timer
  <1>6. CASE WriterDisconnects \/ UNCHANGED vars
    BY <1>0, <1>1, <1>6
    DEF WriterDisconnects, vars, lifeVars, clockVars, historyVars
  <1>7. ASSUME NEW t \in Callers, Send(t) \/ Close(t)
        PROVE  TypeOK'
    BY <1>0, <1>1, <1>b, <1>7, Zenon DEF Send, Close, lifeVars, clockVars, historyVars
  <1>8. QED
    BY <1>2, <1>3, <1>4, <1>5, <1>6, <1>7 DEF Next

-----------------------------------------------------------------------------
(* The time stamps the timer looks at.                                     *)

\* SendControl's state and time stamp: whoever turned the session to Closing is
\* still to stamp it, or the stamp is at most as old as the Closing.
LEMMA CloseStampedStep ==
    ASSUME TypeOK, PlacesOK, CloseStamped, [Next]_vars
    PROVE  CloseStamped'
  <1>0. /\ age \in [Stamps -> 0 .. Old] /\ closing_for \in Never .. Old
        /\ {"activity", "pong", "close"} \subseteq Stamps /\ "timer" \in Threads
    BY TypesInFull, ThreadsKnown DEF Stamps
  <1>1. ASSUME age'["close"] = age["close"], closing_for' = closing_for,
               \A t \in Threads : pc[t] = "stamp" => pc'[t] = "stamp",
               state' = "Closing" => state = "Closing",
               pc'["timer"] = "close" => pc["timer"] = "close" \/ state = "Closing"
        PROVE  CloseStamped'
    BY <1>1 DEF CloseStamped
  <1>s. ASSUME NEW t \in Threads, NEW from, NEW to, Step(t, from, to), from # "stamp"
        PROVE  /\ \A u \in Threads : pc[u] = "stamp" => pc'[u] = "stamp"
               /\ pc'["timer"] = "close" => pc["timer"] = "close" \/ to = "close"
    BY <1>0, <1>s DEF Step, PlacesOK
  <1>2. CASE Tick
    <2>1. age'["close"] = Grow(age["close"]) /\ UNCHANGED <<state, pc>>
      BY <1>0, <1>2 DEF Tick, lifeVars
    <2>2. closing_for # Never => closing_for \in 0 .. Old
      BY <1>0, OldIsOld DEF Never
    <2>3. closing_for' # Never <=> closing_for # Never
      BY <1>0, <1>2, <2>2, OldIsOld DEF Tick, Grow, Never
    <2>4. closing_for # Never /\ age["close"] <= closing_for => age'["close"] <= closing_for'
      BY <1>0, <1>2, <2>1, <2>2, GrowOlder DEF Tick
    <2>5. QED
      BY <2>1, <2>3, <2>4 DEF CloseStamped
  <1>3. ASSUME NEW t \in Threads, TurnClosing(t)
        PROVE  CloseStamped'
    <2>1. CASE state \in {"Closing", "Closed"}
      <3>1. Step(t, "turn", Returned(t)) /\ UNCHANGED <<state, closing_for, age>>
        BY <1>3, <2>1 DEF TurnClosing, clockVars
      <3>2. QED
        BY <1>1, <1>s, <3>1 DEF Returned
    <2>2. CASE state \notin {"Closing", "Closed"}
      BY <1>3, <2>2 DEF TurnClosing, Step, PlacesOK, CloseStamped, Never
    <2>3. QED
      BY <2>1, <2>2
  <1>4. ASSUME NEW t \in Threads, StampClosing(t)
        PROVE  CloseStamped'
    <2>1. age'["close"] = 0 /\ UNCHANGED <<state, closing_for>>
      BY <1>0, <1>4, Zenon DEF StampClosing, lifeVars, historyVars
    <2>2. closing_for # Never => 0 <= closing_for
      BY <1>0, OldIsOld DEF Never
    <2>3. pc'["timer"] = "close" => pc["timer"] = "close"
      BY <1>0, <1>4, Zenon DEF StampClosing, Step, PlacesOK
    <2>4. QED
      BY <2>1, <2>2, <2>3 DEF CloseStamped
  <1>5. ASSUME NEW t \in Threads, Disconnect(t) \/ EnqueueClose(t)
        PROVE  CloseStamped'
    <2>1. \E from, to : from # "stamp" /\ to # "close" /\ Step(t, from, to)
      BY <1>5, Zenon DEF Disconnect, EnqueueClose, Ended, Returned
    <2>2. UNCHANGED <<age, closing_for>> /\ (state' = "Closing" => state = "Closing")
      BY <1>5, Zenon DEF Disconnect, EnqueueClose, lifeVars, clockVars, historyVars
    <2>3. QED
      BY <1>1, <1>s, <2>1, <2>2
  <1>6. CASE Reader
    <2>1. age'["close"] = age["close"]
      BY <1>0, <1>6, Zenon
      DEF Reader, HandleRead, HandlePong, DetectNothing, DetectRaw, DetectWebSocket,
          ProcessRaw, WebSocketEvent, PostRead, clockVars, Stamps
    <2>2. closing_for' = closing_for /\ (state' = "Closing" => state = "Closing")
      BY <1>6, Zenon
      DEF Reader, HandleRead, HandlePong, DetectNothing, DetectRaw, DetectWebSocket,
          ProcessRaw, WebSocketEvent, PostRead, lifeVars, historyVars
    <2>3. \E from, to : from # "stamp" /\ to # "close" /\ Step("reader", from, to)
      <3>1. CASE HandleRead
        BY <3>1, TypesInFull DEF HandleRead
      <3>2. CASE ~HandleRead
        BY <1>6, <3>2, Zenon
        DEF Reader, HandlePong, DetectNothing, DetectRaw, DetectWebSocket,
            ProcessRaw, WebSocketEvent, PostRead
      <3>3. QED
        BY <3>1, <3>2
    <2>4. QED
      BY <1>1, <1>s, <2>1, <2>2, <2>3, ThreadsKnown
  <1>7. CASE Timer
    <2>1. age'["close"] = age["close"]
      BY <1>0, <1>7, Zenon
      DEF Timer, TimerWakes, TimerState, TimerHandshake, TimerClose, TimerActivity,
          TimerAwaiting, TimerPong, TimerPing, TimerCheck, clockVars, Stamps
    <2>2. UNCHANGED <<closing_for, state>>
      BY <1>7, Zenon
      DEF Timer, TimerWakes, TimerState, TimerHandshake, TimerClose, TimerActivity,
          TimerAwaiting, TimerPong, TimerPing, TimerCheck, lifeVars, historyVars
    <2>3. ASSUME NEW from, NEW to, Step("timer", from, to), from # "stamp",
                 to = "close" => state = "Closing"
          PROVE  CloseStamped'
      BY <1>0, <1>1, <1>s, <2>1, <2>2, <2>3
    <2>4. CASE TimerState
      BY <2>3, <2>4, TypesInFull DEF TimerState
    <2>5. CASE TimerWakes \/ TimerAwaiting \/ TimerPing
      BY <2>3, <2>5, Zenon DEF TimerWakes, TimerAwaiting, TimerPing
    <2>6. CASE TimerHandshake \/ TimerClose \/ TimerActivity \/ TimerPong
      BY <2>3, <2>6 DEF TimerHandshake, TimerClose, TimerActivity, TimerPong, TimerCheck
    <2>7. QED
      BY <1>7, <2>4, <2>5, <2>6 DEF Timer
  <1>8. CASE WriterDisconnects \/ UNCHANGED vars
    BY <1>1, <1>8, ThreadsKnown
    DEF WriterDisconnects, vars, Step, PlacesOK, lifeVars, clockVars, historyVars
  <1>9. ASSUME NEW t \in Callers, Send(t) \/ Close(t)
        PROVE  CloseStamped'
    BY <1>1, <1>9, ThreadsKnown
    DEF Send, Close, Step, PlacesOK, lifeVars, clockVars, historyVars
  <1>10. QED
    BY <1>2, <1>3, <1>4, <1>5, <1>6, <1>7, <1>8, <1>9 DEF Next, Control

\* TimerLoop's ping: last_pong_ms is the now of the pass, so it is older than the
\* ping by what the pass has taken, and a Pong only makes it younger.
LEMMA PongStampedStep ==
    ASSUME TypeOK, PlacesOK, PongStamped, [Next]_vars
    PROVE  PongStamped'
  <1>0. /\ age \in [Stamps -> 0 .. Old] /\ pinged_for \in Never .. Old
        /\ pass \in 0 .. MaxPass
        /\ {"activity", "pong", "close"} \subseteq Stamps /\ "timer" \in Threads
        /\ MaxPass \in Nat /\ Old \in Nat
    BY TypesInFull, ThreadsKnown, OldIsOld DEF Stamps
  <1>a. pinged_for # Never => pinged_for \in 0 .. Old
    BY <1>0 DEF Never
  <1>b. pinged_for # Never => \A x \in 0 .. MaxPass : x <= pinged_for + MaxPass
    BY <1>0, <1>a
  <1>1. ASSUME age'["pong"] = age["pong"], UNCHANGED <<pinged_for, pass>>,
               pc'["timer"] = "ping enqueue" => pc["timer"] = "ping enqueue"
        PROVE  PongStamped'
    BY <1>1, Zenon DEF PongStamped
  <1>2. CASE Tick
    <2>1. age'["pong"] = Grow(age["pong"]) /\ UNCHANGED pc
      BY <1>0, <1>2 DEF Tick
    <2>2. pinged_for' # Never => pinged_for # Never /\ pinged_for' = Grow(pinged_for)
      BY <1>2 DEF Tick, Grow
    <2>3. pinged_for' # Never => age'["pong"] <= pinged_for' + MaxPass
      BY <1>0, <1>a, <2>1, <2>2, GrowOlder, Zenon DEF PongStamped
    <2>4. pc["timer"] = "ping enqueue" => age'["pong"] <= pass'
      BY <1>0, <1>2, <2>1, GrowOlder, Zenon DEF PongStamped, Tick
    <2>5. QED
      BY <2>1, <2>3, <2>4, Zenon DEF PongStamped
  <1>3. CASE TimerPing
    <2>1. CASE Step("timer", "ping stamp", "ping enqueue") /\ age' = [age EXCEPT !["pong"] = pass]
      <3>1. age'["pong"] = pass
        BY <1>0, <2>1, Zenon
      <3>2. UNCHANGED <<pinged_for, pass>>
        BY <1>0, <1>3, <2>1, Zenon DEF TimerPing, Step
      <3>3. pinged_for' # Never => age'["pong"] <= pinged_for' + MaxPass
        BY <1>0, <1>b, <3>1, <3>2
      <3>4. age'["pong"] <= pass'
        BY <1>0, <3>1, <3>2
      <3>5. QED
        BY <3>3, <3>4, Zenon DEF PongStamped
    <2>2. CASE Step("timer", "ping enqueue", "idle")
      <3>1. UNCHANGED <<age, pass>> /\ pinged_for' \in {0, Never}
        BY <1>3, <2>2, Zenon DEF TimerPing, Step
      <3>2. age["pong"] <= pass /\ pc'["timer"] = "idle"
        BY <1>0, <2>2, Zenon DEF PongStamped, Step, PlacesOK
      <3>3. age'["pong"] <= 0 + MaxPass
        BY <1>0, <3>1, <3>2
      <3>4. QED
        BY <3>1, <3>2, <3>3, Zenon DEF PongStamped
    <2>3. CASE pc["timer"] = "ping"
      <3>1. UNCHANGED <<age, pass, pinged_for>> /\ pc'["timer"] # "ping enqueue"
        BY <1>0, <1>3, <2>3, Zenon DEF TimerPing, Step, PlacesOK
      <3>2. QED
        BY <1>1, <3>1, Zenon
    <2>4. QED
      BY <1>3, <2>1, <2>2, <2>3, Zenon DEF TimerPing, Step
  <1>4. CASE HandlePong
    <2>1. /\ age'["pong"] = age["pong"] \/ age'["pong"] = 0
          /\ UNCHANGED <<pinged_for, pass>>
      BY <1>0, <1>4, Zenon DEF HandlePong, historyVars
    <2>2. pc'["timer"] = pc["timer"]
      BY <1>0, <1>4, Zenon DEF HandlePong, Step, PlacesOK
    <2>3. CASE age'["pong"] = age["pong"]
      BY <1>1, <2>1, <2>2, <2>3, Zenon
    <2>4. CASE age'["pong"] = 0
      <3>1. 0 <= pass /\ (pinged_for # Never => 0 <= pinged_for + MaxPass)
        BY <1>0, <1>b
      <3>2. QED
        BY <2>1, <2>4, <3>1, Zenon DEF PongStamped
    <2>5. QED
      BY <2>1, <2>3, <2>4
  <1>5. CASE TimerWakes
    BY <1>0, <1>5 DEF TimerWakes, Step, PlacesOK, PongStamped, historyVars
  <1>6. CASE \/ TimerState \/ TimerAwaiting \/ TimerHandshake \/ TimerClose
             \/ TimerActivity \/ TimerPong
    <2>1. UNCHANGED <<age, pass, pinged_for>>
      BY <1>6
      DEF TimerState, TimerAwaiting, TimerHandshake, TimerClose, TimerActivity,
          TimerPong, TimerCheck, clockVars, historyVars
    <2>2. pc'["timer"] # "ping enqueue"
      <3>1. CASE TimerState
        BY <1>0, <3>1, TypesInFull, Zenon DEF TimerState, Step, PlacesOK
      <3>2. CASE ~TimerState
        BY <1>0, <1>6, <3>2, Zenon
        DEF TimerAwaiting, TimerHandshake, TimerClose, TimerActivity, TimerPong,
            TimerCheck, Step, PlacesOK
      <3>3. QED
        BY <3>1, <3>2, Zenon
    <2>3. QED
      BY <1>1, <2>1, <2>2, Zenon
  <1>7. CASE Reader /\ ~HandlePong
    <2>1. age'["pong"] = age["pong"] /\ UNCHANGED <<pinged_for, pass>>
      BY <1>0, <1>7, Zenon
      DEF Reader, HandleRead, DetectNothing, DetectRaw, DetectWebSocket, ProcessRaw,
          WebSocketEvent, PostRead, clockVars, historyVars, Stamps
    <2>2. pc'["timer"] = pc["timer"]
      BY <1>0, <1>7, Zenon
      DEF Reader, HandleRead, DetectNothing, DetectRaw, DetectWebSocket, ProcessRaw,
          WebSocketEvent, PostRead, Step, PlacesOK
    <2>3. QED
      BY <1>1, <2>1, <2>2, Zenon
  <1>8. ASSUME NEW t \in Threads, Control(t)
        PROVE  PongStamped'
    <2>1. age'["pong"] = age["pong"] /\ UNCHANGED <<pinged_for, pass>>
      BY <1>0, <1>8, Zenon
      DEF Control, Disconnect, TurnClosing, StampClosing, EnqueueClose, clockVars,
          historyVars, Stamps
    <2>2. pc'["timer"] = "ping enqueue" => pc["timer"] = "ping enqueue"
      BY <1>0, <1>8, Zenon
      DEF Control, Disconnect, TurnClosing, StampClosing, EnqueueClose, Step, Ended,
          Returned, PlacesOK
    <2>3. QED
      BY <1>1, <2>1, <2>2, Zenon
  <1>9. CASE WriterDisconnects \/ UNCHANGED vars
    BY <1>0, <1>1, <1>9, Zenon
    DEF WriterDisconnects, vars, Step, PlacesOK, clockVars, historyVars
  <1>10. ASSUME NEW t \in Callers, Send(t) \/ Close(t)
         PROVE  PongStamped'
    BY <1>0, <1>1, <1>10, ThreadsKnown, Zenon
    DEF Send, Close, Step, PlacesOK, clockVars, historyVars
  <1>11. QED
    BY <1>2, <1>3, <1>4, <1>5, <1>6, <1>7, <1>8, <1>9, <1>10 DEF Next, Timer, Reader

\* What the timer finds late is late.
LEMMA NotEarlyStep ==
    ASSUME TypeOK, CloseStamped, PongStamped, TimersNotEarly, [Next]_vars
    PROVE  TimersNotEarly'
  <1>0. /\ age \in [Stamps -> 0 .. Old] /\ pass \in 0 .. MaxPass
        /\ closing_for \in Never .. Old /\ pinged_for \in Never .. Old
        /\ Stamps = {"connected", "activity", "pong", "close"}
    BY TypesInFull DEF Stamps
  <1> USE OldIsOld
  <1>1. CASE TimerHandshake \/ TimerActivity
    BY <1>0, <1>1
    DEF TimerHandshake, TimerActivity, TimerCheck, Elapsed, TimersNotEarly
  <1>2. CASE TimerClose
    <2>1. (\A t \in Threads : pc[t] # "stamp") /\ pc["timer"] = "close" =>
              age["close"] <= closing_for
      BY DEF CloseStamped
    <2>2. (\A t \in Threads : pc[t] # "stamp") /\ Elapsed("close") > CloseTimeout
              /\ pc["timer"] = "close" => closing_for > CloseTimeout
      BY <1>0, <2>1 DEF Elapsed, Never
    <2>3. QED
      BY <1>2, <2>2 DEF TimerClose, TimerCheck, Step, TimersNotEarly
  <1>3. CASE TimerPong
    <2>0. age["pong"] \in Nat /\ pass \in Nat /\ pinged_for \in Int /\ Never \in Int
      BY <1>0 DEF Never
    <2>1. pinged_for # Never /\ Elapsed("pong") > PongTimeout =>
              pinged_for + MaxPass > PongTimeout
      <3>1. PongTimeout \in Nat /\ MaxPass \in Nat
        BY OldIsOld
      <3>2. pinged_for # Never => age["pong"] <= pinged_for + MaxPass
        BY Zenon DEF PongStamped
      <3>3. QED
        BY <2>0, <3>1, <3>2 DEF Elapsed
    <2>2. QED
      BY <1>3, <2>1 DEF TimerPong, TimerCheck, TimersNotEarly
  <1>4. CASE TimerWakes \/ TimerState \/ TimerAwaiting \/ TimerPing \/ Reader
    BY <1>4, Zenon
    DEF TimerWakes, TimerState, TimerAwaiting, TimerPing, Reader, HandleRead, HandlePong,
        DetectNothing, DetectRaw, DetectWebSocket, ProcessRaw, WebSocketEvent, PostRead,
        historyVars, TimersNotEarly
  <1>5. ASSUME NEW t \in Threads, Control(t)
        PROVE  TimersNotEarly'
    BY <1>5, Zenon
    DEF Control, Disconnect, TurnClosing, StampClosing, EnqueueClose, historyVars,
        TimersNotEarly
  <1>6. ASSUME NEW t \in Callers, Send(t) \/ Close(t)
        PROVE  TimersNotEarly'
    BY <1>6 DEF Send, Close, historyVars, TimersNotEarly
  <1>7. CASE Tick \/ WriterDisconnects \/ UNCHANGED vars
    BY <1>7 DEF Tick, WriterDisconnects, vars, historyVars, TimersNotEarly
  <1>8. QED
    BY <1>1, <1>2, <1>3, <1>4, <1>5, <1>6, <1>7 DEF Next, Timer

-----------------------------------------------------------------------------
(* The handshake.                                                          *)

\* disconnect_started is never cleared, and a queued Close stays so.
LEMMA FlagsStay ==
    ASSUME TypeOK, [Next]_vars
    PROVE  (disconnect_started => disconnect_started') /\ (close_queued => close_queued')
  <1> DEFINE Stay(x, y) == y = x \/ y = TRUE
             Flags == /\ Stay(disconnect_started, disconnect_started')
                      /\ Stay(close_queued, close_queued')
  <1>1. ASSUME NEW t \in Threads, Control(t)
        PROVE  Flags
    BY <1>1, Zenon DEF Control, Disconnect, TurnClosing, StampClosing, EnqueueClose, lifeVars,
                historyVars
  <1>2. ASSUME Reader
        PROVE  Flags
    BY <1>2, Zenon
    DEF Reader, HandleRead, DetectNothing, DetectRaw, DetectWebSocket, ProcessRaw,
        WebSocketEvent, HandlePong, PostRead, lifeVars, historyVars
  <1>3. ASSUME Timer
        PROVE  Flags
    BY <1>3, Zenon
    DEF Timer, TimerWakes, TimerState, TimerAwaiting, TimerPing, TimerHandshake, TimerClose,
        TimerActivity, TimerPong, TimerCheck, lifeVars, historyVars
  <1>4. ASSUME WriterDisconnects \/ Tick \/ UNCHANGED vars
        PROVE  Flags
    BY <1>4, Zenon DEF WriterDisconnects, Tick, vars, lifeVars, historyVars
  <1>5. ASSUME NEW t \in Callers, Send(t) \/ Close(t)
        PROVE  Flags
    BY <1>5, Zenon DEF Send, Close, lifeVars, historyVars
  <1> HIDE DEF Flags
  <1>6. Flags
    BY <1>1, <1>2, <1>3, <1>4, <1>5 DEF Next
  <1> QED
    BY <1>6, TypesInFull DEF Flags

\* A frame Enqueue accepts once the transport is known has its 101 response before
\* it, or the response found no room.
LEMMA AcceptedHeralded ==
    ASSUME TypeOK, Detected, UpgradeFirst, Accepted, transport # "Detecting"
    PROVE  UpgradeFirst'
  <1>1. transport = "RawTcp" \/ response \in {"queued", "no room"}
    BY DEF TypeOK, Detected, Accepted, Fates
  <1> QED
    BY <1>1 DEF UpgradeFirst, Accepted

\* A thread's step that leaves the transport alone, to a place the transport
\* allows, frames nothing too early.
LEMMA FramingStep ==
    ASSUME TypeOK, PlacesOK, Detected, UpgradeFirst,
           NEW t \in Threads, NEW from, NEW to,
           Step(t, from, to), Fits(t, to), UNCHANGED <<transport, response>>,
           state' = "Open" => transport # "Detecting",
           unheralded' = unheralded \/ (Accepted /\ transport # "Detecting"),
           disconnect_started => disconnect_started'
    PROVE  Detected' /\ UpgradeFirst'
  <1>1. ASSUME NEW u \in Threads
        PROVE  Fits(u, pc'[u])
    BY DEF PlacesOK, Step, Detected
  <1>2. Detected'
    BY <1>1, Zenon DEF Detected, Fits
  <1>3. UpgradeFirst'
    BY AcceptedHeralded, Zenon DEF UpgradeFirst
  <1>4. QED
    BY <1>2, <1>3

\* The reader, the timer, SendControl and the callers each wait for what the
\* reader stores.
LEMMA DetectedStep ==
    ASSUME TypeOK, PlacesOK, Detected, UpgradeFirst, [Next]_vars
    PROVE  Detected' /\ UpgradeFirst'
  <1>0. /\ transport \in {"Detecting", "RawTcp", "WebSocket"}
        /\ state \in {"Handshaking", "Open", "Closing", "Closed"}
        /\ {"reader", "timer", "writer"} \subseteq Threads /\ Callers \subseteq Threads
        /\ \A t \in Threads : Fits(t, pc[t])
        /\ disconnect_started => disconnect_started'
    BY ThreadsKnown, FlagsStay DEF TypeOK, Detected
  <1>a. ASSUME NEW t \in Threads, NEW from, NEW to, Step(t, from, to), Fits(t, to),
               UNCHANGED <<transport, response>>,
               state' = "Open" => transport # "Detecting",
               unheralded' = unheralded \/ (Accepted /\ transport # "Detecting")
        PROVE  Detected' /\ UpgradeFirst'
    BY <1>0, <1>a, FramingStep
  <1>1. ASSUME NEW t \in Threads, Disconnect(t)
        PROVE  Detected' /\ UpgradeFirst'
    <2>1. /\ UNCHANGED <<transport, response, unheralded>>
          /\ state' = "Open" => transport # "Detecting"
      BY <1>1 DEF Disconnect, historyVars, Detected
    <2>2. ASSUME NEW from, NEW to \in {"idle", "end", "closed", "remove"}, Step(t, from, to)
          PROVE  Detected' /\ UpgradeFirst'
      BY <1>a, <2>1, <2>2, Zenon DEF Fits
    <2>3. Ended(t) \in {"idle", "end", "closed", "remove"}
      BY DEF Ended
    <2>4. QED
      BY <1>1, <2>2, <2>3 DEF Disconnect
  <1>2. ASSUME NEW t \in Threads, TurnClosing(t)
        PROVE  Detected' /\ UpgradeFirst'
    <2>1. /\ UNCHANGED <<transport, response, unheralded>>
          /\ state' = "Open" => transport # "Detecting"
      BY <1>2 DEF TurnClosing, Detected
    <2>2. Fits(t, Returned(t)) /\ (pc[t] = "turn" => Fits(t, "stamp"))
      BY <1>0, Zenon DEF Returned, Fits
    <2>3. pc[t] = "turn"
      BY <1>2 DEF TurnClosing, Step
    <2>4. QED
      BY <1>2, <1>a, <2>1, <2>2, <2>3 DEF TurnClosing
  <1>3. ASSUME NEW t \in Threads, StampClosing(t)
        PROVE  Detected' /\ UpgradeFirst'
    <2>1. Fits(t, "enqueue close") /\ transport = "WebSocket"
      BY <1>0, <1>3, Zenon DEF StampClosing, Step, Fits
    <2>2. UNCHANGED <<transport, state, response, unheralded>>
      BY <1>3, Zenon DEF StampClosing, lifeVars, historyVars
    <2>3. QED
      BY <1>3, <1>a, <2>1, <2>2, Zenon DEF StampClosing
  <1>4. ASSUME NEW t \in Threads, EnqueueClose(t)
        PROVE  Detected' /\ UpgradeFirst'
    <2>1. transport = "WebSocket"
      BY <1>0, <1>4, Zenon DEF EnqueueClose, Step, Fits
    <2>2. UNCHANGED <<transport, state, response>>
      BY <1>4, Zenon DEF EnqueueClose, lifeVars
    <2>3. Fits(t, Returned(t)) /\ Fits(t, "disconnect")
      BY DEF Returned, Fits
    <2>4. QED
      BY <1>4, <1>a, <2>1, <2>2, <2>3, Zenon DEF EnqueueClose, Refused
  <1>5. CASE HandleRead
    <2>1. UNCHANGED <<transport, state, response, unheralded>>
      BY <1>5 DEF HandleRead, lifeVars, historyVars
    <2>2. Fits("reader", "disconnect")
      BY DEF Fits
    <2>3. Fits("reader", CASE transport = "Detecting" -> "detect"
                           [] transport = "RawTcp"    -> "raw"
                           [] transport = "WebSocket" ->
                                  IF state = "Closing" THEN "post" ELSE "websocket")
      BY <1>0, Zenon DEF Fits
    <2>4. QED
      BY <1>0, <1>5, <1>a, <2>1, <2>2, <2>3 DEF HandleRead, Detected
  <1>6. CASE DetectNothing \/ ProcessRaw \/ PostRead
    <2>1. UNCHANGED <<transport, state, response, unheralded>>
      BY <1>6 DEF DetectNothing, ProcessRaw, PostRead, lifeVars, historyVars
    <2>2. Fits("reader", "disconnect") /\ Fits("reader", "post") /\ Fits("reader", "idle")
      BY DEF Fits
    <2>3. QED
      BY <1>0, <1>6, <1>a, <2>1, <2>2 DEF DetectNothing, ProcessRaw, PostRead, Detected
  <1>7. CASE WebSocketEvent
    <2>1. UNCHANGED <<transport, state, response>>
      BY <1>7 DEF WebSocketEvent, lifeVars
    <2>2. transport = "WebSocket"
      BY <1>0, <1>7, Zenon DEF WebSocketEvent, Step, Fits
    <2>3. \A to \in {"post", "turn", "pong", "websocket"} : Fits("reader", to)
      BY <2>2, Zenon DEF Fits
    <2>4. QED
      BY <1>0, <1>7, <1>a, <2>1, <2>2, <2>3 DEF WebSocketEvent, Refused
  <1>8. CASE HandlePong
    <2>1. UNCHANGED <<transport, state, response, unheralded>>
      BY <1>8, Zenon DEF HandlePong, lifeVars, historyVars
    <2>2. transport = "WebSocket"
      BY <1>0, <1>8, Zenon DEF HandlePong, Step, Fits
    <2>3. Fits("reader", "pong stamp") /\ Fits("reader", "websocket")
      BY <2>2 DEF Fits
    <2>4. QED
      BY <1>0, <1>8, <1>a, <2>1, <2>2, <2>3, Zenon DEF HandlePong
  <1>9. CASE DetectRaw
    <2>1. CASE Step("reader", "open raw", "raw")
      <3>1. transport = "RawTcp"
        BY <1>0, <2>1, Zenon DEF Step, Fits
      <3>2. Fits("reader", "raw") /\ UNCHANGED <<transport, response, unheralded>>
        BY <1>9, <2>1, <3>1, Zenon DEF Fits, DetectRaw, Step, historyVars
      <3>3. QED
        BY <1>0, <1>a, <2>1, <3>1, <3>2, Zenon
    <2>2. CASE Step("reader", "detect", "open raw")
      <3>1. /\ transport = "Detecting" /\ transport' = "RawTcp"
            /\ UNCHANGED <<state, response, unheralded>>
        BY <1>0, <1>9, <2>2, Zenon DEF Step, Fits, DetectRaw, historyVars
      <3>2. ASSUME NEW u \in Threads
            PROVE  Fits(u, pc[u])'
        BY <1>0, <2>2, <3>1, Zenon DEF Fits, Step, PlacesOK
      <3>3. QED
        BY <1>0, <3>1, <3>2 DEF Detected, UpgradeFirst
    <2>3. QED
      BY <1>9, <2>1, <2>2, Zenon DEF DetectRaw
  <1>10. CASE DetectWebSocket
    <2>1. CASE Step("reader", "open websocket", "websocket")
      <3>1. transport = "WebSocket"
        BY <1>0, <2>1, Zenon DEF Step, Fits
      <3>2. Fits("reader", "websocket") /\ UNCHANGED <<transport, response, unheralded>>
        BY <1>10, <2>1, <3>1, Zenon DEF Fits, DetectWebSocket, Step
      <3>3. QED
        BY <1>0, <1>a, <2>1, <3>1, <3>2, Zenon
    <2>2. CASE Step("reader", "to websocket", "open websocket")
      <3>1. /\ transport = "Detecting" /\ response # "none" /\ transport' = "WebSocket"
            /\ UNCHANGED <<state, response, unheralded>>
        BY <1>0, <1>10, <2>2, Zenon DEF Step, Fits, DetectWebSocket
      <3>2. ASSUME NEW u \in Threads
            PROVE  Fits(u, pc[u])'
        BY <1>0, <2>2, <3>1, Zenon DEF Fits, Step, PlacesOK
      <3>3. QED
        BY <1>0, <3>1, <3>2 DEF Detected, UpgradeFirst
    <2>3. CASE Step("reader", "detect", "to websocket")
      <3>1. /\ transport = "Detecting" /\ SendResponse
            /\ UNCHANGED <<state, transport, unheralded, disconnect_started>>
        BY <1>0, <1>10, <2>3, Zenon DEF Step, Fits, DetectWebSocket
      <3>a. response' # "none" /\ (response' = "disconnected" => disconnect_started')
        BY <3>1 DEF SendResponse
      <3>2. ASSUME NEW u \in Threads
            PROVE  Fits(u, pc[u])'
        BY <1>0, <2>3, <3>1, <3>a, Zenon DEF Fits, Step, PlacesOK
      <3>3. QED
        BY <3>1, <3>2, <3>a DEF Detected, UpgradeFirst
    <2>4. QED
      BY <1>10, <2>1, <2>2, <2>3, Zenon DEF DetectWebSocket
  <1>11. CASE WriterDisconnects
    <2>1. UNCHANGED <<transport, state, response, unheralded>>
      BY <1>11 DEF WriterDisconnects, lifeVars, historyVars
    <2>2. QED
      BY <1>0, <1>11, <1>a, <2>1, Zenon DEF WriterDisconnects, Detected, Fits
  <1>12. ASSUME NEW t \in Callers, Send(t) \/ Close(t)
         PROVE  Detected' /\ UpgradeFirst'
    <2>1. UNCHANGED <<transport, state, response>> /\ t \in Threads
      BY <1>0, <1>12 DEF Send, Close, lifeVars, historyVars
    <2>2. CASE Close(t)
      <3>1. Fits(t, IF transport = "WebSocket" THEN "turn" ELSE "disconnect")
        BY DEF Fits
      <3>2. UNCHANGED unheralded
        BY <2>2 DEF Close, historyVars
      <3>3. QED
        BY <1>a, <2>1, <2>2, <3>1, <3>2 DEF Close, Detected
    <2>3. CASE Send(t) /\ Step(t, "idle", "enqueue")
      <3>1. state = "Open" /\ UNCHANGED unheralded
        BY <2>3 DEF Send, Step, Refused
      <3>2. Fits(t, "enqueue")
        BY <3>1, Zenon DEF Fits, Detected
      <3>3. QED
        BY <1>a, <2>1, <2>3, <3>1, <3>2 DEF Detected
    <2>4. CASE Send(t) /\ Step(t, "enqueue", "end")
      <3>1. transport # "Detecting" /\ Fits(t, "end")
        BY <1>0, <2>1, <2>4, Zenon DEF Step, Fits
      <3>2. QED
        BY <1>a, <2>1, <2>4, <3>1 DEF Send, Refused, Detected
    <2>5. QED
      BY <1>12, <2>2, <2>3, <2>4 DEF Send
  <1>13. CASE TimerPing
    <2>1. transport = "WebSocket"
      BY <1>0, <1>13, Zenon DEF TimerPing, Step, Fits
    <2>2. UNCHANGED <<transport, state, response>>
      BY <1>13, Zenon DEF TimerPing, lifeVars
    <2>3. \A to \in {"idle", "ping stamp", "ping enqueue"} : Fits("timer", to)
      BY <2>1, Zenon DEF Fits
    <2>4. QED
      BY <1>0, <1>13, <1>a, <2>1, <2>2, <2>3, Zenon DEF TimerPing, Refused
  <1>14. CASE TimerAwaiting
    <2>1. UNCHANGED <<transport, state, response, unheralded>>
      BY <1>14 DEF TimerAwaiting, lifeVars, historyVars
    <2>2. Fits("timer", IF transport # "WebSocket" THEN "idle"
                        ELSE IF awaiting_pong THEN "pong" ELSE "ping")
      BY DEF Fits
    <2>3. QED
      BY <1>0, <1>14, <1>a, <2>1, <2>2 DEF TimerAwaiting, Detected
  <1>15. CASE TimerWakes \/ TimerState
    <2>1. UNCHANGED <<transport, state, response, unheralded>>
      BY <1>15 DEF TimerWakes, TimerState, lifeVars, historyVars
    <2>2. \A to \in {"idle", "state", "handshake", "close", "activity"} : Fits("timer", to)
      BY Zenon DEF Fits
    <2>3. CASE TimerWakes
      BY <1>0, <1>a, <2>1, <2>2, <2>3 DEF TimerWakes, Detected
    <2>4. CASE TimerState
      <3>1. (IF disconnect_started THEN "idle"
             ELSE CASE state = "Handshaking" -> "handshake"
                    [] state = "Closing"     -> "close"
                    [] state = "Open"        -> "activity"
                    [] state = "Closed"      -> "idle")
               \in {"idle", "state", "handshake", "close", "activity"}
        BY <1>0
      <3>2. QED
        BY <1>0, <1>a, <2>1, <2>2, <2>4, <3>1 DEF TimerState, Detected
    <2>5. QED
      BY <1>15, <2>3, <2>4
  <1>16. CASE TimerHandshake \/ TimerClose \/ TimerActivity \/ TimerPong
    <2>1. ASSUME NEW label, NEW late, NEW next \in {"idle", "awaiting"}, NEW just,
                 TimerCheck(label, late, next, just)
          PROVE  Detected' /\ UpgradeFirst'
      <3>1. UNCHANGED <<transport, state, response, unheralded>>
        BY <2>1 DEF TimerCheck, lifeVars
      <3>2. Fits("timer", IF late THEN "disconnect" ELSE next)
        BY <2>1, Zenon DEF Fits
      <3>3. QED
        BY <1>0, <1>a, <2>1, <3>1, <3>2 DEF TimerCheck, Detected
    <2>2. QED
      BY <1>16, <2>1 DEF TimerHandshake, TimerClose, TimerActivity, TimerPong
  <1>17. CASE Tick \/ UNCHANGED vars
    <2>1. UNCHANGED <<state, transport, response, unheralded, pc>>
      BY <1>17 DEF Tick, vars, lifeVars, historyVars
    <2>2. QED
      BY <1>0, <2>1, Zenon DEF Detected, Fits, UpgradeFirst
  <1>18. QED
    BY <1>1, <1>2, <1>3, <1>4, <1>5, <1>6, <1>7, <1>8, <1>9, <1>10, <1>11, <1>12, <1>13,
       <1>14, <1>15, <1>16, <1>17, Zenon
    DEF Next, Reader, Timer, Control

-----------------------------------------------------------------------------
(* Closing.                                                                *)

\* Whoever is about to end the session still is after a step that leaves none of
\* the places on the way to it.
LEMMA EndingStep ==
    ASSUME PlacesOK, NEW S \in SUBSET Threads, Ending(S),
           NEW t \in Threads, NEW from, NEW to, Step(t, from, to),
           from \in {"stamp", "enqueue close", "disconnect"} =>
               to \in {"stamp", "enqueue close", "disconnect"},
           (disconnect_started => disconnect_started') /\ (close_queued => close_queued')
    PROVE  Ending(S)'
  <1>1. ASSUME NEW u \in S, pc[u] \in {"stamp", "enqueue close", "disconnect"}
        PROVE  pc'[u] \in {"stamp", "enqueue close", "disconnect"}
    BY <1>1, Zenon DEF Step, PlacesOK
  <1> QED
    BY <1>1, Zenon DEF Ending

\* TurnClosing begins a Close, EnqueueClose queues its frame or goes on to
\* Disconnect, and the reader's store of Open meets only what a caller began.
LEMMA CloseBegunStep ==
    ASSUME TypeOK, PlacesOK, Detected, CloseBegun, [Next]_vars
    PROVE  CloseBegun'
  <1>0. /\ {"reader", "timer", "writer"} \subseteq Threads /\ Callers \in SUBSET Threads
        /\ \A t \in Callers : t \notin {"reader", "timer", "writer"}
        /\ \A t \in Threads : Fits(t, pc[t])
    BY ThreadsKnown DEF Detected
  <1>f. (disconnect_started => disconnect_started') /\ (close_queued => close_queued')
    BY FlagsStay
  <1>a. ASSUME NEW t \in Threads, NEW from, NEW to, Step(t, from, to), to # "open websocket",
               from \in {"stamp", "enqueue close", "disconnect"} =>
                   to \in {"stamp", "enqueue close", "disconnect"},
               UNCHANGED <<transport, closing_for>>,
               state' = "Open" => state = "Open" \/ pc["reader"] = "open websocket"
        PROVE  CloseBegun'
    <2>1. \A S \in SUBSET Threads : Ending(S) => Ending(S)'
      BY <1>a, <1>f, EndingStep
    <2>2. pc'["reader"] = "open websocket" => pc["reader"] = "open websocket"
      BY <1>0, <1>a, Zenon DEF Step, PlacesOK
    <2> QED
      BY <1>0, <1>a, <2>1, <2>2, Zenon DEF CloseBegun
  <1>d. ASSUME disconnect_started' \/ close_queued', UNCHANGED <<transport, closing_for>>
        PROVE  CloseBegun'
    BY <1>d, Zenon DEF CloseBegun, Ending
  <1>1. ASSUME NEW t \in Threads, Disconnect(t)
        PROVE  CloseBegun'
    <2>1. UNCHANGED <<transport, closing_for>> /\ (state' = "Open" => state = "Open")
      BY <1>1, Zenon DEF Disconnect, historyVars
    <2>2. CASE disconnect_started'
      BY <1>d, <2>1, <2>2
    <2>3. CASE Step(t, "closed", "remove") \/ Step(t, "remove", Ended(t))
      BY <1>a, <2>1, <2>3 DEF Ended
    <2> QED
      BY <1>1, <2>2, <2>3, Zenon DEF Disconnect
  <1>2. ASSUME NEW t \in Threads, TurnClosing(t)
        PROVE  CloseBegun'
    <2>1. transport' = transport /\ pc[t] = "turn"
      BY <1>2 DEF TurnClosing, Step
    <2>2. transport = "WebSocket" /\ t \in Callers \cup {"reader"}
      BY <1>0, <2>1, Zenon DEF Fits
    <2>3. CASE Step(t, "turn", Returned(t)) /\ UNCHANGED <<state, closing_for>>
      BY <1>a, <2>1, <2>3 DEF Returned
    <2>4. CASE Step(t, "turn", "stamp") /\ state' = "Closing"
      <3>1. pc'[t] = "stamp" /\ \A u \in Threads \ {t} : pc'[u] = pc[u]
        BY <2>4, Zenon DEF Step, PlacesOK
      <3>2. Ending(Threads)'
        BY <3>1, Zenon DEF Ending
      <3>3. t \in Callers => Ending(Callers)'
        BY <3>1, Zenon DEF Ending
      <3>4. pc'["reader"] = "open websocket" => t \in Callers
        BY <2>2, <3>1
      <3> QED
        BY <2>1, <2>2, <2>4, <3>2, <3>3, <3>4 DEF CloseBegun
    <2> QED
      BY <1>2, <2>3, <2>4, Zenon DEF TurnClosing
  <1>3. ASSUME NEW t \in Threads, StampClosing(t) \/ EnqueueClose(t)
        PROVE  CloseBegun'
    <2>1. UNCHANGED <<transport, closing_for, state>>
      BY <1>3, Zenon DEF StampClosing, EnqueueClose, lifeVars, historyVars
    <2>2. CASE Step(t, "stamp", "enqueue close") \/ Step(t, "enqueue close", "disconnect")
      BY <1>a, <2>1, <2>2
    <2>3. CASE close_queued'
      BY <1>d, <2>1, <2>3
    <2> QED
      BY <1>3, <2>2, <2>3, Zenon DEF StampClosing, EnqueueClose
  <1>4. CASE HandleRead \/ DetectNothing \/ ProcessRaw \/ WebSocketEvent \/ HandlePong \/ PostRead
    <2>1. UNCHANGED <<transport, closing_for, state>>
      BY <1>4
      DEF HandleRead, DetectNothing, ProcessRaw, WebSocketEvent, HandlePong, PostRead, lifeVars,
          historyVars
    <2>2. \E from \in {"idle", "detect", "raw", "websocket", "pong", "pong stamp", "post"},
             to \in Places \ {"open websocket"} : Step("reader", from, to)
      <3>1. CASE HandleRead
        BY <3>1, TypesInFull DEF HandleRead, Places
      <3>2. CASE DetectNothing \/ ProcessRaw \/ WebSocketEvent \/ HandlePong \/ PostRead
        BY <3>2 DEF DetectNothing, ProcessRaw, WebSocketEvent, HandlePong, PostRead, Places
      <3> QED
        BY <1>4, <3>1, <3>2
    <2> QED
      BY <1>0, <1>a, <2>1, <2>2
  <1>5. CASE DetectRaw \/ (DetectWebSocket /\ Step("reader", "detect", "to websocket"))
    <2>1. pc["reader"] \in {"detect", "open raw"} /\ UNCHANGED closing_for
      BY <1>5, Zenon DEF DetectRaw, DetectWebSocket, Step, historyVars
    <2>2. closing_for = Never
      BY <1>0, <2>1, Zenon DEF Fits, CloseBegun
    <2> QED
      BY <2>1, <2>2 DEF CloseBegun
  <1>6. CASE DetectWebSocket /\ Step("reader", "to websocket", "open websocket")
    <2>1. pc["reader"] = "to websocket" /\ UNCHANGED closing_for
      BY <1>6, Zenon DEF DetectWebSocket, Step
    <2>2. closing_for = Never
      BY <1>0, <2>1, Zenon DEF Fits, CloseBegun
    <2> QED
      BY <2>1, <2>2 DEF CloseBegun
  <1>7. CASE DetectWebSocket /\ Step("reader", "open websocket", "websocket")
    <2>1. pc["reader"] = "open websocket" /\ UNCHANGED <<transport, closing_for>>
      BY <1>7, Zenon DEF DetectWebSocket, Step
    <2> QED
      BY <1>0, <1>7, <1>a, <2>1
  <1>8. CASE Timer
    <2>1. UNCHANGED <<transport, closing_for, state>>
      BY <1>8
      DEF Timer, TimerWakes, TimerState, TimerAwaiting, TimerPing, TimerHandshake, TimerClose,
          TimerActivity, TimerPong, TimerCheck, lifeVars, historyVars
    <2>2. ASSUME NEW from \in Places \ {"stamp", "enqueue close", "disconnect"},
                 NEW to \in Places \ {"open websocket"}, Step("timer", from, to)
          PROVE  CloseBegun'
      BY <1>0, <1>a, <2>1, <2>2
    <2>3. CASE TimerWakes \/ TimerAwaiting \/ TimerPing
      BY <2>2, <2>3 DEF TimerWakes, TimerAwaiting, TimerPing, Places
    <2>4. CASE TimerState
      BY <2>2, <2>4, TypesInFull DEF TimerState, Places
    <2>5. CASE TimerHandshake \/ TimerClose \/ TimerActivity \/ TimerPong
      BY <2>2, <2>5
      DEF TimerHandshake, TimerClose, TimerActivity, TimerPong, TimerCheck, Places
    <2> QED
      BY <1>8, <2>3, <2>4, <2>5 DEF Timer
  <1>9. CASE WriterDisconnects
    BY <1>0, <1>9, <1>a DEF WriterDisconnects, lifeVars, historyVars
  <1>10. ASSUME NEW t \in Callers, Send(t) \/ Close(t)
         PROVE  CloseBegun'
    <2>1. UNCHANGED <<transport, closing_for, state>> /\ t \in Threads
      BY <1>0, <1>10 DEF Send, Close, lifeVars, historyVars
    <2>2. \E from \in {"idle", "enqueue"}, to \in {"enqueue", "end", "turn", "disconnect"} :
             Step(t, from, to)
      BY <1>10 DEF Send, Close
    <2> QED
      BY <1>a, <2>1, <2>2
  <1>11. CASE Tick \/ UNCHANGED vars
    <2>1. UNCHANGED <<transport, state, pc, disconnect_started, close_queued>>
      BY <1>11 DEF Tick, vars, lifeVars, historyVars
    <2>2. closing_for' # Never => closing_for # Never
      BY <1>11 DEF Tick, vars, historyVars, Grow
    <2> QED
      BY <2>1, <2>2, Zenon DEF CloseBegun, Ending
  <1> QED
    BY <1>1, <1>2, <1>3, <1>4, <1>5, <1>6, <1>7, <1>8, <1>9, <1>10, <1>11, Zenon
    DEF Next, Reader, Control, DetectWebSocket

-----------------------------------------------------------------------------
(* The theorems.                                                           *)

\* Every reachable state of a session satisfies the inductive invariant.
THEOREM SessionCorrect == Spec => []SessionInv
  <1>1. ASSUME SessionInv, [Next]_vars
        PROVE  SessionInv'
    BY <1>1, PlacesStep, TypesStep, CloseStampedStep, PongStampedStep, NotEarlyStep,
       DetectedStep, CloseBegunStep
    DEF SessionInv
  <1>2. QED
    BY <1>1, SessionInit, PTL DEF Spec

\* The fields of a session keep their types, whatever its threads do.
THEOREM SessionTypes == Spec => []TypeOK
  BY SessionCorrect, PTL DEF SessionInv

\* TimerLoop drops no session early, for every timeout and every length of a
\* pass: not by its handshake and idle timers at all, by the pong timer by no more
\* than a pass, and by the close timer only before close_started_ms is stored.
THEOREM NoTimerEarly == Spec => []TimersNotEarly
  BY SessionCorrect, PTL DEF SessionInv

\* Send, Close and the timer's ping have nothing accepted for a WebSocket peer before
\* Enqueue answered for the 101 response, for every set of callers; and nothing
\* without that response unless it was refused for want of room.
THEOREM ResponseFirst == Spec => []UpgradeFirst
  BY SessionCorrect, PTL DEF SessionInv

\* A Close once begun ends the session, for every set of callers: its frame is
\* queued, somebody is on the way to Disconnect or it is begun, also where the
\* reader's store of Open overwrote Closing, which only a caller's Close can meet.
THEOREM ClosesSurvive == Spec => []CloseKept
  <1>1. SessionInv => CloseKept
    <2> SUFFICES ASSUME SessionInv, closing_for # Never
                 PROVE  Ending(IF state = "Open" THEN DOMAIN pc \ {"reader", "timer", "writer"}
                               ELSE DOMAIN pc)
      BY DEF CloseKept
    <2>1. DOMAIN pc = Threads /\ DOMAIN pc \ {"reader", "timer", "writer"} = Callers
      BY SessionAssumption DEF SessionInv, PlacesOK, Threads
    <2> QED
      BY <2>1, Zenon DEF SessionInv, CloseBegun
  <1>2. QED
    BY <1>1, SessionCorrect, PTL

-----------------------------------------------------------------------------
(* Detection.                                                              *)

\* The interval 1 .. n has n elements.
LEMMA IntervalSize ==
    ASSUME NEW n \in Nat
    PROVE  IsFiniteSet(1 .. n) /\ Cardinality(1 .. n) = n
  <1>1. IsFiniteSet(1 .. n) /\ Cardinality(1 .. n) = IF 1 > n THEN 0 ELSE n - 1 + 1
    BY FS_Interval, 1 \in Int, n \in Int, Zenon
  <1>2. QED
    BY <1>1

Headers == Seq([name : STRING, good : BOOLEAN])

\* There are as many names as lines exactly if no two lines have the same.
LEMMA NamesDiffer ==
    ASSUME NEW lines \in Headers
    PROVE  Cardinality({line.name : line \in Range(lines)}) = Len(lines)
               <=> \A i, j \in 1 .. Len(lines) : lines[i].name = lines[j].name => i = j
  <1> DEFINE n == Len(lines)
             I == 1 .. n
             T == {line.name : line \in Range(lines)}
             f == [i \in I |-> lines[i].name]
  <1>1. n \in Nat /\ DOMAIN lines = I
    BY DEF Headers
  <1>2. IsFiniteSet(I) /\ Cardinality(I) = n
    BY <1>1, IntervalSize
  <1>3. T = {lines[i].name : i \in I}
    BY <1>1, Zenon DEF Range
  <1> HIDE DEF T, n, I
  <1>4. f \in [I -> T] /\ \A t \in T : \E i \in I : f[i] = t
    BY <1>3, Zenon
  <1>5. f \in Surjection(I, T)
    BY <1>4, Zenon DEF Surjection
  <1>6. f \in Injection(I, T) <=> \A i, j \in I : lines[i].name = lines[j].name => i = j
    BY <1>4, Zenon DEF Injection, IsInjective
  <1> HIDE DEF f
  <1>7. Cardinality(T) = Cardinality(I) <=> f \in Injection(I, T)
    BY <1>2, <1>5, FS_Surjection, Zenon
  <1> QED
    BY <1>2, <1>6, <1>7, Zenon DEF T, n, I

\* ParseHandshake accepts what deserves it.
LEMMA AcceptedDeserves ==
    ASSUME NEW request, request.get \in BOOLEAN, request.lines \in Headers
    PROVE  /\ Answer(request) \in {"101", "400", "403"}
           /\ Answer(request) = "101" <=> Deserves(request)
  <1> DEFINE lines == request.lines
             names == {line.name : line \in Range(lines)}
             good == {line.name : line \in {l \in Range(lines) : l.good}}
  <1>1. Len(lines) \in Nat /\ DOMAIN lines = 1 .. Len(lines)
    BY DEF Headers
  <1>2. Cardinality(names) = Len(lines)
            <=> \A i, j \in 1 .. Len(lines) : lines[i].name = lines[j].name => i = j
    BY NamesDiffer, Zenon
  <1>3. "no colon" \in names <=> \E i \in DOMAIN lines : lines[i].name = "no colon"
    BY Zenon DEF Range
  <1>4. ASSUME NEW name PROVE Has(lines, name) <=> name \in good
    BY Zenon DEF Has, Range
  <1> HIDE DEF lines, names, good
  <1>5. (\A i, j \in 1 .. Len(lines) : lines[i].name = lines[j].name => i = j)
            <=> \A i \in 1 .. Len(lines) : \A j \in 1 .. i - 1 : lines[j].name # lines[i].name
    <2>1. ASSUME \A i, j \in 1 .. Len(lines) : lines[i].name = lines[j].name => i = j,
                 NEW i \in 1 .. Len(lines), NEW j \in 1 .. i - 1
          PROVE  lines[j].name # lines[i].name
      <3>1. j \in 1 .. Len(lines) /\ i # j
        BY <1>1
      <3> QED
        BY <2>1, <3>1, Zenon
    <2>2. ASSUME \A i \in 1 .. Len(lines) : \A j \in 1 .. i - 1 : lines[j].name # lines[i].name,
                 NEW i \in 1 .. Len(lines), NEW j \in 1 .. Len(lines),
                 lines[i].name = lines[j].name
          PROVE  i = j
      <3>1. i = j \/ j \in 1 .. i - 1 \/ i \in 1 .. j - 1
        BY <1>1
      <3> QED
        BY <2>2, <3>1, Zenon
    <2> QED
      BY <2>1, <2>2, Zenon
  <1>6. WellFormed(lines) <=> Cardinality(names) = Len(lines) /\ "no colon" \notin names
    BY <1>1, <1>2, <1>3, <1>5, Zenon DEF WellFormed
  <1>7. (\A name \in Required : Has(lines, name)) <=> Required \subseteq good
    BY <1>4, Zenon
  <1>8. OriginValid(lines)
            <=> "origin" \in good \/ (EmptyOriginValid /\ "origin" \notin names)
    <2>1. "origin" \in names <=> \E i \in DOMAIN lines : lines[i].name = "origin"
      BY Zenon DEF Range, names
    <2> QED
      BY <1>4, <2>1, Zenon DEF OriginValid
  <1>9. Deserves(request) <=>
            /\ request.get /\ WellFormed(lines) /\ \A name \in Required : Has(lines, name)
            /\ CheckOrigin => OriginValid(lines)
    <2>1. Deserves(request) <=>
              /\ request.get /\ Cardinality(names) = Len(lines) /\ "no colon" \notin names
              /\ Required \subseteq good
              /\ CheckOrigin =>
                     "origin" \in good \/ (EmptyOriginValid /\ "origin" \notin names)
      BY Zenon DEF Deserves, Required, lines, names, good
    <2> QED
      BY <1>6, <1>7, <1>8, <2>1, Zenon
  <1> QED
    BY <1>9 DEF Answer, lines

\* What holds between two reads: the rest of DetectionExact, and what is answered.
DetectionInv ==
    /\ stream \in Streams /\ DetectionExact
    /\ answers \in Seq({"101", "400", "403", "431"})
    /\ \A i \in 1 .. Len(answers) : answers[i] = "101" => chosen = "WebSocket"

\* What is known of a stream.
LEMMA StreamFacts ==
    ASSUME stream \in Streams
    PROVE  /\ stream.matched \in 0 .. 4 /\ stream.size \in Nat /\ stream.headers \in Nat
           /\ stream.request.get \in BOOLEAN /\ stream.request.lines \in Headers
           /\ MaxHandshake \in Nat /\ PrefixSize = 4
  BY DetectionAssumption, Zenon DEF Headers, PrefixSize

\* Bytes that may be a request are one, or too few to tell.
LEMMA PossibleMeans ==
    ASSUME stream \in Streams, NEW n \in Nat
    PROVE  PossibleHttp(n) <=> Http \/ n <= stream.matched
  BY StreamFacts DEF PossibleHttp, Http, Smaller, PrefixSize

\* A read that leaves the transport and the answers as they are.
LEMMA ReadWaits ==
    ASSUME DetectionInv, NEW n \in ReadSizes, arrived + n <= stream.size,
           arrived' = arrived + n, stream' = stream, chosen = "Detecting",
           UNCHANGED <<chosen, handed, answers>>, disconnected' \in BOOLEAN,
           disconnected' = FALSE => PossibleHttp(arrived + n)
    PROVE  DetectionInv'
  <1>1. /\ arrived \in Nat /\ n \in Nat /\ MaxHandshake \in Nat /\ stream.size \in Nat
        /\ handed \in 0 .. arrived /\ stream \in Streams
    BY StreamFacts, DetectionAssumption DEF DetectionInv, DetectionExact, DetectionTypeOK
  <1>2. arrived' \in 0 .. stream.size /\ handed \in 0 .. arrived' /\ arrived <= arrived'
    BY <1>1
  <1>3. DetectionTypeOK'
    BY <1>2, Zenon DEF DetectionInv, DetectionExact, DetectionTypeOK
  <1>4. Http' = Http
    BY Zenon DEF Http
  <1>5. SettledOneWay'
    <2>1. ~disconnected' => Http \/ arrived' <= stream.matched
      BY <1>1, PossibleMeans
    <2> QED
      BY <1>4, <2>1, Zenon DEF SettledOneWay
  <1>6. AnswerStands'
    <2>1. \A i \in DOMAIN answers :
              /\ answers[i] = "101" => Deserves(stream.request) /\ Len(answers) = 1
              /\ answers[i] \in {"400", "403"} => ~Deserves(stream.request)
              /\ answers[i] = "431" => arrived > MaxHandshake
      BY Zenon DEF DetectionInv, DetectionExact, AnswerStands
    <2>2. arrived > MaxHandshake => arrived' > MaxHandshake
      BY <1>1
    <2> QED
      BY <2>1, <2>2, Zenon DEF AnswerStands, Deserves
  <1>7. NoByteLost'
    <2>1. handed = 0
      BY DEF DetectionInv, DetectionExact, NoByteLost
    <2> QED
      BY <2>1 DEF NoByteLost
  <1> QED
    BY <1>1, <1>3, <1>5, <1>6, <1>7, Zenon DEF DetectionInv, DetectionExact

\* A read that settles it for raw TCP.
LEMMA ReadRaw ==
    ASSUME DetectionInv, NEW n \in ReadSizes, arrived + n <= stream.size,
           arrived' = arrived + n, stream' = stream, chosen = "Detecting",
           ~PossibleHttp(arrived + n), Choose("RawTcp", arrived + n), answers' = answers
    PROVE  DetectionInv'
  <1>1. /\ arrived \in Nat /\ n \in Nat /\ MaxHandshake \in Nat /\ stream.size \in Nat
        /\ stream \in Streams /\ disconnected \in BOOLEAN
    BY StreamFacts, DetectionAssumption DEF DetectionInv, DetectionExact, DetectionTypeOK
  <1>2. chosen' = "RawTcp" /\ handed' = arrived' /\ disconnected' = disconnected
    BY Zenon DEF Choose
  <1>3. arrived' \in 0 .. stream.size /\ handed' \in 0 .. arrived'
    BY <1>1, <1>2
  <1>4. DetectionTypeOK'
    BY <1>1, <1>2, <1>3, Zenon DEF DetectionTypeOK
  <1>5. SettledOneWay'
    <2>1. ~Http
      BY <1>1, PossibleMeans
    <2>2. ~Http'
      BY <2>1, Zenon DEF Http
    <2> QED
      BY <1>2, <2>2 DEF SettledOneWay
  <1>6. AnswerStands'
    <2>1. \A i \in DOMAIN answers :
              /\ answers[i] = "101" => Deserves(stream.request) /\ Len(answers) = 1
              /\ answers[i] \in {"400", "403"} => ~Deserves(stream.request)
              /\ answers[i] = "431" => arrived > MaxHandshake
      BY Zenon DEF DetectionInv, DetectionExact, AnswerStands
    <2>2. arrived > MaxHandshake => arrived' > MaxHandshake
      BY <1>1
    <2> QED
      BY <2>1, <2>2, Zenon DEF AnswerStands, Deserves
  <1>7. NoByteLost'
    BY <1>2 DEF NoByteLost
  <1>8. \A i \in 1 .. Len(answers) : answers[i] # "101"
    BY DEF DetectionInv
  <1> QED
    BY <1>1, <1>4, <1>5, <1>6, <1>7, <1>8, Zenon DEF DetectionInv, DetectionExact

\* A read that completes a request is answered as the request deserves, unless it is
\* too long, and once rejected always rejected.
LEMMA ReadAnswered ==
    ASSUME DetectionInv, NEW n \in ReadSizes, arrived + n <= stream.size,
           arrived' = arrived + n, stream' = stream, chosen = "Detecting",
           PossibleHttp(arrived + n), arrived + n >= PrefixSize,
           NEW answer \in {"101", "400", "403", "431"}, ParseHandshake(arrived + n) = answer,
           answers' = Append(answers, answer),
           answer = "101" => Choose("WebSocket", (arrived + n) - stream.headers),
           answer # "101" => disconnected' \in BOOLEAN /\ UNCHANGED <<chosen, handed>>
    PROVE  DetectionInv'
  <1>1. /\ arrived \in Nat /\ n \in Nat /\ MaxHandshake \in Nat /\ stream.size \in Nat
        /\ handed \in 0 .. arrived /\ stream \in Streams /\ disconnected \in BOOLEAN
    BY StreamFacts, DetectionAssumption DEF DetectionInv, DetectionExact, DetectionTypeOK
  <1>2. stream.headers \in Nat /\ stream.matched \in 0 .. 4
    BY <1>1, StreamFacts
  <1>3. Http
    BY <1>1, <1>2, PossibleMeans DEF Http, PrefixSize
  <1>4. /\ answer = "431" => arrived' > MaxHandshake
        /\ answer # "431" => /\ arrived' <= MaxHandshake /\ stream.headers <= arrived'
                             /\ answer = Answer(stream.request)
    <2>1. Answer(stream.request) \in {"101", "400", "403"}
      <3>1. stream.request.get \in BOOLEAN /\ stream.request.lines \in Headers
        BY <1>1, StreamFacts, Zenon
      <3> QED
        BY <3>1, AcceptedDeserves
    <2> QED
      BY <1>1, <1>2, <2>1 DEF ParseHandshake
  <1>5. /\ answer = "101" => Deserves(stream.request)
        /\ answer \in {"400", "403"} => ~Deserves(stream.request)
    BY <1>1, <1>4, StreamFacts, AcceptedDeserves
  <1>6. answers \in Seq({"101", "400", "403", "431"})
    BY Zenon DEF DetectionInv
  <1>7. \A i \in DOMAIN answers :
            /\ answers[i] = "101" => Deserves(stream.request) /\ Len(answers) = 1
            /\ answers[i] \in {"400", "403"} => ~Deserves(stream.request)
            /\ answers[i] = "431" => arrived > MaxHandshake
    BY Zenon DEF DetectionInv, DetectionExact, AnswerStands
  <1>8. \A i \in 1 .. Len(answers) : answers[i] # "101"
    BY DEF DetectionInv
  <1>9. arrived > MaxHandshake => arrived' > MaxHandshake
    BY <1>1
  <1>10. answer = "101" => Len(answers) = 0
    <2>1. ASSUME answer = "101", Len(answers) # 0 PROVE FALSE
      <3>1. 1 \in 1 .. Len(answers) /\ 1 \in DOMAIN answers
            /\ answers[1] \in {"101", "400", "403", "431"}
        BY <1>6, <2>1
      <3>2. ~(arrived' > MaxHandshake)
        BY <1>1, <1>4, <2>1
      <3> QED
        BY <1>5, <1>7, <1>8, <1>9, <2>1, <3>1, <3>2, Zenon
    <2> QED
      BY <2>1, Zenon
  <1>11. /\ answers' \in Seq({"101", "400", "403", "431"}) /\ Len(answers') = Len(answers) + 1
         /\ \A i \in 1 .. Len(answers) : answers'[i] = answers[i]
         /\ answers'[Len(answers) + 1] = answer
    BY <1>6
  <1>12. Http' = Http /\ Deserves(stream.request)' = Deserves(stream.request)
    BY Zenon DEF Http, Deserves
  <1>13. /\ answer = "101" => /\ chosen' = "WebSocket" /\ disconnected' = disconnected
                              /\ handed' = arrived' - stream.headers
         /\ answer # "101" => chosen' = "Detecting" /\ handed' = 0
    <2>1. handed = 0
      BY DEF DetectionInv, DetectionExact, NoByteLost
    <2>2. ASSUME answer # "101" PROVE chosen' = "Detecting" /\ handed' = 0
      <3>1. UNCHANGED <<chosen, handed>>
        BY <2>2, Zenon
      <3> QED
        BY <2>1, <3>1, Zenon
    <2>3. ASSUME answer = "101"
          PROVE  /\ chosen' = "WebSocket" /\ disconnected' = disconnected
                 /\ handed' = arrived' - stream.headers
      <3>1. Choose("WebSocket", (arrived + n) - stream.headers)
        BY <2>3, Zenon
      <3>2. /\ chosen' = "WebSocket" /\ disconnected' = disconnected
            /\ handed' = (arrived + n) - stream.headers
        BY <3>1, Zenon DEF Choose
      <3> QED
        BY <3>2
    <2> QED
      BY <2>2, <2>3, Zenon
  <1>14. DetectionTypeOK'
    <2>1. arrived' \in 0 .. stream.size /\ handed' \in 0 .. arrived'
      BY <1>1, <1>2, <1>4, <1>13
    <2>2. disconnected' \in BOOLEAN /\ chosen' \in {"Detecting", "RawTcp", "WebSocket"}
      BY <1>1, <1>13, Zenon
    <2> QED
      BY <2>1, <2>2, Zenon DEF DetectionTypeOK
  <1>15. SettledOneWay'
    BY <1>3, <1>5, <1>12, <1>13 DEF SettledOneWay
  <1>16. AnswerStands'
    <2>1. DOMAIN answers' = 1 .. Len(answers) + 1 /\ Len(answers) \in Nat
          /\ DOMAIN answers = 1 .. Len(answers)
      BY <1>6, <1>11
    <2>2. ASSUME NEW i \in DOMAIN answers'
          PROVE  /\ answers'[i] = "101" => Deserves(stream.request) /\ Len(answers') = 1
                 /\ answers'[i] \in {"400", "403"} => ~Deserves(stream.request)
                 /\ answers'[i] = "431" => arrived' > MaxHandshake
      <3>1. i \in 1 .. Len(answers) \/ i = Len(answers) + 1
        BY <2>1
      <3>2. CASE i \in 1 .. Len(answers)
        BY <1>7, <1>8, <1>9, <1>11, <2>1, <3>2, Zenon
      <3>3. CASE i = Len(answers) + 1
        <4>1. answer = "101" => Len(answers') = 1
          BY <1>10, <1>11
        <4> QED
          BY <1>4, <1>5, <1>11, <3>3, <4>1, Zenon
      <3> QED
        BY <3>1, <3>2, <3>3, Zenon
    <2> QED
      BY <1>12, <2>2, Zenon DEF AnswerStands
  <1>17. NoByteLost'
    <2>1. CASE answer = "101"
      <3>1. arrived' \in Nat /\ handed' = arrived' - stream.headers /\ chosen' = "WebSocket"
        BY <1>1, <1>13, <2>1
      <3>2. stream'.headers + handed' = arrived'
        BY <1>2, <3>1
      <3> QED
        BY <3>1, <3>2 DEF NoByteLost
    <2>2. CASE answer # "101"
      BY <1>13, <2>2 DEF NoByteLost
    <2> QED
      BY <2>1, <2>2, Zenon
  <1>18. \A i \in 1 .. Len(answers') : answers'[i] = "101" => chosen' = "WebSocket"
    <2>1. \A i \in 1 .. Len(answers') : i \in 1 .. Len(answers) \/ i = Len(answers) + 1
      BY <1>6, <1>11
    <2> QED
      BY <1>8, <1>11, <1>13, <2>1, Zenon
  <1> QED
    BY <1>1, <1>11, <1>14, <1>15, <1>16, <1>17, <1>18, Zenon DEF DetectionInv, DetectionExact

\* A session has received and answered nothing at first.
LEMMA DetectionInitInv ==
    ASSUME DetectionInit
    PROVE  DetectionInv
  <1>1. /\ stream \in Streams /\ arrived = 0 /\ chosen = "Detecting" /\ handed = 0
        /\ answers = <<>> /\ disconnected = FALSE
    BY Zenon DEF DetectionInit
  <1>2. stream.size \in Nat /\ stream.matched \in Nat
    BY <1>1, StreamFacts
  <1>3. DetectionTypeOK
    <2>1. 0 \in 0 .. stream.size /\ 0 \in 0 .. 0
      BY <1>2
    <2> QED
      BY <1>1, <2>1, Zenon DEF DetectionTypeOK
  <1>4. SettledOneWay /\ NoByteLost
    BY <1>1, <1>2 DEF SettledOneWay, NoByteLost
  <1>5. AnswerStands
    BY <1>1 DEF AnswerStands
  <1>6. Len(answers) = 0 /\ answers \in Seq({"101", "400", "403", "431"})
    BY <1>1
  <1> QED
    BY <1>1, <1>3, <1>4, <1>5, <1>6 DEF DetectionInv, DetectionExact

\* Every read keeps the invariant.
LEMMA DetectionStep ==
    ASSUME DetectionInv, [DetectionNext]_detectionVars
    PROVE  DetectionInv'
  <1>1. ASSUME NEW n \in ReadSizes, Read(n) PROVE DetectionInv'
    <2>1. /\ chosen = "Detecting" /\ ~disconnected /\ arrived + n <= stream.size
          /\ arrived' = arrived + n /\ stream' = stream /\ ProcessDetection(arrived + n)
      BY <1>1, Zenon DEF Read
    <2>2. disconnected \in BOOLEAN
      BY Zenon DEF DetectionInv, DetectionExact, DetectionTypeOK
    <2>3. CASE disconnected' = TRUE /\ UNCHANGED <<chosen, handed, answers>>
      BY <2>1, <2>3, ReadWaits
    <2>4. CASE ~PossibleHttp(arrived + n) /\ Choose("RawTcp", arrived + n) /\ UNCHANGED answers
      BY <2>1, <2>4, ReadRaw, Zenon
    <2>5. CASE PossibleHttp(arrived + n) /\ UNCHANGED <<chosen, handed, answers, disconnected>>
      BY <2>1, <2>2, <2>5, ReadWaits, Zenon
    <2>6. CASE /\ PossibleHttp(arrived + n) /\ arrived + n >= PrefixSize
               /\ ParseHandshake(arrived + n) = "101" /\ Upgrade(arrived + n)
      <3>1. PICK answer \in {"101", "400", "403", "431"} : answer = "101"
        OBVIOUS
      <3> QED
        <4>1. /\ answers' = Append(answers, answer) /\ ParseHandshake(arrived + n) = answer
              /\ Choose("WebSocket", (arrived + n) - stream.headers)
          BY <2>6, <3>1 DEF Upgrade
        <4>2. answer # "101" => disconnected' \in BOOLEAN /\ UNCHANGED <<chosen, handed>>
          BY <3>1, Zenon
        <4> QED
          BY <2>1, <2>6, <4>1, <4>2, ReadAnswered, Zenon
    <2>7. CASE /\ PossibleHttp(arrived + n) /\ arrived + n >= PrefixSize
               /\ ParseHandshake(arrived + n) \in {"400", "403", "431"} /\ Reject(arrived + n)
      <3>1. PICK answer \in {"400", "403", "431"} : ParseHandshake(arrived + n) = answer
        BY <2>7, Zenon
      <3>2. answer # "101" /\ answer \in {"101", "400", "403", "431"}
        OBVIOUS
      <3>3. /\ answers' = Append(answers, answer) /\ disconnected' \in BOOLEAN
            /\ UNCHANGED <<chosen, handed>>
        BY <2>7, <3>1, Zenon DEF Reject
      <3> QED
        BY <2>1, <2>7, <3>1, <3>2, <3>3, ReadAnswered, Zenon
    <2> QED
      BY <2>1, <2>3, <2>4, <2>5, <2>6, <2>7, Zenon DEF ProcessDetection
  <1>2. ASSUME UNCHANGED detectionVars PROVE DetectionInv'
    <2>1. UNCHANGED <<stream, arrived, chosen, handed, answers, disconnected>>
      BY <1>2, Zenon DEF detectionVars
    <2>2. DetectionExact' = DetectionExact
      BY <2>1 DEF DetectionExact, DetectionTypeOK, SettledOneWay, AnswerStands, NoByteLost,
                  Http, Deserves
    <2> QED
      BY <2>1, <2>2, Zenon DEF DetectionInv
  <1> QED
    BY <1>1, <1>2, Zenon DEF DetectionNext

\* For every stream, every way to cut it into reads, and all limits.
THEOREM DetectionSettles == DetectionSpec => []DetectionExact
  <1>1. DetectionInv => DetectionExact
    BY Zenon DEF DetectionInv
  <1> QED
    BY <1>1, DetectionInitInv, DetectionStep, PTL DEF DetectionSpec
=============================================================================
