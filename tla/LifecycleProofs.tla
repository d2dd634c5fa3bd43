-------------------------- MODULE LifecycleProofs --------------------------
(***************************************************************************)
(* Start, Stop, HandleAccept, HandleRead and Disconnect, for any number of *)
(* accepts and sessions and any limit on connections.                      *)
(***************************************************************************)
EXTENDS Lifecycle, TLAPS

\* SMT is tried first and Zenon next, except where a leaf names Zenon.
USE SMTT(30), ZenonT(20)

\* The worker that is setting s up has not gone on to its read.
SettingUp(s) == \E a \in Accepts : serving[a] = s /\ accept[a] \in {"count", "read"}
Uncounted(s) == \E a \in Accepts : serving[a] = s /\ accept[a] = "count"

\* A worker in HandleAccept serves a session of its own, once it inserted it.
AcceptShape ==
    /\ \A a \in Accepts :
           /\ accept[a] \in {"count", "read"} => serving[a] \in Sessions
           /\ accept[a] \notin {"count", "read", "rearm"} => serving[a] = NoSession
           /\ serving[a] \in Sessions => ~Fresh(serving[a])
           /\ accept[a] \in {"count", "read"} => read[serving[a]] = "none"
    /\ \A a, b \in Accepts : serving[a] = serving[b] /\ serving[a] # NoSession => a = b

\* A session is in the registry from Insert until Disconnect removes it.
RegistryShape ==
    \A s \in Sessions :
        /\ s \in registry => disconnect[s] \in {"no", "started"}
        /\ disconnect[s] = "started" => s \in registry
        /\ disconnect[s] = "no" /\ (read[s] # "none" \/ s \in snapshot) => s \in registry

\* The callbacks go with the counting: OnConnect with active_connections + 1 and
\* OnDisconnect with - 1.
CallbackShape ==
    \A s \in Sessions :
        /\ connects[s] = IF Fresh(s) \/ Uncounted(s) THEN 0 ELSE 1
        /\ disconnects[s] = IF disconnect[s] = "done" THEN 1 ELSE 0

\* Somebody runs every Disconnect that started.
DisconnectShape ==
    /\ \A s \in Sessions : by[s] = NoThread <=> disconnect[s] = "no"
    /\ \A s \in Sessions : read[s] = "release" => disconnect[s] # "no"
    /\ timer # "running" => TimerReturned
    /\ control # "disconnect" => StopReturned

\* NoOrphanSession, whoever it is that will take the session out.
Tended ==
    \A s \in registry :
        \/ SettingUp(s)
        \/ read[s] \notin {"none", "done"}
        \/ disconnect[s] = "started"

\* Stop, after its wait: no operation is left, and none begins.
StopShape ==
    /\ control \in {"close listen", "snapshot", "disconnect", "wait", "join workers",
                    "stopped", "initialized"} => timer # "running"
    /\ control \in {"join workers", "stopped", "initialized"} =>
           BusyAccepts = {} /\ BusyReads = {}
    /\ control \in {"stopped", "initialized"} =>
           registry = {} /\ \A s \in Sessions : disconnect[s] \in {"no", "done"}
    /\ control = "posting" => unposted \cap BusyAccepts = {}

Shapes ==
    /\ AcceptShape /\ RegistryShape /\ CallbackShape
    /\ DisconnectShape /\ Tended /\ StopShape

\* What HandleAccept has let in: the open sessions, and those it is about to
\* insert.
Inserting == {a \in Accepts : accept[a] = "insert"}
Counting == {a \in Accepts : accept[a] = "count"}
Admitted ==
    /\ Cardinality(BusyAccepts) <= posted
    /\ Cardinality(Created) = Cardinality(CountedIn) + Cardinality(Counting)
    /\ Open # {} \/ Inserting # {} =>
           Cardinality(Open) + Cardinality(Inserting) < MaxConnections + posted

\* The inductive invariant.
LifecycleInv ==
    /\ TypeOK /\ Shapes
    /\ ActiveExact /\ OutstandingExact /\ Admitted

-----------------------------------------------------------------------------
(* The steps fall into classes by what they change.                        *)

\* Start, Stop and the timer's end, which change nothing of accepts and sessions.
ControlOnly ==
    /\ \/ Initialize \/ Start \/ StartFails \/ Started \/ Stop \/ JoinTimer
       \/ CloseListen \/ TakeSnapshot \/ StopWait \/ Drained \/ JoinWorkers
       \/ TimerExits \/ UNCHANGED vars
       \/ \E a \in Accepts : PostNewAcceptFails(a)
    /\ UNCHANGED <<acceptVars, read, disconnectVars, registry, active,
                   outstanding_operations, historyVars>>

\* An accept on its way to Insert, or turned away.
Early == {"kernel", "connected", "failed", "admit", "insert", "post"}
AcceptMoves(a) ==
    /\ accept[a] \in Early
    /\ \E x \in Early \cup {"rearm"} :
           /\ accept' = [accept EXCEPT ![a] = x]
           /\ x = "insert" => accept[a] = "admit" /\ active < MaxConnections
    /\ UNCHANGED <<controlVars, timer, serving, read, disconnectVars, registry,
                   active, outstanding_operations, historyVars>>

\* A read on its way from one WSARecv to the next.
Reading == {"kernel", "data", "failed", "process", "again", "post", "close"}
ReadMoves(s) ==
    /\ read[s] \in Reading
    /\ \E x \in Reading : read' = [read EXCEPT ![s] = x]
    /\ UNCHANGED <<controlVars, timer, acceptVars, disconnectVars, registry,
                   active, outstanding_operations, historyVars>>

\* A call of Disconnect, from wherever a thread may make it.
Calls(s) ==
    /\ \/ s \in registry /\ disconnect[s] = "no" /\ UNCHANGED <<read, snapshot>>
          /\ CallDisconnect(s, "write")
       \/ s \in registry /\ disconnect[s] = "no" /\ UNCHANGED <<read, snapshot>>
          /\ timer = "running" /\ CallDisconnect(s, "timer")
       \/ s \in snapshot /\ UNCHANGED read /\ control = "disconnect"
          /\ snapshot' = snapshot \ {s} /\ CallDisconnect(s, "stop")
       \/ read[s] \in Reading /\ UNCHANGED snapshot
          /\ (\E x \in Reading \cup {"release"} : read' = [read EXCEPT ![s] = x])
          /\ CallDisconnect(s, "read")
    /\ UNCHANGED <<control, unposted, posted, running, listening, timer, acceptVars,
                   registry, active, outstanding_operations, historyVars>>

\* Every step is of one of the classes, or one of the steps in which a session
\* or an operation begins or ends.
LEMMA Classes ==
    ASSUME TypeOK, [Next]_vars
    PROVE  \/ ControlOnly
           \/ \E a \in Accepts :
                  \/ AcceptMoves(a) \/ PostNewAccept(a)
                  \/ \E s \in Sessions : Insert(a, s)
                  \/ InvokeConnect(a) \/ PostRead(a) \/ PostReadFails(a)
                  \/ Rearm(a) \/ ReleaseAccept(a)
           \/ \E s \in Sessions :
                  \/ ReadMoves(s) \/ Calls(s) \/ ReleaseRead(s)
                  \/ Remove(s) \/ CloseSocket(s) \/ InvokeDisconnect(s)
  <1>1. CASE \/ Initialize \/ Start \/ StartFails \/ Started \/ Stop \/ JoinTimer
             \/ CloseListen \/ TakeSnapshot \/ StopWait \/ Drained \/ JoinWorkers
             \/ TimerExits \/ UNCHANGED vars
    BY <1>1, Zenon
    DEF Initialize, Start, StartFails, Started, Stop, JoinTimer, CloseListen,
        TakeSnapshot, StopWait, Drained, JoinWorkers, TimerExits, vars, ControlOnly
  <1>2. ASSUME NEW a \in Accepts,
               \/ AcceptCompletes(a) \/ AcceptFails(a) \/ HandleAccept(a) \/ Admit(a)
               \/ AssociateFails(a) \/ PostAccept(a)
        PROVE  AcceptMoves(a)
    <2>1. active < MaxConnections \/ active >= MaxConnections
      <3>1. active \in 0 .. CountModulus - 1
        BY Zenon DEF TypeOK
      <3>2. CountModulus \in Nat /\ MaxConnections \in Nat
        BY LifecycleAssumption
      <3>3. QED
        BY <3>1, <3>2
    <2>2. CASE Admit(a) /\ active >= MaxConnections
      BY <2>2 DEF Admit, AcceptMoves, Early
    <2>3. CASE Admit(a) /\ ~(active >= MaxConnections)
      BY <2>3, <2>1 DEF Admit, AcceptMoves, Early
    <2>4. CASE \/ AcceptCompletes(a) \/ AcceptFails(a) \/ HandleAccept(a)
               \/ AssociateFails(a) \/ PostAccept(a)
      BY <2>4
      DEF AcceptCompletes, AcceptFails, HandleAccept, AssociateFails, PostAccept,
          AcceptMoves, Early
    <2>5. QED
      BY <1>2, <2>2, <2>3, <2>4
  <1>3. ASSUME NEW a \in Accepts, PostNewAcceptFails(a)
        PROVE  ControlOnly
    BY <1>3 DEF PostNewAcceptFails, ControlOnly
  <1>4. ASSUME NEW s \in Sessions,
               \/ ReadCompletes(s) \/ ReadFails(s) \/ HandleRead(s) \/ ReadAgain(s)
               \/ RepostRead(s)
        PROVE  ReadMoves(s)
    BY <1>4, Zenon
    DEF ReadCompletes, ReadFails, HandleRead, ReadAgain, RepostRead, ReadMoves, Reading
  <1>5. ASSUME NEW s \in Sessions, ProcessIncoming(s) \/ ReadDisconnect(s)
        PROVE  ReadMoves(s) \/ Calls(s)
    BY <1>5, Zenon DEF ReadDisconnect, Calls, Reading, controlVars, ProcessIncoming, ReadMoves
  <1>6. ASSUME NEW s \in Sessions,
               WriteDisconnect(s) \/ TimerDisconnect(s) \/ StopDisconnect(s)
        PROVE  Calls(s)
    BY <1>6, Zenon DEF WriteDisconnect, TimerDisconnect, StopDisconnect, Calls, controlVars
  <1>7. QED
    BY <1>1, <1>2, <1>3, <1>4, <1>5, <1>6, Zenon
    DEF Next, StopStep, AcceptStep, ReadStep, DisconnectStep

-----------------------------------------------------------------------------
(* Types.                                                                  *)

\* The control thread's part of the type invariant, and the rest.
ControlTypes ==
    /\ control \in {"stopped", "initialized", "posting", "up", "join timer",
                    "close listen", "snapshot", "disconnect", "wait",
                    "join workers"}
    /\ unposted \subseteq Accepts
    /\ posted \in Nat /\ running \in BOOLEAN /\ listening \in BOOLEAN
    /\ snapshot \subseteq Sessions
    /\ timer \in {"none", "running", "gone"}

SessionTypes ==
    /\ accept \in [Accepts -> {"none", "kernel", "connected", "failed", "admit",
                               "insert", "count", "read", "rearm", "post"}]
    /\ serving \in [Accepts -> Sessions \cup {NoSession}]
    /\ read \in [Sessions -> {"none", "kernel", "data", "failed", "process",
                              "again", "post", "close", "release", "done"}]
    /\ disconnect \in [Sessions -> {"no", "started", "removed", "closed", "done"}]
    /\ by \in [Sessions -> Threads \cup {NoThread}]
    /\ registry \subseteq Sessions
    /\ active \in 0 .. CountModulus - 1
    /\ outstanding_operations \in Int
    /\ connects \in [Sessions -> Nat] /\ disconnects \in [Sessions -> Nat]
    /\ late \subseteq Sessions

\* The counter of connections is a number modulo its width.
LEMMA Modulus ==
    /\ CountModulus \in Nat /\ CountModulus > 0
    /\ \A x \in Int : x % CountModulus \in 0 .. CountModulus - 1
  BY LifecycleAssumption

\* Start and Stop, and everybody else, keep the control thread's types.
LEMMA ControlTypesStep ==
    ASSUME TypeOK, [Next]_vars
    PROVE  ControlTypes'
  <1>0. ControlTypes /\ registry \subseteq Sessions
    BY Zenon DEF TypeOK, ControlTypes
  <1>a. posted \in Nat /\ unposted \subseteq Accepts /\ snapshot \subseteq Sessions
    BY <1>0, Zenon DEF ControlTypes
  <1>1. CASE UNCHANGED <<controlVars, timer>>
    BY <1>0, <1>1, Zenon DEF ControlTypes, controlVars
  <1>2. CASE \/ Initialize \/ Start \/ StartFails \/ Started \/ Stop \/ JoinTimer
             \/ CloseListen \/ TakeSnapshot \/ StopWait \/ Drained \/ JoinWorkers
             \/ TimerExits
    <2>1. running' \in BOOLEAN /\ listening' \in BOOLEAN
      BY <1>0, <1>2, Zenon
      DEF Initialize, Start, StartFails, Started, Stop, JoinTimer, CloseListen,
          TakeSnapshot, StopWait, Drained, JoinWorkers, TimerExits, ControlTypes, controlVars
    <2>2. /\ posted' = posted \/ posted' = 0
          /\ unposted' = unposted \/ unposted' = Accepts
          /\ snapshot' = snapshot \/ snapshot' = registry
      BY <1>2, Zenon
      DEF Initialize, Start, StartFails, Started, Stop, JoinTimer, CloseListen,
          TakeSnapshot, StopWait, Drained, JoinWorkers, TimerExits, controlVars
    <2>a. posted' \in Nat /\ unposted' \subseteq Accepts /\ snapshot' \subseteq Sessions
      BY <1>0, <1>a, <2>2
    <2>3. QED
      BY <1>0, <1>2, <2>1, <2>a, Zenon
      DEF Initialize, Start, StartFails, Started, Stop, JoinTimer, CloseListen,
          TakeSnapshot, StopWait, Drained, JoinWorkers, TimerExits, ControlTypes, controlVars
  <1>3. ASSUME NEW a \in Accepts, PostNewAccept(a) \/ PostNewAcceptFails(a)
        PROVE  ControlTypes'
    <2>1. posted' \in Nat /\ unposted' \subseteq Accepts
      BY <1>a, <1>3 DEF PostNewAccept, PostNewAcceptFails
    <2>2. QED
      BY <1>0, <1>3, <2>1, Zenon DEF PostNewAccept, PostNewAcceptFails, ControlTypes
  <1>4. ASSUME NEW s \in Sessions, StopDisconnect(s)
        PROVE  ControlTypes'
    BY <1>0, <1>4 DEF StopDisconnect, ControlTypes
  <1>5. ASSUME NEW a \in Accepts, AcceptStep(a) \/ AcceptCompletes(a) \/ AcceptFails(a)
        PROVE  UNCHANGED <<controlVars, timer>>
    BY <1>5, Zenon
    DEF AcceptStep, AcceptCompletes, AcceptFails, HandleAccept, Admit, AssociateFails,
        Insert, InvokeConnect, PostRead, PostReadFails, Rearm, PostAccept, ReleaseAccept
  <1>6. ASSUME NEW s \in Sessions,
               \/ ReadStep(s) \/ ReadCompletes(s) \/ ReadFails(s) \/ DisconnectStep(s)
               \/ WriteDisconnect(s) \/ TimerDisconnect(s)
        PROVE  UNCHANGED <<controlVars, timer>>
    BY <1>6, Zenon
    DEF ReadStep, ReadCompletes, ReadFails, HandleRead, ProcessIncoming, ReadAgain,
        RepostRead, ReadDisconnect, ReleaseRead, DisconnectStep, Remove, CloseSocket,
        InvokeDisconnect, WriteDisconnect, TimerDisconnect
  <1>7. UNCHANGED vars => UNCHANGED <<controlVars, timer>>
    BY DEF vars
  <1>8. QED
    BY <1>1, <1>2, <1>3, <1>4, <1>5, <1>6, <1>7, Zenon DEF Next, StopStep

\* The types of accepts and sessions, class by class.
LEMMA SessionTypesStep ==
    ASSUME TypeOK, AcceptShape, [Next]_vars
    PROVE  SessionTypes'
  <1>0. SessionTypes /\ snapshot \subseteq Sessions
    BY Zenon DEF TypeOK, SessionTypes
  <1> USE <1>0
  <1>1. CASE ControlOnly
    BY <1>1, Zenon DEF ControlOnly, SessionTypes, acceptVars, disconnectVars, historyVars
  <1>2. ASSUME NEW a \in Accepts, AcceptMoves(a) \/ PostNewAccept(a) \/ Rearm(a) \/ ReleaseAccept(a)
        PROVE  SessionTypes'
    BY <1>2
    DEF AcceptMoves, Early, PostNewAccept, Rearm, ReleaseAccept, SessionTypes,
        disconnectVars, historyVars
  <1>3. ASSUME NEW a \in Accepts, NEW s \in Sessions, Insert(a, s)
        PROVE  SessionTypes'
    BY <1>3, Zenon DEF Insert, SessionTypes, disconnectVars
  <1>4. ASSUME NEW a \in Accepts, InvokeConnect(a)
        PROVE  SessionTypes'
    BY <1>4, Modulus DEF InvokeConnect, SessionTypes, AcceptShape, disconnectVars
  <1>5. ASSUME NEW a \in Accepts, PostRead(a)
        PROVE  SessionTypes'
    BY <1>5 DEF PostRead, SessionTypes, disconnectVars, historyVars, AcceptShape
  <1>6. ASSUME NEW s \in Sessions, NEW t \in Threads, CallDisconnect(s, t)
        PROVE  /\ disconnect' \in [Sessions -> {"no", "started", "removed", "closed", "done"}]
               /\ by' \in [Sessions -> Threads \cup {NoThread}]
               /\ disconnects' \in [Sessions -> Nat]
    BY <1>6 DEF CallDisconnect, SessionTypes
  <1>7. ASSUME NEW a \in Accepts, PostReadFails(a)
        PROVE  SessionTypes'
    BY <1>7, <1>6, Zenon DEF PostReadFails, AcceptShape, SessionTypes, historyVars, Threads
  <1>8. ASSUME NEW s \in Sessions, Calls(s)
        PROVE  SessionTypes'
    BY <1>6, <1>8 DEF Calls, Threads, Reading, SessionTypes, acceptVars, historyVars
  <1>9. ASSUME NEW s \in Sessions, ReadMoves(s) \/ ReleaseRead(s) \/ Remove(s) \/ CloseSocket(s)
        PROVE  SessionTypes'
    BY <1>9
    DEF ReadMoves, Reading, ReleaseRead, Remove, CloseSocket, SessionTypes, acceptVars,
        disconnectVars, historyVars
  <1>10. ASSUME NEW s \in Sessions, InvokeDisconnect(s)
         PROVE  SessionTypes'
    BY <1>10, Modulus DEF InvokeDisconnect, SessionTypes, acceptVars, historyVars
  <1>11. QED
    BY <1>1, <1>2, <1>3, <1>4, <1>5, <1>7, <1>8, <1>9, <1>10, Classes, Zenon

\* The types of everything.
LEMMA TypesStep ==
    ASSUME TypeOK, AcceptShape, [Next]_vars
    PROVE  TypeOK'
  BY ControlTypesStep, SessionTypesStep, Zenon DEF ControlTypes, SessionTypes, TypeOK

-----------------------------------------------------------------------------
(* The shapes, one class of steps at a time.                               *)

\* An accept that is not setting a session up, before and after the step: the
\* sessions do not notice.
LEMMA AcceptMovesStep ==
    ASSUME TypeOK, Shapes, NEW a \in Accepts, AcceptMoves(a)
    PROVE  Shapes'
  <1>1. /\ accept[a] \in Early /\ accept'[a] \in Early \cup {"rearm"}
        /\ \A b \in Accepts : b # a => accept'[b] = accept[b]
    BY Zenon DEF AcceptMoves, TypeOK
  <1>2. UNCHANGED <<control, unposted, snapshot, timer, serving, read, disconnect, by,
                    disconnects, registry, connects>>
    BY DEF AcceptMoves, controlVars, disconnectVars, historyVars
  <1>3. \A s \in Sessions : /\ Fresh(s)' = Fresh(s) /\ SettingUp(s)' = SettingUp(s)
                            /\ Uncounted(s)' = Uncounted(s)
    BY <1>1, <1>2 DEF Fresh, SettingUp, Uncounted, Early
  <1>4. BusyAccepts' = BusyAccepts /\ BusyReads' = BusyReads
    BY <1>1, <1>2 DEF BusyAccepts, BusyReads, Early
  <1>5. AcceptShape'
    BY <1>1, <1>2, <1>3 DEF Shapes, AcceptShape, Early
  <1>6. RegistryShape' /\ CallbackShape' /\ DisconnectShape'
    BY <1>2, <1>3, Zenon
    DEF Shapes, RegistryShape, CallbackShape, DisconnectShape, TimerReturned,
        StopReturned, Returned
  <1>7. Tended'
    BY <1>2, <1>3, Zenon DEF Shapes, Tended, TypeOK
  <1>8. StopShape'
    BY <1>2, <1>4, Zenon DEF Shapes, StopShape
  <1>9. QED
    BY <1>5, <1>6, <1>7, <1>8 DEF Shapes

\* A read that goes on: its session does not notice.
LEMMA ReadMovesStep ==
    ASSUME TypeOK, Shapes, NEW s \in Sessions, ReadMoves(s)
    PROVE  Shapes'
  <1>1. /\ read[s] \in Reading /\ read'[s] \in Reading
        /\ \A t \in Sessions : t # s => read'[t] = read[t]
    BY Zenon DEF ReadMoves, TypeOK
  <1>2. UNCHANGED <<control, unposted, snapshot, timer, accept, serving, disconnect, by,
                    disconnects, registry, connects>>
    BY DEF ReadMoves, controlVars, acceptVars, disconnectVars, historyVars
  <1>3. \A t \in Sessions : /\ Fresh(t)' = Fresh(t) /\ SettingUp(t)' = SettingUp(t)
                            /\ Uncounted(t)' = Uncounted(t)
    BY <1>1, <1>2 DEF Fresh, SettingUp, Uncounted, Reading
  <1>4. BusyAccepts' = BusyAccepts /\ BusyReads' = BusyReads
    BY <1>1, <1>2 DEF BusyAccepts, BusyReads, Reading
  <1>5. AcceptShape'
    BY <1>1, <1>2, <1>3 DEF Shapes, AcceptShape, Reading
  <1>6. RegistryShape' /\ CallbackShape' /\ DisconnectShape'
    BY <1>1, <1>2, <1>3, Zenon
    DEF Shapes, RegistryShape, CallbackShape, DisconnectShape, TimerReturned,
        StopReturned, Returned, Reading
  <1>7. Tended'
    BY <1>1, <1>2, <1>3, Zenon DEF Shapes, Tended, TypeOK, Reading
  <1>8. StopShape'
    BY <1>2, <1>4, Zenon DEF Shapes, StopShape
  <1>9. QED
    BY <1>5, <1>6, <1>7, <1>8 DEF Shapes

\* The exchange on disconnect_started.
LEMMA CallEffect ==
    ASSUME TypeOK, NEW s \in Sessions, NEW th, CallDisconnect(s, th)
    PROVE  /\ disconnect[s] = "no" => disconnect'[s] = "started" /\ by'[s] = th
           /\ disconnect[s] # "no" => disconnect'[s] = disconnect[s] /\ by'[s] = by[s]
           /\ \A t \in Sessions : t # s => disconnect'[t] = disconnect[t] /\ by'[t] = by[t]
  <1>1. DOMAIN disconnect = Sessions /\ DOMAIN by = Sessions
    BY Zenon DEF TypeOK
  <1>2. QED
    BY <1>1 DEF CallDisconnect

\* A call of Disconnect: the session is in the registry, or it was called before.
LEMMA CallsStep ==
    ASSUME TypeOK, Shapes, NEW s \in Sessions, Calls(s)
    PROVE  Shapes'
  <1>1. PICK th \in Threads :
            /\ CallDisconnect(s, th)
            /\ th = "timer" => timer = "running"
            /\ th = "stop" => control = "disconnect"
    BY DEF Calls, Threads
  <1>2. /\ disconnect[s] = "no" => disconnect'[s] = "started" /\ by'[s] = th
        /\ disconnect[s] # "no" => disconnect'[s] = disconnect[s] /\ by'[s] = by[s]
        /\ \A t \in Sessions : t # s => disconnect'[t] = disconnect[t] /\ by'[t] = by[t]
    BY <1>1, CallEffect
  <1>a. th # NoThread
    BY LifecycleAssumption DEF Threads
  <1>3. /\ \/ read'[s] = read[s]
           \/ read[s] \in Reading /\ read'[s] \in Reading \cup {"release"}
        /\ \A t \in Sessions : t # s => read'[t] = read[t]
        /\ snapshot' \subseteq snapshot
    BY Zenon DEF Calls, TypeOK
  <1>4. /\ UNCHANGED <<control, unposted, timer, accept, serving, disconnects, registry,
                       connects>>
    BY Zenon DEF Calls, CallDisconnect, acceptVars, historyVars
  <1>5. disconnect[s] = "no" => s \in registry
    BY Zenon DEF Calls, Shapes, RegistryShape, Reading
  <1>6. \A t \in Sessions : /\ Fresh(t)' = Fresh(t) /\ SettingUp(t)' = SettingUp(t)
                            /\ Uncounted(t)' = Uncounted(t)
    BY <1>2, <1>3, <1>4, <1>5 DEF Fresh, SettingUp, Uncounted, Reading
  <1>7. BusyAccepts' = BusyAccepts /\ BusyReads' = BusyReads
    BY <1>3, <1>4 DEF BusyAccepts, BusyReads, Reading
  <1>8. AcceptShape'
    BY <1>3, <1>4, <1>6, Zenon DEF Shapes, AcceptShape, Reading
  <1>9. RegistryShape' /\ CallbackShape'
    BY <1>2, <1>3, <1>4, <1>5, <1>6 DEF Shapes, RegistryShape, CallbackShape, Reading
  <1>10. DisconnectShape'
    BY <1>2, <1>a, <1>3, <1>1, <1>4
    DEF Shapes, DisconnectShape, Reading, TimerReturned, Returned, StopReturned
  <1>11. Tended'
    BY <1>2, <1>3, <1>4, <1>6, Zenon DEF Shapes, Tended, TypeOK, Reading
  <1>12. StopShape'
    BY <1>4, <1>7, Zenon DEF Calls, Shapes, StopShape, BusyReads, Reading
  <1>13. QED
    BY <1>8, <1>9, <1>10, <1>11, <1>12 DEF Shapes

\* The last of a read, which has called Disconnect.
LEMMA ReleaseReadStep ==
    ASSUME TypeOK, Shapes, NEW s \in Sessions, ReleaseRead(s)
    PROVE  Shapes'
  <1>1. /\ read[s] = "release" /\ read'[s] = "done"
        /\ \A t \in Sessions : t # s => read'[t] = read[t]
    BY Zenon DEF ReleaseRead, TypeOK
  <1>2. UNCHANGED <<control, unposted, snapshot, timer, accept, serving, disconnect, by,
                    disconnects, registry, connects>>
    BY DEF ReleaseRead, controlVars, acceptVars, disconnectVars, historyVars
  <1>3. \A t \in Sessions : /\ Fresh(t)' = Fresh(t) /\ SettingUp(t)' = SettingUp(t)
                            /\ Uncounted(t)' = Uncounted(t)
    BY <1>1, <1>2 DEF Fresh, SettingUp, Uncounted
  <1>4. BusyAccepts' = BusyAccepts /\ BusyReads' = BusyReads \ {s}
    BY <1>1, <1>2 DEF BusyAccepts, BusyReads
  <1>5. AcceptShape'
    BY <1>1, <1>2, <1>3, Zenon DEF Shapes, AcceptShape
  <1>6. RegistryShape' /\ CallbackShape' /\ DisconnectShape'
    BY <1>1, <1>2, <1>3, Zenon
    DEF Shapes, RegistryShape, CallbackShape, DisconnectShape, TimerReturned,
        StopReturned, Returned
  <1>7. Tended'
    BY <1>1, <1>2, <1>3, Zenon
    DEF Shapes, RegistryShape, DisconnectShape, Tended, TypeOK
  <1>8. StopShape'
    BY <1>2, <1>4, Zenon DEF Shapes, StopShape
  <1>9. QED
    BY <1>5, <1>6, <1>7, <1>8 DEF Shapes

\* The steps of Disconnect after the exchange.
LEMMA DisconnectStepStep ==
    ASSUME TypeOK, Shapes, NEW s \in Sessions, DisconnectStep(s)
    PROVE  Shapes'
  <1>1. /\ \/ disconnect[s] = "started" /\ disconnect'[s] = "removed"
              /\ registry' = registry \ {s} /\ UNCHANGED disconnects
           \/ disconnect[s] = "removed" /\ disconnect'[s] = "closed"
              /\ UNCHANGED <<registry, disconnects>>
           \/ disconnect[s] = "closed" /\ disconnect'[s] = "done"
              /\ disconnects'[s] = disconnects[s] + 1 /\ UNCHANGED registry
        /\ \A t \in Sessions : t # s => /\ disconnect'[t] = disconnect[t]
                                        /\ disconnects'[t] = disconnects[t]
    BY Zenon DEF DisconnectStep, Remove, CloseSocket, InvokeDisconnect, TypeOK
  <1>2. UNCHANGED <<control, unposted, snapshot, timer, accept, serving, read, by, connects>>
    BY Zenon DEF DisconnectStep, Remove, CloseSocket, InvokeDisconnect, controlVars, acceptVars,
           historyVars
  <1>3. \A t \in Sessions : /\ Fresh(t)' = Fresh(t) /\ SettingUp(t)' = SettingUp(t)
                            /\ Uncounted(t)' = Uncounted(t)
    BY <1>1, <1>2 DEF Fresh, SettingUp, Uncounted
  <1>4. BusyAccepts' = BusyAccepts /\ BusyReads' = BusyReads
    BY <1>2 DEF BusyAccepts, BusyReads
  <1>5. AcceptShape'
    BY <1>2, <1>3, Zenon DEF Shapes, AcceptShape
  <1>6. RegistryShape' /\ CallbackShape'
    BY <1>1, <1>2, <1>3 DEF Shapes, RegistryShape, CallbackShape
  <1>7. DisconnectShape'
    BY <1>1, <1>2
    DEF Shapes, DisconnectShape, TimerReturned, StopReturned, Returned
  <1>8. Tended'
    BY <1>1, <1>2, <1>3, Zenon DEF Shapes, Tended, TypeOK
  <1>9. StopShape'
    BY <1>1, <1>2, <1>4, Zenon DEF Shapes, StopShape
  <1>10. QED
    BY <1>5, <1>6, <1>7, <1>8, <1>9 DEF Shapes

\* An accept begins in Start, and ends when its worker may not or cannot post it
\* again; a worker lets go of the session it set up.
LEMMA AcceptEndsStep ==
    ASSUME TypeOK, Shapes, NEW a \in Accepts,
           PostNewAccept(a) \/ Rearm(a) \/ ReleaseAccept(a)
    PROVE  Shapes'
  <1>1. /\ \/ accept[a] = "none" /\ accept'[a] = "kernel" /\ serving'[a] = serving[a]
              /\ control = "posting" /\ unposted' = unposted \ {a}
           \/ accept[a] \in {"rearm", "post"} /\ accept'[a] \in {"none", "post"}
              /\ serving'[a] = NoSession /\ UNCHANGED unposted
        /\ \A b \in Accepts : b # a => accept'[b] = accept[b] /\ serving'[b] = serving[b]
    BY ZenonT(30) DEF PostNewAccept, Rearm, ReleaseAccept, TypeOK, controlVars, Shapes, StopShape,
           BusyAccepts
  <1>2. UNCHANGED <<control, snapshot, timer, read, disconnect, by, disconnects, registry,
                    connects>>
    BY Zenon DEF PostNewAccept, Rearm, ReleaseAccept, controlVars, disconnectVars, historyVars
  <1>3. \A s \in Sessions : /\ Fresh(s)' = Fresh(s) /\ SettingUp(s)' = SettingUp(s)
                            /\ Uncounted(s)' = Uncounted(s)
    BY <1>1, <1>2 DEF Fresh, SettingUp, Uncounted
  <1>4. BusyReads' = BusyReads
    BY <1>2 DEF BusyReads
  <1>5. AcceptShape'
    BY LifecycleAssumption, <1>1, <1>2, <1>3 DEF Shapes, AcceptShape
  <1>6. RegistryShape' /\ CallbackShape' /\ DisconnectShape'
    BY <1>2, <1>3, Zenon
    DEF Shapes, RegistryShape, CallbackShape, DisconnectShape, TimerReturned,
        StopReturned, Returned
  <1>7. Tended'
    BY <1>2, <1>3, Zenon DEF Shapes, Tended, TypeOK
  <1>8. StopShape'
    BY <1>1, <1>2, <1>4, Zenon DEF Shapes, StopShape, BusyAccepts
  <1>9. QED
    BY <1>5, <1>6, <1>7, <1>8 DEF Shapes

\* A session begins: nobody knew it, and its worker sets it up.
LEMMA InsertStep ==
    ASSUME TypeOK, Shapes, NEW a \in Accepts, NEW s \in Sessions, Insert(a, s)
    PROVE  Shapes'
  <1>1. /\ accept[a] = "insert" /\ accept'[a] = "count" /\ serving'[a] = s
        /\ \A b \in Accepts : b # a => accept'[b] = accept[b] /\ serving'[b] = serving[b]
        /\ Fresh(s) /\ registry' = registry \cup {s}
    BY Zenon DEF Insert, TypeOK
  <1>2. UNCHANGED <<control, unposted, snapshot, timer, read, disconnect, by, disconnects,
                    connects>>
    BY DEF Insert, controlVars, disconnectVars
  <1>3. /\ ~Fresh(s)' /\ SettingUp(s)' /\ Uncounted(s)'
        /\ \A t \in Sessions : t # s => /\ Fresh(t)' = Fresh(t)
                                        /\ SettingUp(t)' = SettingUp(t)
                                        /\ Uncounted(t)' = Uncounted(t)
    BY <1>1, <1>2 DEF Fresh, SettingUp, Uncounted, Shapes, AcceptShape
  <1>4. BusyAccepts' = BusyAccepts /\ BusyReads' = BusyReads /\ BusyAccepts # {}
    BY <1>1, <1>2 DEF BusyAccepts, BusyReads
  <1>5. AcceptShape'
    <2>1. NoSession \notin Sessions
      BY LifecycleAssumption
    <2>2. QED
      BY <1>1, <1>2, <1>3, <2>1 DEF Shapes, AcceptShape, Fresh
  <1>6. RegistryShape' /\ DisconnectShape'
    BY <1>1, <1>2, Zenon
    DEF Shapes, RegistryShape, DisconnectShape, TimerReturned, StopReturned, Returned, Fresh
  <1>7. CallbackShape'
    BY <1>1, <1>2, <1>3, Zenon DEF Shapes, CallbackShape
  <1>8. Tended'
    BY <1>1, <1>2, <1>3, Zenon DEF Shapes, Tended, TypeOK
  <1>9. StopShape'
    BY <1>2, <1>4, Zenon DEF Shapes, StopShape
  <1>10. QED
    BY <1>5, <1>6, <1>7, <1>8, <1>9 DEF Shapes

\* It is counted, and OnConnect called.
LEMMA InvokeConnectStep ==
    ASSUME TypeOK, Shapes, NEW a \in Accepts, InvokeConnect(a)
    PROVE  Shapes'
  <1>a. PICK s \in Sessions : serving[a] = s
    BY Zenon DEF InvokeConnect, Shapes, AcceptShape
  <1>1. /\ accept[a] = "count" /\ accept'[a] = "read"
        /\ \A b \in Accepts : b # a => accept'[b] = accept[b] /\ serving[b] # s
    <2>1. s # NoSession
      BY LifecycleAssumption
    <2>2. QED
      BY <1>a, <2>1, Zenon DEF InvokeConnect, TypeOK, Shapes, AcceptShape
  <1>b. /\ connects'[s] = connects[s] + 1
        /\ \A t \in Sessions : t # s => connects'[t] = connects[t]
    BY <1>a, Zenon DEF InvokeConnect, TypeOK
  <1>2. UNCHANGED <<control, unposted, snapshot, timer, serving, read, disconnect, by,
                    disconnects, registry>>
    BY DEF InvokeConnect, controlVars, disconnectVars
  <1>3. /\ Uncounted(s) /\ ~Uncounted(s)' /\ ~Fresh(s)
        /\ \A t \in Sessions : /\ Fresh(t)' = Fresh(t) /\ SettingUp(t)' = SettingUp(t)
                               /\ t # s => Uncounted(t)' = Uncounted(t)
    BY <1>2, <1>a, <1>1 DEF Fresh, Shapes, AcceptShape, Uncounted, SettingUp
  <1>4. BusyAccepts' = BusyAccepts /\ BusyReads' = BusyReads
    BY <1>1, <1>2 DEF BusyAccepts, BusyReads
  <1>5. AcceptShape'
    BY <1>1, <1>2, <1>3 DEF Shapes, AcceptShape
  <1>6. RegistryShape' /\ DisconnectShape'
    BY <1>2, Zenon
    DEF Shapes, RegistryShape, DisconnectShape, TimerReturned, StopReturned, Returned
  <1>7. CallbackShape'
    BY <1>2, <1>3, <1>b DEF Shapes, CallbackShape
  <1>8. Tended'
    BY <1>2, <1>3, Zenon DEF Shapes, Tended, TypeOK
  <1>9. StopShape'
    BY <1>2, <1>4, Zenon DEF Shapes, StopShape
  <1>10. QED
    BY <1>5, <1>6, <1>7, <1>8, <1>9 DEF Shapes

\* The first read is posted, or fails and the session is disconnected: either
\* way somebody else than the worker will take the session out.
LEMMA PostReadStep ==
    ASSUME TypeOK, Shapes, NEW a \in Accepts, PostRead(a) \/ PostReadFails(a)
    PROVE  Shapes'
  <1>a. PICK s \in Sessions : serving[a] = s
    BY Zenon DEF PostRead, PostReadFails, Shapes, AcceptShape
  <1>1. /\ accept[a] = "read" /\ accept'[a] = "rearm" /\ read[s] = "none"
        /\ \A b \in Accepts : b # a => accept'[b] = accept[b] /\ serving[b] # s
    <2>1. s # NoSession
      BY LifecycleAssumption
    <2>2. QED
      BY <1>a, <2>1, Zenon DEF PostRead, PostReadFails, TypeOK, Shapes, AcceptShape
  <1>2. UNCHANGED <<control, unposted, snapshot, timer, serving, disconnects, registry,
                    connects>>
    BY Zenon DEF PostRead, PostReadFails, CallDisconnect, controlVars, disconnectVars, historyVars
  <1>3. /\ \/ read'[s] = "kernel" /\ UNCHANGED <<disconnect, by>>
           \/ read'[s] = "done" /\ CallDisconnect(s, "accept")
        /\ \A t \in Sessions : t # s => read'[t] = read[t]
    BY <1>a, Zenon DEF PostRead, PostReadFails, TypeOK, disconnectVars
  <1>4. /\ \/ /\ disconnect'[s] = disconnect[s] /\ by'[s] = by[s]
              /\ read'[s] = "kernel" \/ disconnect[s] # "no"
           \/ disconnect[s] = "no" /\ disconnect'[s] = "started" /\ by'[s] = "accept"
        /\ \A t \in Sessions : t # s => disconnect'[t] = disconnect[t] /\ by'[t] = by[t]
    BY CallEffect, <1>3, Zenon
  <1>5. disconnect[s] = "no" => s \in registry
    BY <1>1, <1>a, Zenon DEF Shapes, AcceptShape, Fresh
  <1>6. /\ \A t \in Sessions : Fresh(t)' = Fresh(t) /\ Uncounted(t)' = Uncounted(t)
        /\ \A t \in Sessions : t # s => SettingUp(t)' = SettingUp(t)
    BY <1>3, <1>a, <1>2, <1>4, <1>1 DEF Fresh, Shapes, AcceptShape, Uncounted, SettingUp
  <1>7. BusyAccepts' = BusyAccepts /\ BusyAccepts # {}
    BY <1>1 DEF BusyAccepts
  <1>8. AcceptShape'
    BY <1>1, <1>2, <1>3, <1>6, <1>a, Zenon DEF Shapes, AcceptShape
  <1>9. RegistryShape'
    BY <1>1, <1>2, <1>3, <1>4, <1>5, ZenonT(30) DEF Shapes, RegistryShape
  <1>10. CallbackShape'
    BY <1>2, <1>4, <1>6 DEF Shapes, CallbackShape
  <1>11. DisconnectShape'
    BY <1>4, LifecycleAssumption, <1>3, <1>2
    DEF Shapes, DisconnectShape, TimerReturned, Returned, StopReturned
  <1>12. Tended'
    <2>1. s \in registry => read'[s] \notin {"none", "done"} \/ disconnect'[s] = "started"
      BY <1>3, <1>4, Zenon DEF Shapes, RegistryShape
    <2>2. QED
      BY <1>2, <1>3, <1>4, <1>6, <2>1, ZenonT(30) DEF Shapes, Tended, TypeOK
  <1>13. StopShape'
    BY <1>2, <1>7, Zenon DEF Shapes, StopShape
  <1>14. QED
    BY <1>8, <1>9, <1>10, <1>11, <1>12, <1>13 DEF Shapes

\* The control thread and the timer's end: what Stop has waited for.
LEMMA ControlStep ==
    ASSUME TypeOK, Shapes, ControlOnly,
           outstanding_operations = 0 => BusyAccepts = {} /\ BusyReads = {}
    PROVE  Shapes'
  <1>1. UNCHANGED <<accept, serving, read, disconnect, by, disconnects, registry, connects>>
    BY DEF ControlOnly, acceptVars, disconnectVars, historyVars
  <1>2. /\ BusyAccepts' = BusyAccepts /\ BusyReads' = BusyReads
        /\ TimerReturned' = TimerReturned /\ StopReturned' = StopReturned
        /\ \A s \in Sessions : /\ Fresh(s)' = Fresh(s) /\ SettingUp(s)' = SettingUp(s)
                               /\ Uncounted(s)' = Uncounted(s)
    BY <1>1
    DEF BusyAccepts, BusyReads, TimerReturned, StopReturned, Returned, Fresh, SettingUp,
        Uncounted
  <1>3. AcceptShape' /\ CallbackShape' /\ Tended'
    BY <1>1, <1>2, Zenon DEF Shapes, AcceptShape, CallbackShape, Tended, TypeOK
  <1>4. ASSUME snapshot' \subseteq snapshot \cup registry,
               timer' # "running" => timer # "running" \/ TimerReturned,
               control' # "disconnect" => control # "disconnect" \/ StopReturned,
               StopShape'
        PROVE  Shapes'
    BY <1>1, <1>4, <1>2, <1>3, Zenon DEF Shapes, RegistryShape, DisconnectShape
  <1>5. CASE \/ Initialize \/ Start \/ StartFails \/ Started \/ Stop
    BY <1>1, <1>2, <1>5, <1>4, Zenon
    DEF Initialize, Start, StartFails, Started, Stop, Shapes, StopShape
  <1>6. CASE \/ JoinTimer \/ CloseListen \/ TakeSnapshot \/ StopWait \/ Drained
    BY <1>1, <1>2, <1>6, <1>4, Zenon
    DEF JoinTimer, CloseListen, TakeSnapshot, StopWait, Drained, Shapes, StopShape
  <1>7. CASE JoinWorkers
    <2>1. \A s \in Sessions : disconnect[s] \in {"no", "done"}
      <3>1. TimerReturned /\ StopReturned
        BY <1>7, Zenon DEF JoinWorkers, Shapes, StopShape, DisconnectShape
      <3>2. ASSUME NEW s \in Sessions, disconnect[s] # "no"
            PROVE  disconnect[s] = "done"
        <4>1. by[s] \in Threads
          BY <3>2, Zenon DEF Shapes, DisconnectShape, TypeOK
        <4>2. QED
          BY <1>7, <3>1, <4>1, Zenon
          DEF JoinWorkers, WorkersIdle, Threads, Returned, TimerReturned, StopReturned
      <3>3. QED
        BY <3>2
    <2>2. registry = {}
      BY <2>1, <1>7, Zenon
      DEF Shapes, RegistryShape, TypeOK, JoinWorkers, StopShape, Tended, SettingUp,
          BusyAccepts, BusyReads
    <2>3. StopShape'
      BY <1>1, <1>2, <1>7, <2>1, <2>2, Zenon DEF JoinWorkers, Shapes, StopShape
    <2>4. /\ UNCHANGED snapshot /\ control # "disconnect" /\ timer # "running"
      BY <1>7, Zenon DEF JoinWorkers, Shapes, StopShape
    <2>5. QED
      BY <1>4, <2>3, <2>4
  <1>8. CASE TimerExits
    BY <1>8, <1>1, <1>2, <1>4, Zenon DEF TimerExits, controlVars, Shapes, StopShape
  <1>9. CASE \E a \in Accepts : PostNewAcceptFails(a)
    BY <1>9, <1>1, <1>2, <1>4, Zenon DEF PostNewAcceptFails, Shapes, StopShape
  <1>10. CASE UNCHANGED vars
    BY <1>10, <1>1, <1>2, <1>4, Zenon DEF vars, controlVars, Shapes, StopShape
  <1>11. QED
    BY <1>5, <1>6, <1>7, <1>8, <1>9, <1>10, Zenon DEF ControlOnly

-----------------------------------------------------------------------------
(* The counters.                                                           *)

\* What is used of the size of the subsets of a finite set.
Sized(U) ==
    \A S \in SUBSET U :
        /\ Cardinality(S) \in Nat
        /\ Cardinality(S) = 0 <=> S = {}
        /\ \A x \in U : x \notin S => Cardinality(S \cup {x}) = Cardinality(S) + 1
        /\ \A x \in S : Cardinality(S \ {x}) = Cardinality(S) - 1
        /\ \A T \in SUBSET S :
               /\ Cardinality(T) <= Cardinality(S)
               /\ Cardinality(S \ T) = Cardinality(S) - Cardinality(T)

\* TrackOperation and CompleteOperation go with the operations.
LEMMA OutstandingStep ==
    ASSUME TypeOK, Shapes, OutstandingExact, Sized(Accepts), Sized(Sessions), [Next]_vars
    PROVE  OutstandingExact'
  <1>0. /\ BusyAccepts \in SUBSET Accepts /\ BusyReads \in SUBSET Sessions
        /\ Cardinality(BusyAccepts) \in Nat /\ Cardinality(BusyReads) \in Nat
    BY DEF BusyAccepts, BusyReads, Sized
  <1>1. ASSUME BusyAccepts' = BusyAccepts, BusyReads' = BusyReads,
               UNCHANGED outstanding_operations
        PROVE  OutstandingExact'
    BY <1>1 DEF OutstandingExact
  <1>2. CASE ControlOnly
    BY <1>1, <1>2 DEF ControlOnly, acceptVars, BusyAccepts, BusyReads
  <1>3. ASSUME NEW a \in Accepts,
               \/ AcceptMoves(a) \/ InvokeConnect(a) \/ Rearm(a)
               \/ \E s \in Sessions : Insert(a, s)
        PROVE  OutstandingExact'
    <2>1. /\ accept[a] # "none" /\ accept'[a] # "none"
          /\ \A b \in Accepts : b # a => accept'[b] = accept[b]
          /\ UNCHANGED <<read, outstanding_operations>>
      BY <1>3, Zenon DEF AcceptMoves, Early, InvokeConnect, Rearm, Insert, TypeOK
    <2>2. BusyAccepts' = BusyAccepts /\ BusyReads' = BusyReads
      BY <2>1 DEF BusyAccepts, BusyReads
    <2>3. QED
      BY <1>1, <2>1, <2>2
  <1>4. ASSUME NEW a \in Accepts, PostNewAccept(a)
        PROVE  OutstandingExact'
    <2>1. a \notin BusyAccepts /\ BusyAccepts' = BusyAccepts \cup {a} /\ BusyReads' = BusyReads
      BY <1>4 DEF PostNewAccept, TypeOK, Shapes, StopShape, BusyAccepts, BusyReads
    <2>2. Cardinality(BusyAccepts') = Cardinality(BusyAccepts) + 1
      BY <1>0, <2>1, Zenon DEF Sized
    <2>3. QED
      BY <1>0, <1>4, <2>1, <2>2 DEF PostNewAccept, OutstandingExact
  <1>5. ASSUME NEW a \in Accepts, ReleaseAccept(a)
        PROVE  OutstandingExact'
    <2>1. a \in BusyAccepts /\ BusyAccepts' = BusyAccepts \ {a} /\ BusyReads' = BusyReads
      BY <1>5, Zenon DEF ReleaseAccept, TypeOK, BusyAccepts, BusyReads
    <2>2. Cardinality(BusyAccepts') = Cardinality(BusyAccepts) - 1
      BY <1>0, <2>1, Zenon DEF Sized
    <2>3. QED
      BY <1>0, <1>5, <2>1, <2>2 DEF ReleaseAccept, OutstandingExact
  <1>6. ASSUME NEW a \in Accepts, PostRead(a) \/ PostReadFails(a)
        PROVE  OutstandingExact'
    <2>1. PICK s \in Sessions : serving[a] = s
      BY <1>6, Zenon DEF PostRead, PostReadFails, Shapes, AcceptShape
    <2>2. BusyAccepts' = BusyAccepts
      BY <1>6, Zenon DEF PostRead, PostReadFails, TypeOK, BusyAccepts
    <2>3. s \notin BusyReads
      BY <1>6, <2>1, Zenon DEF PostRead, PostReadFails, Shapes, AcceptShape, BusyReads
    <2>4. CASE PostRead(a)
      <3>1. BusyReads' = BusyReads \cup {s}
        BY <2>1, <2>4, Zenon DEF PostRead, TypeOK, BusyReads
      <3>2. Cardinality(BusyReads') = Cardinality(BusyReads) + 1
        BY <1>0, <2>3, <3>1, Zenon DEF Sized
      <3>3. QED
        BY <1>0, <2>2, <2>4, <3>2 DEF PostRead, OutstandingExact
    <2>5. CASE PostReadFails(a)
      BY <2>1, <2>3, <2>5, <1>1, <2>2, Zenon DEF PostReadFails, TypeOK, BusyReads
    <2>6. QED
      BY <1>6, <2>4, <2>5
  <1>7. ASSUME NEW s \in Sessions, ReadMoves(s) \/ Calls(s)
        PROVE  OutstandingExact'
    <2>1. BusyReads' = BusyReads
      BY <1>7, Zenon DEF ReadMoves, Calls, Reading, TypeOK, BusyReads
    <2>2. UNCHANGED <<accept, outstanding_operations>>
      BY <1>7, Zenon DEF ReadMoves, Calls, acceptVars
    <2>3. QED
      BY <1>1, <2>1, <2>2 DEF BusyAccepts
  <1>8. ASSUME NEW s \in Sessions, ReleaseRead(s)
        PROVE  OutstandingExact'
    <2>1. s \in BusyReads /\ BusyReads' = BusyReads \ {s} /\ BusyAccepts' = BusyAccepts
      BY <1>8, Zenon DEF ReleaseRead, TypeOK, BusyAccepts, BusyReads, acceptVars
    <2>2. Cardinality(BusyReads') = Cardinality(BusyReads) - 1
      BY <1>0, <2>1, Zenon DEF Sized
    <2>3. QED
      BY <1>0, <1>8, <2>1, <2>2 DEF ReleaseRead, OutstandingExact
  <1>9. ASSUME NEW s \in Sessions, Remove(s) \/ CloseSocket(s) \/ InvokeDisconnect(s)
        PROVE  OutstandingExact'
    BY <1>1, <1>9, Zenon
    DEF Remove, CloseSocket, InvokeDisconnect, acceptVars, BusyAccepts, BusyReads
  <1>10. QED
    BY <1>2, <1>3, <1>4, <1>5, <1>6, <1>7, <1>8, <1>9, Classes, Zenon

\* Counting modulo its width, a step up or down.
LEMMA CountUpAndDown ==
    ASSUME NEW M \in Nat \ {0}, NEW in \in Nat, NEW out \in Nat
    PROVE  /\ in + 1 < M /\ out < M =>
                 (((in + M - out) % M) + 1) % M = (in + 1 + M - out) % M
           /\ in < M /\ out + 1 < M =>
                 (((in + M - out) % M) + M - 1) % M = (in + M - (out + 1)) % M
           /\ in < M /\ out < M /\ in >= out => (in + M - out) % M = in - out
  OBVIOUS

\* active_connections counts each connection in, and out, once.
LEMMA ActiveStep ==
    ASSUME TypeOK, Shapes, TypeOK', Shapes', ActiveExact, Sized(Sessions), [Next]_vars
    PROVE  ActiveExact'
  <1>0. connects \in [Sessions -> Nat] /\ disconnects \in [Sessions -> Nat]
    BY Zenon DEF TypeOK
  <1>1. /\ CountedIn = {s \in Sessions : connects[s] = 1}
        /\ CountedOut = {s \in Sessions : disconnects[s] = 1}
    BY DEF Shapes, CallbackShape, CountedIn, CountedOut, Created, Uncounted
  <1>2. /\ CountedIn' = {s \in Sessions : connects'[s] = 1}
        /\ CountedOut' = {s \in Sessions : disconnects'[s] = 1}
    BY DEF Shapes, CallbackShape, CountedIn, CountedOut, Created, Uncounted
  <1>3. /\ Cardinality(CountedIn) \in Nat /\ Cardinality(CountedOut) \in Nat
        /\ Cardinality(CountedIn') \in Nat /\ Cardinality(CountedOut') \in Nat
        /\ Cardinality(CountedIn) < CountModulus /\ Cardinality(CountedOut) < CountModulus
        /\ Cardinality(CountedIn') < CountModulus /\ Cardinality(CountedOut') < CountModulus
    <2>1. ASSUME NEW S \in SUBSET Sessions
          PROVE  Cardinality(S) \in Nat /\ Cardinality(S) < CountModulus
      <3>1. Cardinality(S) \in Nat /\ Cardinality(Sessions) \in Nat
            /\ Cardinality(S) <= Cardinality(Sessions)
        BY Zenon DEF Sized
      <3>2. QED
        BY <3>1, LifecycleAssumption
    <2>2. QED
      BY <1>1, <1>2, <2>1, Zenon
  <1>4. ASSUME UNCHANGED <<connects, disconnects, active>>
        PROVE  ActiveExact'
    BY <1>1, <1>2, <1>4, Zenon DEF ActiveExact
  <1>5. ASSUME NEW a \in Accepts, InvokeConnect(a)
        PROVE  ActiveExact'
    <2>1. PICK s \in Sessions : serving[a] = s
      BY <1>5, Zenon DEF InvokeConnect, Shapes, AcceptShape
    <2>2. connects[s] = 0 /\ connects' = [connects EXCEPT ![s] = @ + 1]
          /\ disconnects' = disconnects
      BY <1>5, <2>1, Zenon
      DEF InvokeConnect, Shapes, CallbackShape, Uncounted, disconnectVars
    <2>3. /\ s \notin CountedIn /\ CountedIn' = CountedIn \cup {s}
          /\ CountedOut' = CountedOut
      BY <1>0, <2>2, <1>1, <1>2
    <2>4. Cardinality(CountedIn') = Cardinality(CountedIn) + 1
      BY <1>1, <2>3, Zenon DEF Sized
    <2>5. active' = (active + 1) % CountModulus
      BY <1>5 DEF InvokeConnect
    <2>6. ASSUME NEW in \in Nat, NEW out \in Nat, in + 1 < CountModulus, out < CountModulus
          PROVE  (((in + CountModulus - out) % CountModulus) + 1) % CountModulus
                     = (in + 1 + CountModulus - out) % CountModulus
      BY <2>6, CountUpAndDown, LifecycleAssumption, Zenon
    <2>7. active' = (Cardinality(CountedIn) + 1 + CountModulus - Cardinality(CountedOut))
                        % CountModulus
      BY <1>3, <2>4, <2>5, <2>6, Zenon DEF ActiveExact
    <2>8. QED
      BY <2>3, <2>4, <2>7, Zenon DEF ActiveExact
  <1>6. ASSUME NEW s \in Sessions, InvokeDisconnect(s)
        PROVE  ActiveExact'
    <2>1. disconnects[s] = 0 /\ disconnects' = [disconnects EXCEPT ![s] = @ + 1]
          /\ connects' = connects
      BY <1>6, Zenon DEF InvokeDisconnect, Shapes, CallbackShape, historyVars
    <2>2. /\ s \notin CountedOut /\ CountedOut' = CountedOut \cup {s}
          /\ CountedIn' = CountedIn
      BY <1>0, <2>1, <1>1, <1>2
    <2>3. Cardinality(CountedOut') = Cardinality(CountedOut) + 1
      BY <1>1, <2>2, Zenon DEF Sized
    <2>4. active' = (active + CountModulus - 1) % CountModulus
      BY <1>6 DEF InvokeDisconnect
    <2>5. ASSUME NEW in \in Nat, NEW out \in Nat, in < CountModulus, out + 1 < CountModulus
          PROVE  (((in + CountModulus - out) % CountModulus) + CountModulus - 1) % CountModulus
                     = (in + CountModulus - (out + 1)) % CountModulus
      BY <2>5, CountUpAndDown, LifecycleAssumption, Zenon
    <2>6. active' = (Cardinality(CountedIn) + CountModulus - (Cardinality(CountedOut) + 1))
                        % CountModulus
      BY <1>3, <2>3, <2>4, <2>5, Zenon DEF ActiveExact
    <2>7. QED
      BY <2>2, <2>3, <2>6, Zenon DEF ActiveExact
  <1>7. CASE ControlOnly
    BY <1>4, <1>7 DEF ControlOnly, disconnectVars, historyVars
  <1>8. ASSUME NEW a \in Accepts,
               \/ AcceptMoves(a) \/ PostNewAccept(a)
               \/ \E s \in Sessions : Insert(a, s)
               \/ PostRead(a) \/ PostReadFails(a) \/ Rearm(a) \/ ReleaseAccept(a)
        PROVE  ActiveExact'
    BY <1>4, <1>8, Zenon
    DEF AcceptMoves, PostNewAccept, Insert, PostRead, PostReadFails, CallDisconnect,
        Rearm, ReleaseAccept, disconnectVars, historyVars
  <1>9. ASSUME NEW s \in Sessions,
               \/ ReadMoves(s) \/ Calls(s) \/ ReleaseRead(s) \/ Remove(s) \/ CloseSocket(s)
        PROVE  ActiveExact'
    BY <1>4, <1>9, Zenon
    DEF ReadMoves, Calls, CallDisconnect, ReleaseRead, Remove, CloseSocket,
        disconnectVars, historyVars
  <1>10. QED
    BY <1>5, <1>6, <1>7, <1>8, <1>9, Classes, Zenon

\* A session exists from Insert on, and is open until Disconnect closes its
\* socket.
LEMMA CreatedStep ==
    ASSUME TypeOK, Shapes, [Next]_vars
    PROVE  \/ Created' = Created /\ Open' \subseteq Open
           \/ \E a \in Accepts, s \in Sessions :
                  /\ Insert(a, s) /\ s \notin Created
                  /\ Created' = Created \cup {s} /\ Open' = Open \cup {s}
  <1>0. /\ disconnect \in [Sessions -> {"no", "started", "removed", "closed", "done"}]
        /\ DOMAIN read = Sessions
        /\ read \in [Sessions -> {"none", "kernel", "data", "failed", "process",
                                  "again", "post", "close", "release", "done"}]
    BY Zenon DEF TypeOK
  <1>1. ASSUME \A t \in Sessions :
                   /\ Fresh(t)' <=> Fresh(t)
                   /\ disconnect[t] \in {"closed", "done"} =>
                          disconnect'[t] \in {"closed", "done"}
        PROVE  Created' = Created /\ Open' \subseteq Open
    BY <1>1 DEF Created, Open
  <1>2. CASE UNCHANGED <<registry, disconnect, read>>
    BY <1>1, <1>2 DEF Fresh
  <1>3. ASSUME NEW a \in Accepts,
               \/ AcceptMoves(a) \/ PostNewAccept(a) \/ InvokeConnect(a)
               \/ Rearm(a) \/ ReleaseAccept(a)
        PROVE  UNCHANGED <<registry, disconnect, read>>
    BY <1>3, Zenon
    DEF AcceptMoves, PostNewAccept, InvokeConnect, Rearm, ReleaseAccept, disconnectVars
  <1>4. CASE ControlOnly
    BY <1>2, <1>4, Zenon DEF ControlOnly, disconnectVars
  <1>5. ASSUME NEW a \in Accepts, NEW s \in Sessions, Insert(a, s)
        PROVE  /\ s \notin Created
               /\ Created' = Created \cup {s} /\ Open' = Open \cup {s}
    BY <1>5, Zenon DEF Insert, Created, Open, Fresh, disconnectVars
  <1>6. ASSUME NEW a \in Accepts, PostRead(a) \/ PostReadFails(a)
        PROVE  Created' = Created /\ Open' \subseteq Open
    BY <1>6, <1>0, <1>1
    DEF PostRead, PostReadFails, Shapes, AcceptShape, CallDisconnect, disconnectVars,
        Fresh
  <1>7. ASSUME NEW s \in Sessions, ReadMoves(s) \/ ReleaseRead(s)
        PROVE  Created' = Created /\ Open' \subseteq Open
    BY <1>0, <1>7, <1>1 DEF ReadMoves, Reading, ReleaseRead, disconnectVars, Fresh
  <1>8. ASSUME NEW s \in Sessions, Calls(s)
        PROVE  Created' = Created /\ Open' \subseteq Open
    BY <1>8, <1>0, <1>1, ZenonT(30) DEF Calls, Fresh, Reading, Shapes, RegistryShape, CallDisconnect
  <1>9. ASSUME NEW s \in Sessions, Remove(s) \/ CloseSocket(s) \/ InvokeDisconnect(s)
        PROVE  Created' = Created /\ Open' \subseteq Open
    BY <1>0, <1>9, <1>1 DEF Remove, CloseSocket, InvokeDisconnect, Fresh
  <1>10. QED
    BY <1>2, <1>3, <1>4, <1>5, <1>6, <1>7, <1>8, <1>9, Classes, Zenon

\* A load of active_connections that lets a connection in.
LetsIn(a) ==
    /\ accept[a] = "admit" /\ active < MaxConnections
    /\ accept' = [accept EXCEPT ![a] = "insert"]
    /\ UNCHANGED <<connects, posted>>

\* What the steps do to the accepts that are between the load and the count.
LEMMA AcceptSetsStep ==
    ASSUME TypeOK, Shapes, [Next]_vars
    PROVE  \/ /\ BusyAccepts' \subseteq BusyAccepts /\ Counting' = Counting
              /\ Inserting' \subseteq Inserting
              /\ connects' = connects /\ (posted' = posted \/ Start)
           \/ \E a \in Accepts :
                  \/ PostNewAccept(a) \/ (\E s \in Sessions : Insert(a, s))
                  \/ InvokeConnect(a) \/ LetsIn(a)
  <1> DEFINE Calm == /\ BusyAccepts' \subseteq BusyAccepts /\ Counting' = Counting
                     /\ Inserting' \subseteq Inserting
                     /\ connects' = connects /\ (posted' = posted \/ Start)
  <1>0. accept \in [Accepts -> {"none", "kernel", "connected", "failed", "admit", "insert",
                                "count", "read", "rearm", "post"}]
    BY Zenon DEF TypeOK
  <1>1. ASSUME UNCHANGED <<accept, connects>>, posted' = posted \/ Start
        PROVE  Calm
    BY <1>1 DEF BusyAccepts, Counting, Inserting
  <1>2. CASE ControlOnly
    <2>1. posted' = posted \/ Start
      BY <1>2, Zenon
      DEF ControlOnly, Initialize, StartFails, Started, Stop, JoinTimer, CloseListen,
          TakeSnapshot, StopWait, Drained, JoinWorkers, TimerExits, PostNewAcceptFails,
          vars, controlVars
    <2>2. QED
      BY <1>1, <1>2, <2>1, Zenon DEF ControlOnly, acceptVars, historyVars
  <1>3. ASSUME NEW a \in Accepts, AcceptMoves(a)
        PROVE  Calm \/ LetsIn(a)
    BY <1>3, <1>0, Zenon
    DEF AcceptMoves, controlVars, historyVars, LetsIn, Early, BusyAccepts, Counting,
        Inserting
  <1>4. ASSUME NEW a \in Accepts,
               PostRead(a) \/ PostReadFails(a) \/ Rearm(a) \/ ReleaseAccept(a)
        PROVE  Calm
    BY <1>0, <1>4, Zenon
    DEF PostRead, PostReadFails, Rearm, ReleaseAccept, controlVars, historyVars,
        BusyAccepts, Counting, Inserting
  <1>5. ASSUME NEW s \in Sessions,
               \/ ReadMoves(s) \/ Calls(s) \/ ReleaseRead(s)
               \/ Remove(s) \/ CloseSocket(s) \/ InvokeDisconnect(s)
        PROVE  Calm
    BY <1>1, <1>5, Zenon
    DEF ReadMoves, Calls, ReleaseRead, Remove, CloseSocket, InvokeDisconnect,
        controlVars, acceptVars, historyVars
  <1>6. QED
    BY <1>2, <1>3, <1>4, <1>5, Classes, Zenon

\* The sets that are counted are parts of the finite sets of accepts and sessions.
LEMMA CountsAreNat ==
    ASSUME Sized(Accepts), Sized(Sessions)
    PROVE  /\ BusyAccepts \in SUBSET Accepts /\ Counting \in SUBSET BusyAccepts
           /\ Inserting \in SUBSET BusyAccepts
           /\ Created \in SUBSET Sessions /\ CountedIn \in SUBSET Sessions
           /\ CountedOut \in SUBSET Sessions /\ Open \in SUBSET Sessions
           /\ Cardinality(BusyAccepts) \in Nat /\ Cardinality(Counting) \in Nat
           /\ Cardinality(Inserting) \in Nat /\ Cardinality(Created) \in Nat
           /\ Cardinality(CountedIn) \in Nat /\ Cardinality(CountedOut) \in Nat
           /\ Cardinality(Open) \in Nat
  <1>1. /\ BusyAccepts \in SUBSET Accepts /\ Counting \in SUBSET BusyAccepts
        /\ Inserting \in SUBSET BusyAccepts
        /\ Created \in SUBSET Sessions /\ CountedIn \in SUBSET Sessions
        /\ CountedOut \in SUBSET Sessions /\ Open \in SUBSET Sessions
    BY DEF BusyAccepts, Counting, Inserting, Created, CountedIn, CountedOut, Open
  <1>2. QED
    BY <1>1, Zenon DEF Sized

\* A worker that lets a connection in saw every session counted, or knows the
\* worker that has still to count it.
LEMMA LetIn ==
    ASSUME TypeOK, Shapes, ActiveExact, Admitted, Sized(Accepts), Sized(Sessions),
           NEW a \in Accepts, accept[a] = "admit", active < MaxConnections
    PROVE  Cardinality(Open) + Cardinality(Inserting) + 1 < MaxConnections + posted
  <1>1. /\ posted \in Nat /\ MaxConnections \in Nat /\ CountModulus \in Nat \ {0}
        /\ Cardinality(Sessions) \in Nat
        /\ CountModulus > Cardinality(Sessions) + MaxConnections
    BY LifecycleAssumption, Zenon DEF Sized, TypeOK
  <1>2. Cardinality(CountedIn) <= Cardinality(Sessions)
        /\ Cardinality(CountedOut) <= Cardinality(Sessions)
    BY CountsAreNat, Zenon DEF Sized
  <1>3. Cardinality(CountedIn) - Cardinality(CountedOut) < MaxConnections
    <2>1. CASE Cardinality(CountedIn) >= Cardinality(CountedOut)
      <3>1. active = Cardinality(CountedIn) - Cardinality(CountedOut)
        <4>1. ASSUME NEW in \in Nat, NEW out \in Nat, in < CountModulus, in >= out
              PROVE  (in + CountModulus - out) % CountModulus = in - out
          BY <1>1, <4>1, CountUpAndDown
        <4>2. QED
          BY <1>1, <1>2, <2>1, <4>1, CountsAreNat DEF ActiveExact
      <3>2. QED
        BY <3>1
    <2>2. CASE Cardinality(CountedIn) < Cardinality(CountedOut)
      BY <1>1, <2>2, CountsAreNat
    <2>3. QED
      BY <2>1, <2>2, CountsAreNat
  <1>4. Cardinality(Open) <= Cardinality(Created) - Cardinality(CountedOut)
    <2>1. CountedOut \subseteq Created /\ Open \subseteq Created \ CountedOut
      BY DEF CountedOut, Created, Open, Fresh
    <2>2. Cardinality(Created \ CountedOut) = Cardinality(Created) - Cardinality(CountedOut)
      BY <2>1, CountsAreNat, ZenonT(30) DEF Sized
    <2>3. Cardinality(Open) <= Cardinality(Created \ CountedOut)
      BY <2>1, CountsAreNat, Zenon DEF Sized
    <2>4. QED
      BY <2>2, <2>3
  <1>5. Cardinality(Counting) + Cardinality(Inserting) + 1 <= Cardinality(BusyAccepts)
    <2>1. /\ Inserting \cup {a} \subseteq BusyAccepts \ Counting
          /\ a \notin Inserting
      BY DEF Inserting, Counting, BusyAccepts
    <2>2. Cardinality(BusyAccepts \ Counting) = Cardinality(BusyAccepts) - Cardinality(Counting)
      BY CountsAreNat, Zenon DEF Sized
    <2>3. Cardinality(Inserting \cup {a}) = Cardinality(Inserting) + 1
      BY <2>1, CountsAreNat, Zenon DEF Sized
    <2>4. Cardinality(Inserting \cup {a}) <= Cardinality(BusyAccepts \ Counting)
      BY <2>1, CountsAreNat, Zenon DEF Sized
    <2>5. QED
      BY <2>2, <2>3, <2>4, CountsAreNat
  <1>6. /\ Cardinality(BusyAccepts) <= posted
        /\ Cardinality(Created) = Cardinality(CountedIn) + Cardinality(Counting)
    BY DEF Admitted
  <1>7. QED
    BY <1>1, <1>3, <1>4, <1>5, <1>6, CountsAreNat

\* HandleAccept lets in no more than Admitted says.
LEMMA AdmittedStep ==
    ASSUME TypeOK, Shapes, TypeOK', Shapes', ActiveExact, Admitted,
           Sized(Accepts), Sized(Sessions), [Next]_vars
    PROVE  Admitted'
  <1>1. /\ CountedIn = {s \in Sessions : connects[s] = 1}
        /\ CountedIn' = {s \in Sessions : connects'[s] = 1}
    BY DEF Shapes, CallbackShape, CountedIn, Created, Uncounted
  <1>2. /\ posted \in Nat /\ posted' \in Nat /\ MaxConnections \in Nat
        /\ accept \in [Accepts -> {"none", "kernel", "connected", "failed", "admit", "insert",
                                   "count", "read", "rearm", "post"}]
        /\ connects \in [Sessions -> Nat]
    BY LifecycleAssumption, Zenon DEF TypeOK
  <1>3. /\ Cardinality(BusyAccepts) <= posted
        /\ Cardinality(Created) = Cardinality(CountedIn) + Cardinality(Counting)
        /\ Open # {} \/ Inserting # {} =>
               Cardinality(Open) + Cardinality(Inserting) < MaxConnections + posted
    BY DEF Admitted
  <1>4. /\ BusyAccepts' \in SUBSET Accepts /\ Inserting' \in SUBSET Accepts
        /\ Open' \in SUBSET Sessions
        /\ Cardinality(BusyAccepts') \in Nat /\ Cardinality(Inserting') \in Nat
        /\ Cardinality(Open') \in Nat
    BY Zenon DEF BusyAccepts, Inserting, Open, Created, Sized
  <1>5. ASSUME Open' \subseteq Open, Inserting' \subseteq Inserting, posted <= posted'
        PROVE  Open' # {} \/ Inserting' # {} =>
                   Cardinality(Open') + Cardinality(Inserting') < MaxConnections + posted'
    <2>1. Cardinality(Open') <= Cardinality(Open)
      BY <1>5, CountsAreNat, Zenon DEF Sized
    <2>2. Inserting \in SUBSET Accepts
      BY CountsAreNat
    <2>3. Cardinality(Inserting') <= Cardinality(Inserting)
      BY <1>5, <2>2, Zenon DEF Sized
    <2>4. QED
      BY <1>2, <1>3, <1>4, <1>5, <2>1, <2>3, CountsAreNat
  <1>6. ASSUME NEW a \in Accepts, NEW s \in Sessions, Insert(a, s)
        PROVE  Admitted'
    <2>0. s \notin Created /\ Created' = Created \cup {s} /\ Open' = Open \cup {s}
      BY <1>6, Zenon DEF Insert, Created, Open, Fresh, disconnectVars
    <2>1. /\ BusyAccepts' = BusyAccepts
          /\ a \notin Counting /\ Counting' = Counting \cup {a}
          /\ a \in Inserting /\ Inserting' = Inserting \ {a}
      BY <1>2, <1>6, Zenon DEF Insert, BusyAccepts, Counting, Inserting
    <2>2. CountedIn' = CountedIn /\ posted' = posted
      BY <1>1, <1>6, Zenon DEF Insert, controlVars
    <2>3. s \notin Open
      BY <2>0 DEF Open
    <2>4. Inserting \in SUBSET Accepts /\ Counting \in SUBSET Accepts
      BY CountsAreNat
    <2>5. /\ Cardinality(Counting') = Cardinality(Counting) + 1
          /\ Cardinality(Inserting') = Cardinality(Inserting) - 1
      BY <2>1, <2>4 DEF Sized
    <2>6. /\ Cardinality(Created') = Cardinality(Created) + 1
          /\ Cardinality(Open') = Cardinality(Open) + 1
      BY <2>0, <2>3, CountsAreNat, Zenon DEF Sized
    <2>7. Cardinality(Open') + Cardinality(Inserting') < MaxConnections + posted'
      BY <1>2, <1>3, <2>1, <2>2, <2>5, <2>6, CountsAreNat
    <2>8. Cardinality(Created') = Cardinality(CountedIn') + Cardinality(Counting')
      BY <1>3, <2>2, <2>5, <2>6, CountsAreNat
    <2>9. QED
      BY <1>3, <2>1, <2>2, <2>7, <2>8, Zenon DEF Admitted
  <1>7. ASSUME NEW a \in Accepts, InvokeConnect(a), Created' = Created, Open' \subseteq Open
        PROVE  Admitted'
    <2>1. PICK s \in Sessions : serving[a] = s
      BY <1>7, Zenon DEF InvokeConnect, Shapes, AcceptShape
    <2>2. connects[s] = 0 /\ connects' = [connects EXCEPT ![s] = @ + 1] /\ posted' = posted
      BY <1>7, <2>1, Zenon DEF InvokeConnect, Shapes, CallbackShape, Uncounted, controlVars
    <2>3. connects'[s] = 1 /\ \A t \in Sessions : t # s => connects'[t] = connects[t]
      BY <1>2, <2>2
    <2>4. s \notin CountedIn /\ CountedIn' = CountedIn \cup {s}
      BY <1>1, <2>2, <2>3
    <2>5. /\ BusyAccepts' = BusyAccepts /\ Inserting' = Inserting
          /\ a \in Counting /\ Counting' = Counting \ {a}
      BY <1>2, <1>7, Zenon DEF InvokeConnect, BusyAccepts, Counting, Inserting
    <2>6. Cardinality(CountedIn') = Cardinality(CountedIn) + 1
      BY <2>4, CountsAreNat, Zenon DEF Sized
    <2>7. Counting \in SUBSET Accepts
      BY CountsAreNat
    <2>8. Cardinality(Counting') = Cardinality(Counting) - 1
      BY <2>5, <2>7, Zenon DEF Sized
    <2>9. Cardinality(Created') = Cardinality(CountedIn') + Cardinality(Counting')
      BY <1>3, <1>7, <2>6, <2>8, CountsAreNat
    <2>10. posted <= posted' /\ Inserting' \subseteq Inserting
      BY <1>2, <2>2, <2>5
    <2>11. QED
      BY <1>3, <1>5, <1>7, <2>2, <2>5, <2>9, <2>10, Zenon DEF Admitted
  <1>8. ASSUME NEW a \in Accepts, LetsIn(a), Created' = Created, Open' \subseteq Open
        PROVE  Admitted'
    <2>1. /\ BusyAccepts' = BusyAccepts /\ Counting' = Counting
          /\ a \notin Inserting /\ Inserting' = Inserting \cup {a}
      BY <1>2, <1>8, Zenon DEF LetsIn, BusyAccepts, Counting, Inserting
    <2>2. CountedIn' = CountedIn /\ posted' = posted
      BY <1>1, <1>8 DEF LetsIn
    <2>3. Inserting \in SUBSET Accepts
      BY CountsAreNat
    <2>4. Cardinality(Inserting') = Cardinality(Inserting) + 1
      BY <2>1, <2>3, Zenon DEF Sized
    <2>5. Cardinality(Open') <= Cardinality(Open)
      BY <1>8, CountsAreNat, Zenon DEF Sized
    <2>6. Cardinality(Open) + Cardinality(Inserting) + 1 < MaxConnections + posted
      BY <1>8, LetIn, Zenon DEF LetsIn
    <2>7. Cardinality(Open') + Cardinality(Inserting') < MaxConnections + posted'
      BY <1>2, <1>4, <2>2, <2>4, <2>5, <2>6, CountsAreNat
    <2>8. QED
      BY <1>3, <1>8, <2>1, <2>2, <2>7, Zenon DEF Admitted
  <1>9. ASSUME NEW a \in Accepts, PostNewAccept(a), Created' = Created, Open' \subseteq Open
        PROVE  Admitted'
    <2>1. /\ a \notin BusyAccepts /\ BusyAccepts' = BusyAccepts \cup {a}
          /\ Counting' = Counting /\ Inserting' = Inserting
      BY <1>2, <1>9
      DEF PostNewAccept, Shapes, StopShape, BusyAccepts, Counting, Inserting
    <2>2. CountedIn' = CountedIn /\ posted' = posted + 1
      BY <1>1, <1>9, Zenon DEF PostNewAccept, historyVars
    <2>3. Cardinality(BusyAccepts') = Cardinality(BusyAccepts) + 1
      BY <2>1, CountsAreNat, Zenon DEF Sized
    <2>4. Cardinality(BusyAccepts') <= posted' /\ posted <= posted'
      BY <1>2, <1>3, <2>2, <2>3, CountsAreNat
    <2>5. QED
      BY <1>3, <1>5, <1>9, <2>1, <2>2, <2>4, Zenon DEF Admitted
  <1>10. ASSUME BusyAccepts' \subseteq BusyAccepts, Counting' = Counting,
                Inserting' \subseteq Inserting, connects' = connects,
                posted' = posted \/ Start,
                Created' = Created, Open' \subseteq Open
         PROVE  Admitted'
    <2>1. CountedIn' = CountedIn
      BY <1>1, <1>10
    <2>2. CASE posted' = posted
      <3>1. Cardinality(BusyAccepts') <= Cardinality(BusyAccepts)
        BY <1>10, CountsAreNat, Zenon DEF Sized
      <3>2. Cardinality(BusyAccepts') <= posted' /\ posted <= posted'
        BY <1>2, <1>3, <1>4, <2>2, <3>1, CountsAreNat
      <3>3. QED
        BY <1>3, <1>5, <1>10, <2>1, <3>2, Zenon DEF Admitted
    <2>3. CASE Start
      <3>1. BusyAccepts = {} /\ registry = {}
            /\ \A s \in Sessions : disconnect[s] \in {"no", "done"}
        BY <2>3, Zenon DEF Start, Shapes, StopShape
      <3>2. Open = {}
        BY <3>1, Zenon DEF Open, Created, Fresh, Shapes, RegistryShape
      <3>3. BusyAccepts' = {} /\ Inserting' = {} /\ Open' = {}
        BY <1>10, <3>1, <3>2, CountsAreNat, Zenon
      <3>4. Cardinality(BusyAccepts') = 0 /\ posted' = 0
        BY <1>4, <2>3, <3>3, Zenon DEF Sized, Start
      <3>5. QED
        BY <1>3, <1>10, <2>1, <3>3, <3>4 DEF Admitted
    <2>4. QED
      BY <1>10, <2>2, <2>3
  <1>11. QED
    BY <1>6, <1>7, <1>8, <1>9, <1>10, CreatedStep, AcceptSetsStep, Zenon

-----------------------------------------------------------------------------
(* The inductive invariant.                                                *)

\* Every step of Start, Stop, a worker, Disconnect or the timer keeps the shapes.
LEMMA ShapesStep ==
    ASSUME TypeOK, Shapes, OutstandingExact, Sized(Accepts), Sized(Sessions), [Next]_vars
    PROVE  Shapes'
  <1>1. outstanding_operations = 0 => BusyAccepts = {} /\ BusyReads = {}
    <2>1. BusyAccepts \in SUBSET Accepts /\ BusyReads \in SUBSET Sessions
      BY DEF BusyAccepts, BusyReads
    <2>2. /\ Cardinality(BusyAccepts) \in Nat /\ Cardinality(BusyReads) \in Nat
          /\ Cardinality(BusyAccepts) = 0 <=> BusyAccepts = {}
          /\ Cardinality(BusyReads) = 0 <=> BusyReads = {}
      BY <2>1, Zenon DEF Sized
    <2>3. QED
      BY <2>2 DEF OutstandingExact
  <1>2. QED
    BY <1>1, Classes, ControlStep, AcceptMovesStep, ReadMovesStep, CallsStep,
       ReleaseReadStep, DisconnectStepStep, AcceptEndsStep, InsertStep,
       InvokeConnectStep, PostReadStep, Zenon
    DEF DisconnectStep

\* The invariant is inductive: every step of the lifecycle keeps it.
LEMMA LifecycleStep ==
    ASSUME LifecycleInv, Sized(Accepts), Sized(Sessions), [Next]_vars
    PROVE  LifecycleInv'
  <1>1. TypeOK /\ Shapes /\ ActiveExact /\ OutstandingExact /\ Admitted
    BY DEF LifecycleInv
  <1>2. TypeOK'
    BY <1>1, TypesStep DEF Shapes
  <1>3. Shapes'
    BY <1>1, ShapesStep
  <1>4. QED
    BY <1>1, <1>2, <1>3, OutstandingStep, ActiveStep, AdmittedStep, Zenon DEF LifecycleInv

\* A server that was constructed and not started satisfies the invariant.
LEMMA LifecycleInit ==
    ASSUME Init, Sized(Accepts), Sized(Sessions)
    PROVE  LifecycleInv
  <1>1. TypeOK
    <2>1. 0 \in 0 .. CountModulus - 1
      BY Modulus
    <2>2. ControlTypes
      BY Zenon DEF Init, ControlTypes
    <2>3. SessionTypes
      BY <2>1 DEF Init, SessionTypes
    <2>4. QED
      BY <2>2, <2>3, Zenon DEF ControlTypes, SessionTypes, TypeOK
  <1>2. Shapes
    <2>1. \A s \in Sessions : Fresh(s)
      BY DEF Init, Fresh
    <2>2. AcceptShape
      BY LifecycleAssumption DEF Init, AcceptShape
    <2>3. RegistryShape /\ Tended
      BY DEF Init, RegistryShape, Tended
    <2>4. CallbackShape
      BY <2>1 DEF Init, CallbackShape
    <2>5. DisconnectShape
      BY LifecycleAssumption
      DEF Init, DisconnectShape, TimerReturned, StopReturned, Returned
    <2>6. StopShape
      BY DEF Init, StopShape, BusyAccepts, BusyReads
    <2>7. QED
      BY <2>2, <2>3, <2>4, <2>5, <2>6 DEF Shapes
  <1>3. /\ BusyAccepts = {} /\ BusyReads = {} /\ Created = {} /\ CountedIn = {}
        /\ CountedOut = {} /\ Open = {} /\ Inserting = {} /\ Counting = {}
    BY DEF Init, BusyAccepts, BusyReads, Created, CountedIn, CountedOut, Open, Inserting,
           Counting, Fresh
  <1>4. Cardinality({}) = 0
    BY DEF Sized
  <1>5. OutstandingExact
    BY <1>3, <1>4 DEF Init, OutstandingExact
  <1>6. ActiveExact
    BY LifecycleAssumption, <1>3, <1>4 DEF Init, ActiveExact
  <1>7. Admitted
    BY <1>3, <1>4 DEF Init, Admitted
  <1>8. QED
    BY <1>1, <1>2, <1>5, <1>6, <1>7 DEF LifecycleInv

-----------------------------------------------------------------------------
(* The theorems.                                                           *)

Fin == INSTANCE FiniteSetTheorems

\* Finite sets of accepts and sessions have the cardinalities the counters need.
LEMMA SizedFinite ==
    ASSUME NEW U, IsFiniteSet(U)
    PROVE  Sized(U)
  <1>1. \A S : Fin!IsFiniteSet(S) = IsFiniteSet(S) /\ Fin!Cardinality(S) = Cardinality(S)
    BY DEF Fin!IsFiniteSet, Fin!Cardinality, IsFiniteSet, Cardinality
  <1>2. SUFFICES ASSUME NEW S \in SUBSET U
                 PROVE  /\ Cardinality(S) \in Nat
                        /\ Cardinality(S) = 0 <=> S = {}
                        /\ \A x \in U : x \notin S => Cardinality(S \cup {x}) = Cardinality(S) + 1
                        /\ \A x \in S : Cardinality(S \ {x}) = Cardinality(S) - 1
                        /\ \A T \in SUBSET S :
                               /\ Cardinality(T) <= Cardinality(S)
                               /\ Cardinality(S \ T) = Cardinality(S) - Cardinality(T)
    BY Zenon DEF Sized
  <1>3. IsFiniteSet(S)
    BY <1>1, Fin!FS_Subset
  <1>4. Cardinality(S) \in Nat
    BY <1>1, <1>3, Fin!FS_CardinalityType
  <1>5. Cardinality(S) = 0 <=> S = {}
    BY <1>1, <1>3, Fin!FS_EmptySet
  <1>6. \A x \in U : x \notin S => Cardinality(S \cup {x}) = Cardinality(S) + 1
    BY <1>1, <1>3, Fin!FS_AddElement, Zenon
  <1>7. \A x \in S : Cardinality(S \ {x}) = Cardinality(S) - 1
    BY <1>1, <1>3, Fin!FS_RemoveElement
  <1>8. ASSUME NEW T \in SUBSET S
        PROVE  /\ Cardinality(T) <= Cardinality(S)
               /\ Cardinality(S \ T) = Cardinality(S) - Cardinality(T)
    <2>1. Cardinality(T) <= Cardinality(S)
      BY <1>1, <1>3, Fin!FS_Subset
    <2>2. S \cap T = T
      OBVIOUS
    <2>3. QED
      BY <1>1, <1>3, <2>1, <2>2, Fin!FS_Difference
  <1>9. QED
    BY <1>4, <1>5, <1>6, <1>7, <1>8

\* The inductive invariant holds in every behaviour of Initialize, Start, Stop,
\* HandleAccept, HandleRead, Disconnect and the timer.
THEOREM LifecycleCorrect == Spec => []LifecycleInv
  <1>1. Sized(Accepts) /\ Sized(Sessions)
    BY SizedFinite, LifecycleAssumption
  <1>2. Init => LifecycleInv
    BY <1>1, LifecycleInit
  <1>3. LifecycleInv /\ [Next]_vars => LifecycleInv'
    BY <1>1, LifecycleStep
  <1>4. QED
    BY <1>2, <1>3, PTL DEF Spec

\* active_connections and outstanding_operations are exact, for any number of
\* accepts and sessions.
THEOREM CountersAreExact == Spec => []CountersExact
  <1>1. LifecycleInv => CountersExact
    BY DEF LifecycleInv, CountersExact
  <1>2. QED
    BY <1>1, LifecycleCorrect, PTL

\* The overshoot of max_connections is bounded by the accepts Start posted.
THEOREM AdmissionBounded == Spec => []AdmissionBound
  <1>1. ASSUME LifecycleInv
        PROVE  AdmissionBound
    <2>1. Sized(Accepts) /\ Sized(Sessions)
      BY SizedFinite, LifecycleAssumption
    <2>2. Cardinality(Open) \in Nat /\ Cardinality(Inserting) \in Nat
      BY <2>1, CountsAreNat
    <2>3. Open # {} => Cardinality(Open) + Cardinality(Inserting) < MaxConnections + posted
      BY <1>1 DEF LifecycleInv, Admitted
    <2>4. posted \in Nat /\ MaxConnections \in Nat
      BY <1>1, LifecycleAssumption, ZenonT(30) DEF LifecycleInv, TypeOK
    <2>5. QED
      BY <2>2, <2>3, <2>4 DEF AdmissionBound
  <1>2. QED
    BY <1>1, LifecycleCorrect, PTL

\* A session in the registry has a worker, a read or a Disconnect that will take
\* it out.
THEOREM SessionsAreTended == Spec => []NoOrphanSession
  <1>1. LifecycleInv => NoOrphanSession
    BY DEF LifecycleInv, Shapes, Tended, SettingUp, NoOrphanSession
  <1>2. QED
    BY <1>1, LifecycleCorrect, PTL

\* Stop leaves nothing behind, and OnConnect and OnDisconnect go in pairs.
THEOREM StopLeavesNothing == Spec => []StopQuiesces
  <1>1. ASSUME LifecycleInv
        PROVE  StopQuiesces
    <2>1. \A s \in Sessions : connects[s] <= 1 /\ disconnects[s] <= 1
      BY <1>1 DEF LifecycleInv, Shapes, CallbackShape
    <2>2. ASSUME control = "stopped"
          PROVE  /\ outstanding_operations = 0
                 /\ registry = {}
                 /\ \A a \in Accepts : accept[a] = "none"
                 /\ \A s \in Sessions : read[s] \in {"none", "done"}
                 /\ \A s \in Created : connects[s] = 1 /\ disconnects[s] = 1
      <3>1. /\ BusyAccepts = {} /\ BusyReads = {} /\ registry = {}
            /\ \A s \in Sessions : disconnect[s] \in {"no", "done"}
        BY <1>1, <2>2 DEF LifecycleInv, Shapes, StopShape
      <3>2. outstanding_operations = 0
        BY SizedFinite, LifecycleAssumption, <1>1, <3>1
        DEF Sized, LifecycleInv, OutstandingExact
      <3>3. /\ \A a \in Accepts : accept[a] = "none"
            /\ \A s \in Sessions : read[s] \in {"none", "done"}
        BY <3>1 DEF BusyAccepts, BusyReads
      <3>4. ASSUME NEW s \in Created
            PROVE  connects[s] = 1 /\ disconnects[s] = 1
        BY <3>3, <1>1, <3>1, Zenon
        DEF Created, Uncounted, Fresh, LifecycleInv, Shapes, RegistryShape,
            CallbackShape
      <3>5. QED
        BY <3>1, <3>2, <3>3, <3>4
    <2>3. QED
      BY <2>1, <2>2 DEF StopQuiesces
  <1>2. QED
    BY <1>1, LifecycleCorrect, PTL

=============================================================================
