----------------------------- MODULE Lifecycle -----------------------------
(***************************************************************************)
(* The life of IocpServer and of its sessions (src/core/iocp_server.cpp):  *)
(* Initialize, Start, Stop, HandleAccept, HandleRead, Disconnect, the      *)
(* timer's scan and the counters that tie them together.                   *)
(*                                                                         *)
(* The control thread (main) runs Initialize, Start and Stop.  A worker    *)
(* in HandleAccept is named by its AcceptOperation, a worker in HandleRead *)
(* by its session; a Disconnect in progress belongs to the thread whose    *)
(* exchange on disconnect_started came first (by).  Every access to shared *)
(* state is a step of its own, so all interleavings of these threads with  *)
(* the timer and the write path are covered.                               *)
(***************************************************************************)
EXTENDS Integers, FiniteSets

CONSTANTS
    Accepts,            \* the AcceptOperations of the pool: accept_depth of them
    Sessions,           \* the connections that may be accepted
    MaxConnections,     \* config.max_connections
    CountModulus,       \* 2^w for the unsigned active_connections
    NoSession, NoThread

ASSUME LifecycleAssumption ==
    /\ IsFiniteSet(Accepts) /\ Accepts # {}
    /\ IsFiniteSet(Sessions)
    /\ MaxConnections \in Nat
    /\ CountModulus \in Nat \ {0} /\ CountModulus > Cardinality(Sessions) + MaxConnections
    /\ NoSession \notin Sessions
    /\ NoThread \notin {"timer", "stop", "accept", "read", "write"}

VARIABLES
    control,        \* where the control thread is
    unposted, posted,   \* Start's loop: accepts left to post, and how many it did
    running,        \* the atomic flag
    listening,      \* listen_socket is open
    snapshot,       \* Stop's remaining copy of the registry
    timer,          \* TimerLoop's thread
    accept,         \* where each AcceptOperation, or the worker holding it, is
    serving,        \* the session that worker is setting up
    read,           \* where each session's ReadOperation, or its worker, is
    disconnect,     \* how far Disconnect of each session is
    by,             \* the thread running it
    registry,       \* sessions: the handles in ShardedSessionRegistry
    active,         \* metrics.active_connections
    outstanding_operations,     \* accept and read operations
    connects, disconnects,      \* callbacks made, per session
    late            \* history: sessions inserted after Stop copied the registry

controlVars == <<control, unposted, posted, running, listening, snapshot>>
acceptVars == <<accept, serving>>
disconnectVars == <<disconnect, by, disconnects>>
historyVars == <<connects, late>>
vars == <<controlVars, timer, acceptVars, read, disconnectVars, registry,
          active, outstanding_operations, historyVars>>

Threads == {"timer", "stop", "accept", "read", "write"}

Init ==
    /\ control = "stopped"
    /\ unposted = {} /\ posted = 0
    /\ running = FALSE /\ listening = FALSE
    /\ snapshot = {}
    /\ timer = "none"
    /\ accept = [a \in Accepts |-> "none"]
    /\ serving = [a \in Accepts |-> NoSession]
    /\ read = [s \in Sessions |-> "none"]
    /\ disconnect = [s \in Sessions |-> "no"]
    /\ by = [s \in Sessions |-> NoThread]
    /\ registry = {}
    /\ active = 0
    /\ outstanding_operations = 0
    /\ connects = [s \in Sessions |-> 0]
    /\ disconnects = [s \in Sessions |-> 0]
    /\ late = {}

-----------------------------------------------------------------------------
(* Disconnect                                                              *)

SocketOpen(s) == disconnect[s] \in {"no", "started", "removed"}

\* The exchange on disconnect_started: the first caller runs the rest, the
\* others return at once.
CallDisconnect(s, thread) ==
    /\ disconnect' = [disconnect EXCEPT ![s] = IF @ = "no" THEN "started" ELSE @]
    /\ by' = [by EXCEPT ![s] = IF disconnect[s] = "no" THEN thread ELSE @]
    /\ UNCHANGED disconnects

Returned(s, thread) == by[s] = thread => disconnect[s] = "done"

Remove(s) ==
    /\ disconnect[s] = "started"
    /\ disconnect' = [disconnect EXCEPT ![s] = "removed"]
    /\ registry' = registry \ {s}
    /\ UNCHANGED <<controlVars, timer, acceptVars, read, by, active,
                   outstanding_operations, historyVars, disconnects>>

\* socket.exchange and closesocket, with the drain that SendPath models.
CloseSocket(s) ==
    /\ disconnect[s] = "removed"
    /\ disconnect' = [disconnect EXCEPT ![s] = "closed"]
    /\ UNCHANGED <<controlVars, timer, acceptVars, read, by, registry,
                   active, outstanding_operations, historyVars, disconnects>>

\* active_connections is decremented, then the callback is invoked.
InvokeDisconnect(s) ==
    /\ disconnect[s] = "closed"
    /\ disconnect' = [disconnect EXCEPT ![s] = "done"]
    /\ active' = (active + CountModulus - 1) % CountModulus
    /\ disconnects' = [disconnects EXCEPT ![s] = @ + 1]
    /\ UNCHANGED <<controlVars, timer, acceptVars, read, by, registry,
                   outstanding_operations, historyVars>>

DisconnectStep(s) ==
    Remove(s) \/ CloseSocket(s) \/ InvokeDisconnect(s)

\* FinishWrite, or a message handler through Close, disconnects a session it
\* holds.
WriteDisconnect(s) ==
    /\ s \in registry
    /\ connects[s] > 0
    /\ disconnect[s] = "no"
    /\ CallDisconnect(s, "write")
    /\ UNCHANGED <<controlVars, timer, acceptVars, read, registry, active,
                   outstanding_operations, historyVars>>

-----------------------------------------------------------------------------
(* HandleAccept                                                            *)

\* AcceptEx completes: a client connected, or the operation failed or was
\* cancelled with the listen socket.
AcceptCompletes(a) ==
    /\ accept[a] = "kernel" /\ listening
    /\ accept' = [accept EXCEPT ![a] = "connected"]
    /\ UNCHANGED <<controlVars, timer, serving, read, disconnectVars,
                   registry, active, outstanding_operations, historyVars>>

AcceptFails(a) ==
    /\ accept[a] = "kernel"
    /\ accept' = [accept EXCEPT ![a] = "failed"]
    /\ UNCHANGED <<controlVars, timer, serving, read, disconnectVars,
                   registry, active, outstanding_operations, historyVars>>

HandleAccept(a) ==
    /\ accept[a] \in {"connected", "failed"}
    /\ accept' = [accept EXCEPT ![a] =
                     IF @ = "connected" /\ running THEN "admit" ELSE "rearm"]
    /\ UNCHANGED <<controlVars, timer, serving, read, disconnectVars,
                   registry, active, outstanding_operations, historyVars>>

\* Mutant: off by one against max_connections.
MutantAdmitOneMore(a) ==
    /\ accept[a] = "admit"
    /\ accept' = [accept EXCEPT ![a] =
                     IF active > MaxConnections THEN "rearm" ELSE "insert"]
    /\ UNCHANGED <<controlVars, timer, serving, read, disconnectVars,
                   registry, active, outstanding_operations, historyVars>>

\* The load of active_connections against max_connections.
Admit(a) ==
    /\ accept[a] = "admit"
    /\ accept' = [accept EXCEPT ![a] =
                     IF active >= MaxConnections THEN "rearm" ELSE "insert"]
    /\ UNCHANGED <<controlVars, timer, serving, read, disconnectVars,
                   registry, active, outstanding_operations, historyVars>>

\* setsockopt or Associate failed: the connection is rejected.
AssociateFails(a) ==
    /\ accept[a] = "insert"
    /\ accept' = [accept EXCEPT ![a] = "rearm"]
    /\ UNCHANGED <<controlVars, timer, serving, read, disconnectVars,
                   registry, active, outstanding_operations, historyVars>>

Fresh(s) == s \notin registry /\ disconnect[s] = "no" /\ read[s] = "none"

Insert(a, s) ==
    /\ accept[a] = "insert"
    /\ Fresh(s)
    /\ registry' = registry \cup {s}
    /\ serving' = [serving EXCEPT ![a] = s]
    /\ accept' = [accept EXCEPT ![a] = "count"]
    /\ late' = IF control \in {"disconnect", "wait"} THEN late \cup {s} ELSE late
    /\ UNCHANGED <<controlVars, timer, read, disconnectVars, active,
                   outstanding_operations, connects>>

\* active_connections is incremented, then the callback is invoked.
InvokeConnect(a) ==
    /\ accept[a] = "count"
    /\ active' = (active + 1) % CountModulus
    /\ connects' = [connects EXCEPT ![serving[a]] = @ + 1]
    /\ accept' = [accept EXCEPT ![a] = "read"]
    /\ UNCHANGED <<controlVars, timer, serving, read, disconnectVars,
                   registry, outstanding_operations, late>>

PostRead(a) ==
    /\ accept[a] = "read"
    /\ SocketOpen(serving[a])
    /\ read' = [read EXCEPT ![serving[a]] = "kernel"]
    /\ outstanding_operations' = outstanding_operations + 1
    /\ accept' = [accept EXCEPT ![a] = "rearm"]
    /\ UNCHANGED <<controlVars, timer, serving, disconnectVars, registry,
                   active, historyVars>>

\* Mutant: HandleAccept ignores that PostRead failed.
MutantPostReadIgnored(a) ==
    /\ accept[a] = "read"
    /\ read' = [read EXCEPT ![serving[a]] = "done"]
    /\ accept' = [accept EXCEPT ![a] = "rearm"]
    /\ UNCHANGED <<controlVars, timer, serving, disconnectVars, registry,
                   active, outstanding_operations, historyVars>>

\* No memory, no socket any more, or WSARecv failed: the operation is deleted
\* again and the session disconnected.
PostReadFails(a) ==
    /\ accept[a] = "read"
    /\ read' = [read EXCEPT ![serving[a]] = "done"]
    /\ CallDisconnect(serving[a], "accept")
    /\ accept' = [accept EXCEPT ![a] = "rearm"]
    /\ UNCHANGED <<controlVars, timer, serving, registry, active,
                   outstanding_operations, historyVars>>

AcceptReturned(a) ==
    serving[a] # NoSession => Returned(serving[a], "accept")

\* The second look at running ...
Rearm(a) ==
    /\ accept[a] = "rearm" /\ AcceptReturned(a)
    /\ running
    /\ accept' = [accept EXCEPT ![a] = "post"]
    /\ serving' = [serving EXCEPT ![a] = NoSession]
    /\ UNCHANGED <<controlVars, timer, read, disconnectVars, registry,
                   active, outstanding_operations, historyVars>>

\* ... a new socket and PostAccept ...
PostAccept(a) ==
    /\ accept[a] = "post" /\ listening
    /\ accept' = [accept EXCEPT ![a] = "kernel"]
    /\ UNCHANGED <<controlVars, timer, serving, read, disconnectVars,
                   registry, active, outstanding_operations, historyVars>>

\* ... or accept_pool->Destroy and CompleteOperation, when the server stops
\* or the accept cannot be posted.
ReleaseAccept(a) ==
    /\ \/ accept[a] = "rearm" /\ AcceptReturned(a) /\ ~running
       \/ accept[a] = "post"
    /\ accept' = [accept EXCEPT ![a] = "none"]
    /\ serving' = [serving EXCEPT ![a] = NoSession]
    /\ outstanding_operations' = outstanding_operations - 1
    /\ UNCHANGED <<controlVars, timer, read, disconnectVars, registry,
                   active, historyVars>>

AcceptStep(a) ==
    \/ HandleAccept(a) \/ Admit(a) \/ AssociateFails(a)
    \/ \E s \in Sessions : Insert(a, s)
    \/ InvokeConnect(a) \/ PostRead(a) \/ PostReadFails(a)
    \/ Rearm(a) \/ PostAccept(a) \/ ReleaseAccept(a)

-----------------------------------------------------------------------------
(* HandleRead                                                              *)

\* WSARecv completes with data, or with none: the peer closed, the connection
\* broke, or Disconnect closed the socket.
ReadCompletes(s) ==
    /\ read[s] = "kernel" /\ SocketOpen(s)
    /\ read' = [read EXCEPT ![s] = "data"]
    /\ UNCHANGED <<controlVars, timer, acceptVars, disconnectVars, registry,
                   active, outstanding_operations, historyVars>>

ReadFails(s) ==
    /\ read[s] = "kernel"
    /\ read' = [read EXCEPT ![s] = "failed"]
    /\ UNCHANGED <<controlVars, timer, acceptVars, disconnectVars, registry,
                   active, outstanding_operations, historyVars>>

HandleRead(s) ==
    /\ read[s] \in {"data", "failed"}
    /\ read' = [read EXCEPT ![s] =
                   IF @ = "data" /\ disconnect[s] = "no" THEN "process" ELSE "close"]
    /\ UNCHANGED <<controlVars, timer, acceptVars, disconnectVars, registry,
                   active, outstanding_operations, historyVars>>

\* ProcessIncoming hands messages to the application, and may end in Disconnect.
ProcessIncoming(s) ==
    /\ read[s] = "process"
    /\ read' = [read EXCEPT ![s] = "again"]
    /\ CallDisconnect(s, "read") \/ UNCHANGED disconnectVars
    /\ UNCHANGED <<controlVars, timer, acceptVars, registry, active,
                   outstanding_operations, historyVars>>

\* Is there another read to post?
ReadAgain(s) ==
    /\ read[s] = "again" /\ Returned(s, "read")
    /\ read' = [read EXCEPT ![s] =
                   IF disconnect[s] = "no" /\ running THEN "post" ELSE "close"]
    /\ UNCHANGED <<controlVars, timer, acceptVars, disconnectVars, registry,
                   active, outstanding_operations, historyVars>>

\* Mutant: the read is tracked again when it is posted again.
MutantRepostTracks(s) ==
    /\ read[s] = "post" /\ SocketOpen(s)
    /\ read' = [read EXCEPT ![s] = "kernel"]
    /\ outstanding_operations' = outstanding_operations + 1
    /\ UNCHANGED <<controlVars, timer, acceptVars, disconnectVars, registry,
                   active, historyVars>>

RepostRead(s) ==
    /\ read[s] = "post" /\ SocketOpen(s)
    /\ read' = [read EXCEPT ![s] = "kernel"]
    /\ UNCHANGED <<controlVars, timer, acceptVars, disconnectVars, registry,
                   active, outstanding_operations, historyVars>>

\* The read ends: the operation failed, or could not be posted again.
ReadDisconnect(s) ==
    /\ read[s] \in {"close", "post"}
    /\ CallDisconnect(s, "read")
    /\ read' = [read EXCEPT ![s] = "release"]
    /\ UNCHANGED <<controlVars, timer, acceptVars, registry, active,
                   outstanding_operations, historyVars>>

\* delete operation, CompleteOperation.
ReleaseRead(s) ==
    /\ read[s] = "release" /\ Returned(s, "read")
    /\ read' = [read EXCEPT ![s] = "done"]
    /\ outstanding_operations' = outstanding_operations - 1
    /\ UNCHANGED <<controlVars, timer, acceptVars, disconnectVars, registry,
                   active, historyVars>>

ReadStep(s) ==
    \/ HandleRead(s) \/ ProcessIncoming(s) \/ ReadAgain(s) \/ RepostRead(s)
    \/ ReadDisconnect(s) \/ ReleaseRead(s)

-----------------------------------------------------------------------------
(* TimerLoop: it wakes up, copies the registry and looks at each session.  *)
(* A copied session that has left the registry since is being disconnected *)
(* already, so the copy adds nothing to a look at the registry.            *)

TimerReturned == \A s \in Sessions : Returned(s, "timer")

\* Some timeout of the session has passed.
TimerDisconnect(s) ==
    /\ timer = "running" /\ TimerReturned
    /\ s \in registry
    /\ disconnect[s] = "no"
    /\ CallDisconnect(s, "timer")
    /\ UNCHANGED <<controlVars, timer, acceptVars, read, registry, active,
                   outstanding_operations, historyVars>>

TimerExits ==
    /\ timer = "running" /\ TimerReturned
    /\ ~running
    /\ timer' = "gone"
    /\ UNCHANGED <<controlVars, acceptVars, read, disconnectVars, registry,
                   active, outstanding_operations, historyVars>>

-----------------------------------------------------------------------------
(* The control thread: Initialize, Start, Stop.                            *)

Initialize ==
    /\ control = "stopped"
    /\ control' = "initialized"
    /\ listening' = TRUE
    /\ UNCHANGED <<unposted, posted, running, snapshot, timer, acceptVars,
                   read, disconnectVars, registry, active,
                   outstanding_operations, historyVars>>

Start ==
    /\ control = "initialized"
    /\ control' = "posting"
    /\ running' = TRUE
    /\ timer' = "running"
    /\ unposted' = Accepts /\ posted' = 0
    /\ UNCHANGED <<listening, snapshot, acceptVars, read, disconnectVars,
                   registry, active, outstanding_operations, historyVars>>

\* A thread could not be created: Start calls Stop.
StartFails ==
    /\ control = "initialized"
    /\ control' = "join timer"
    /\ UNCHANGED <<unposted, posted, running, listening, snapshot, timer,
                   acceptVars, read, disconnectVars, registry, active,
                   outstanding_operations, historyVars>>

PostNewAccept(a) ==
    /\ control = "posting" /\ a \in unposted
    /\ unposted' = unposted \ {a}
    /\ posted' = posted + 1
    /\ accept' = [accept EXCEPT ![a] = "kernel"]
    /\ outstanding_operations' = outstanding_operations + 1
    /\ UNCHANGED <<control, running, listening, snapshot, timer, serving,
                   read, disconnectVars, registry, active, historyVars>>

\* No socket, no pool slot, or AcceptEx failed.
PostNewAcceptFails(a) ==
    /\ control = "posting" /\ a \in unposted
    /\ unposted' = unposted \ {a}
    /\ UNCHANGED <<control, posted, running, listening, snapshot, timer,
                   acceptVars, read, disconnectVars, registry, active,
                   outstanding_operations, historyVars>>

Started ==
    /\ control = "posting" /\ unposted = {} /\ posted > 0
    /\ control' = "up"
    /\ UNCHANGED <<unposted, posted, running, listening, snapshot, timer,
                   acceptVars, read, disconnectVars, registry, active,
                   outstanding_operations, historyVars>>

\* Called by main, or by Start when no accept could be posted.
Stop ==
    /\ control = "up" \/ (control = "posting" /\ unposted = {} /\ posted = 0)
    /\ control' = "join timer"
    /\ running' = FALSE
    /\ UNCHANGED <<unposted, posted, listening, snapshot, timer, acceptVars,
                   read, disconnectVars, registry, active,
                   outstanding_operations, historyVars>>

JoinTimer ==
    /\ control = "join timer" /\ timer \in {"none", "gone"}
    /\ control' = "close listen"
    /\ UNCHANGED <<unposted, posted, running, listening, snapshot, timer,
                   acceptVars, read, disconnectVars, registry, active,
                   outstanding_operations, historyVars>>

CloseListen ==
    /\ control = "close listen"
    /\ control' = "snapshot"
    /\ listening' = FALSE
    /\ UNCHANGED <<unposted, posted, running, snapshot, timer, acceptVars,
                   read, disconnectVars, registry, active,
                   outstanding_operations, historyVars>>

\* Mutant: Stop does not look at the registry.
MutantStopSkipsSessions ==
    /\ control = "snapshot"
    /\ control' = "disconnect"
    /\ snapshot' = {}
    /\ UNCHANGED <<unposted, posted, running, listening, timer, acceptVars,
                   read, disconnectVars, registry, active,
                   outstanding_operations, historyVars>>

TakeSnapshot ==
    /\ control = "snapshot"
    /\ control' = "disconnect"
    /\ snapshot' = registry
    /\ UNCHANGED <<unposted, posted, running, listening, timer, acceptVars,
                   read, disconnectVars, registry, active,
                   outstanding_operations, historyVars>>

StopReturned == \A s \in Sessions : Returned(s, "stop")

StopDisconnect(s) ==
    /\ control = "disconnect" /\ StopReturned
    /\ s \in snapshot
    /\ snapshot' = snapshot \ {s}
    /\ CallDisconnect(s, "stop")
    /\ UNCHANGED <<control, unposted, posted, running, listening, timer,
                   acceptVars, read, registry, active, outstanding_operations,
                   historyVars>>

StopWait ==
    /\ control = "disconnect" /\ StopReturned
    /\ snapshot = {}
    /\ control' = "wait"
    /\ UNCHANGED <<unposted, posted, running, listening, snapshot, timer,
                   acceptVars, read, disconnectVars, registry, active,
                   outstanding_operations, historyVars>>

\* Mutant: Stop does not wait for the operations.
MutantNoWait ==
    /\ control = "wait"
    /\ control' = "join workers"
    /\ UNCHANGED <<unposted, posted, running, listening, snapshot, timer,
                   acceptVars, read, disconnectVars, registry, active,
                   outstanding_operations, historyVars>>

Drained ==
    /\ control = "wait" /\ outstanding_operations = 0
    /\ control' = "join workers"
    /\ UNCHANGED <<unposted, posted, running, listening, snapshot, timer,
                   acceptVars, read, disconnectVars, registry, active,
                   outstanding_operations, historyVars>>

\* A worker leaves its loop with the null packet, once its handler is done;
\* FinishWrite calls Disconnect after CompleteOperation.
WorkersIdle ==
    /\ \A s \in Sessions : \A w \in {"accept", "read", "write"} : Returned(s, w)
    /\ \A a \in Accepts : accept[a] \in {"none", "kernel"}
    /\ \A s \in Sessions : read[s] \in {"none", "kernel", "done"}

JoinWorkers ==
    /\ control = "join workers" /\ WorkersIdle
    /\ control' = "stopped"
    /\ timer' = "none"
    /\ UNCHANGED <<unposted, posted, running, listening, snapshot,
                   acceptVars, read, disconnectVars, registry, active,
                   outstanding_operations, historyVars>>

StopStep ==
    \/ JoinTimer \/ CloseListen \/ TakeSnapshot
    \/ \E s \in Sessions : StopDisconnect(s)
    \/ StopWait \/ Drained \/ JoinWorkers

-----------------------------------------------------------------------------
Next ==
    \/ Initialize \/ Start \/ StartFails \/ Started \/ Stop \/ StopStep
    \/ TimerExits
    \/ \E a \in Accepts :
           \/ PostNewAccept(a) \/ PostNewAcceptFails(a)
           \/ AcceptCompletes(a) \/ AcceptFails(a) \/ AcceptStep(a)
    \/ \E s \in Sessions :
           \/ ReadCompletes(s) \/ ReadFails(s) \/ ReadStep(s)
           \/ DisconnectStep(s)
           \/ TimerDisconnect(s) \/ WriteDisconnect(s)

\* Threads keep running, workers take every packet, and closing a socket ends
\* the operations on it.  Nobody has to connect, to send or to hang up.
Fairness ==
    /\ WF_vars(StopStep) /\ WF_vars(TimerExits)
    /\ \A a \in Accepts :
           WF_vars(AcceptStep(a)) /\ WF_vars(AcceptFails(a) /\ ~listening)
    /\ \A s \in Sessions :
           /\ WF_vars(ReadStep(s)) /\ WF_vars(DisconnectStep(s))
           /\ WF_vars(ReadFails(s) /\ ~SocketOpen(s))

Spec == Init /\ [][Next]_vars
FairSpec == Spec /\ Fairness

-----------------------------------------------------------------------------
(* Properties                                                              *)

\* The types of the program counters, the registry and the counters; the
\* unsigned active_connections stays within its width.
TypeOK ==
    /\ control \in {"stopped", "initialized", "posting", "up", "join timer",
                    "close listen", "snapshot", "disconnect", "wait",
                    "join workers"}
    /\ unposted \subseteq Accepts
    /\ posted \in Nat /\ running \in BOOLEAN /\ listening \in BOOLEAN
    /\ snapshot \subseteq Sessions
    /\ timer \in {"none", "running", "gone"}
    /\ accept \in [Accepts -> {"none", "kernel", "connected", "failed", "admit",
                               "insert", "count", "read", "rearm",
                               "post"}]
    /\ serving \in [Accepts -> Sessions \cup {NoSession}]
    /\ read \in [Sessions -> {"none", "kernel", "data", "failed", "process",
                              "again", "post", "close", "release", "done"}]
    /\ disconnect \in [Sessions -> {"no", "started", "removed", "closed",
                                    "done"}]
    /\ by \in [Sessions -> Threads \cup {NoThread}]
    /\ registry \subseteq Sessions
    /\ active \in 0 .. CountModulus - 1
    /\ outstanding_operations \in Int
    /\ connects \in [Sessions -> Nat] /\ disconnects \in [Sessions -> Nat]
    /\ late \subseteq Sessions

\* The sessions HandleAccept has counted in, and those Disconnect has counted
\* out.
Created == {s \in Sessions : ~Fresh(s)}
CountedIn == {s \in Created : ~\E a \in Accepts :
                                   serving[a] = s /\ accept[a] = "count"}
CountedOut == {s \in Sessions : disconnect[s] = "done"}

\* active_connections is the number of sessions counted in less the number
\* counted out, modulo its width: nobody is counted twice, however many
\* threads call Disconnect.
ActiveExact ==
    active = (Cardinality(CountedIn) + CountModulus - Cardinality(CountedOut))
                 % CountModulus

\* The counter Stop waits on is the number of accept and read operations that
\* exist: it reaches zero when the last one is gone, and not before.
BusyAccepts == {a \in Accepts : accept[a] # "none"}
BusyReads == {s \in Sessions : read[s] \notin {"none", "done"}}
OutstandingExact ==
    outstanding_operations = Cardinality(BusyAccepts) + Cardinality(BusyReads)

\* active_connections and outstanding_operations are exact, whatever threads call
\* Disconnect and wherever the operations fail.
CountersExact == TypeOK /\ ActiveExact /\ OutstandingExact

\* HandleAccept admits on a value of active_connections that may be stale by
\* one connection for each other worker in HandleAccept, and by no more: the
\* sessions it let in and Disconnect has not closed never exceed max_connections
\* by as many as the accepts Start posted.
Open == Created \ {s \in Sessions : disconnect[s] \in {"closed", "done"}}
AdmissionBound == Open # {} => Cardinality(Open) < MaxConnections + posted

\* When Stop has returned nothing of the server is left: no operation in the
\* kernel whose memory the pool gave back, no session in the registry, no
\* handler that is still running; and every session saw both callbacks, once.
StopQuiesces ==
    /\ \A s \in Sessions : connects[s] <= 1 /\ disconnects[s] <= 1
    /\ control = "stopped" =>
           /\ outstanding_operations = 0
           /\ registry = {}
           /\ \A a \in Accepts : accept[a] = "none"
           /\ \A s \in Sessions : read[s] \in {"none", "done"}
           /\ \A s \in Created : connects[s] = 1 /\ disconnects[s] = 1

\* A session in the registry always has someone who will take it out: the
\* worker that is setting it up, its read operation, or a Disconnect.
NoOrphanSession ==
    \A s \in registry :
        \/ \E a \in Accepts : serving[a] = s
        \/ read[s] \notin {"none", "done"}
        \/ disconnect[s] = "started"

\* A Disconnect that started runs to its end and takes the session's read
\* operation with it.
DisconnectCompletes ==
    \A s \in Sessions :
        disconnect[s] # "no" ~>
            disconnect[s] = "done" /\ read[s] \in {"none", "done"}

\* Stop disconnects the sessions, drains the operations and stops the workers.
StopReturns == control = "join timer" ~> control = "stopped"

\* Stop returns, unless a worker that was past HandleAccept's look at running
\* put a session into the registry after Stop copied it, and that session's
\* client stays silent.
LateSession(s) ==
    /\ control = "wait"
    /\ s \in registry \cap late
    /\ disconnect[s] = "no" /\ read[s] = "kernel"
StopReturnsUnlessLate ==
    control = "join timer" ~>
        (control = "stopped" \/ \E s \in Sessions : LateSession(s))

\* max_connections is the maximum number of active connections.
ConnectionLimit == Cardinality(Open) <= MaxConnections
=============================================================================
