------------------------------ MODULE SendPath ------------------------------
(***************************************************************************)
(* The outbound path of IocpServer (src/core/iocp_server.cpp): Enqueue,    *)
(* StartNextWrite, PostWrite, HandleWrite, FinishWrite and the part of     *)
(* Disconnect that tears the send side of a session down.                  *)
(*                                                                         *)
(* Threads are anonymous.  A thread running the write chain is named by    *)
(* the item it carries (stage[i] is its program counter); threads about to *)
(* call StartNextWrite or Disconnect are counted per session (starting,    *)
(* disconnecting).  Any number of worker, timer and application threads    *)
(* may therefore be anywhere in the code at once.  One action is one       *)
(* send_mutex section or one access to shared state; steps that touch only *)
(* state no other thread reads are merged with their neighbour.            *)
(***************************************************************************)
EXTENDS Integers, Sequences, FiniteSets

CONSTANTS
    Sessions,           \* accepted connections
    Items,              \* OutboundItems, each passed to Enqueue at most once
    Size,               \* header_size + payload->size() of each item
    CloseAfter,         \* the items whose close_after flag is set
    MaxSessionQueued,   \* config.max_session_queued_bytes
    MaxGlobalQueued,    \* config.max_global_queued_bytes
    NoSession, NoItem

\* Send refuses an empty payload, a control frame has a header and an HTTP
\* response has text, so every item has at least one byte.
ASSUME SendPathAssumption ==
    /\ IsFiniteSet(Items)
    /\ Size \in [Items -> Nat \ {0}]
    /\ CloseAfter \subseteq Items
    /\ MaxSessionQueued \in Nat
    /\ MaxGlobalQueued \in Nat
    /\ NoSession \notin Sessions
    /\ NoItem \notin Items

VARIABLES
    life,           \* progress of Disconnect: live, disconnecting, closed, drained
    lock,           \* the item whose Enqueue holds send_mutex, or NoItem
    send_queue, queued_bytes, write_active,     \* fields of ClientSession
    starting,       \* number of threads about to call StartNextWrite
    disconnecting,  \* number of threads about to call Disconnect
    global_queued,  \* metrics.queued_bytes
    outstanding_operations,     \* the WriteOperations' share of the counter
    stage,          \* where each item is
    sent,           \* WriteOperation::cursor, bytes consumed
    txd,            \* bytes of the item put on the connection (kernel)
    owner, ticket, accepted     \* history: session, rank among its items, count

sessionVars == <<send_queue, queued_bytes, write_active>>
callVars == <<starting, disconnecting>>
counterVars == <<global_queued, outstanding_operations>>
historyVars == <<owner, ticket, accepted>>
vars == <<life, lock, sessionVars, callVars, counterVars, stage, sent, txd,
          historyVars>>

-----------------------------------------------------------------------------
\* The bytes of a set of items, one token per byte.
Bytes(S) == UNION {{i} \X (1 .. Size[i]) : i \in S}
ByteCount(S) == Cardinality(Bytes(S))

QueueItems(s) == {send_queue[s][p] : p \in DOMAIN send_queue[s]}

\* A write operation, or the item that is about to become one.
WriteStages == {"popped", "posting", "kernel", "packet", "finish", "settled",
                "orphaned"}
\* The items charged to queued_bytes of their session ...
HeldStages == {"queued", "popped", "posting", "kernel", "packet", "finish"}
\* ... the ones charged to metrics.queued_bytes ...
ReservedStages == HeldStages \cup {"settled", "orphaned"}
\* ... and the ones with a tracked WriteOperation.
TrackedStages == {"posting", "kernel", "packet", "finish", "settled"}
Stages == ReservedStages \cup {"new", "entering", "refused", "dropped", "gone"}

\* Mutant: the socket is never taken away from the write path.
MutantSocketNeverTaken(s) == TRUE

\* session->socket holds a socket until Disconnect exchanges it.
SocketOpen(s) == life[s] \in {"live", "disconnecting"}

\* Mutant: the sections of send_mutex do not exclude each other.
MutantNoSendMutex(s) == TRUE

Unlocked(s) == lock[s] = NoItem
Complete(i) == sent[i] >= Size[i]

Init ==
    /\ life = [s \in Sessions |-> "live"]
    /\ lock = [s \in Sessions |-> NoItem]
    /\ send_queue = [s \in Sessions |-> <<>>]
    /\ queued_bytes = [s \in Sessions |-> 0]
    /\ write_active = [s \in Sessions |-> FALSE]
    /\ starting = [s \in Sessions |-> 0]
    /\ disconnecting = [s \in Sessions |-> 0]
    /\ global_queued = 0
    /\ outstanding_operations = 0
    /\ stage = [i \in Items |-> "new"]
    /\ sent = [i \in Items |-> 0]
    /\ txd = [i \in Items |-> 0]
    /\ owner = [i \in Items |-> NoSession]
    /\ ticket = [i \in Items |-> 0]
    /\ accepted = [s \in Sessions |-> 0]

-----------------------------------------------------------------------------
(* Enqueue: lock, look at disconnect_started, then reserve and push.       *)

\* ReserveGlobalQueued: the compare-exchange loop ends in one atomic step.
ReserveGlobalQueued(bytes) ==
    /\ bytes <= MaxGlobalQueued
    /\ global_queued <= MaxGlobalQueued - bytes

FitsSession(s, bytes) ==
    /\ bytes <= MaxSessionQueued
    /\ queued_bytes[s] <= MaxSessionQueued - bytes

\* Enqueue returned false; SendControl and SendRaw then call Disconnect for
\* an item with close_after.
Refuse(s, i) ==
    /\ stage' = [stage EXCEPT ![i] = "refused"]
    /\ disconnecting' = [disconnecting EXCEPT ![s] =
                            IF i \in CloseAfter THEN @ + 1 ELSE @]

\* Mutant: Enqueue does not look at disconnect_started.
MutantEnqueueBlindly(s, i) ==
    /\ stage[i] = "new"
    /\ Unlocked(s)
    /\ lock' = [lock EXCEPT ![s] = i]
    /\ stage' = [stage EXCEPT ![i] = "entering"]
    /\ UNCHANGED <<life, sessionVars, callVars, counterVars, sent, txd,
                   historyVars>>

EnqueueLock(s, i) ==
    /\ stage[i] = "new"
    /\ Unlocked(s)
    /\ life[s] = "live"
    /\ lock' = [lock EXCEPT ![s] = i]
    /\ stage' = [stage EXCEPT ![i] = "entering"]
    /\ UNCHANGED <<life, sessionVars, callVars, counterVars, sent, txd,
                   historyVars>>

EnqueueDisconnected(s, i) ==
    /\ stage[i] = "new"
    /\ Unlocked(s)
    /\ life[s] # "live"
    /\ Refuse(s, i)
    /\ UNCHANGED <<life, lock, sessionVars, starting, counterVars, sent, txd,
                   historyVars>>

\* Mutant: every push starts a write.
MutantAlwaysStart(s) ==
    /\ write_active' = [write_active EXCEPT ![s] = TRUE]
    /\ starting' = [starting EXCEPT ![s] = @ + 1]

\* The first push since the queue went idle makes this thread the writer.
ClaimWriter(s) ==
    /\ write_active' = [write_active EXCEPT ![s] = TRUE]
    /\ starting' = [starting EXCEPT ![s] = IF write_active[s] THEN @ ELSE @ + 1]

EnqueuePush(s, i) ==
    /\ lock[s] = i
    /\ FitsSession(s, Size[i])
    /\ ReserveGlobalQueued(Size[i])
    /\ global_queued' = global_queued + Size[i]
    /\ queued_bytes' = [queued_bytes EXCEPT ![s] = @ + Size[i]]
    /\ send_queue' = [send_queue EXCEPT ![s] = Append(@, i)]
    /\ ClaimWriter(s)
    /\ lock' = [lock EXCEPT ![s] = NoItem]
    /\ stage' = [stage EXCEPT ![i] = "queued"]
    /\ owner' = [owner EXCEPT ![i] = s]
    /\ accepted' = [accepted EXCEPT ![s] = @ + 1]
    /\ ticket' = [ticket EXCEPT ![i] = accepted[s] + 1]
    /\ UNCHANGED <<life, disconnecting, outstanding_operations, sent, txd>>

EnqueueOverLimit(s, i) ==
    /\ lock[s] = i
    /\ ~(FitsSession(s, Size[i]) /\ ReserveGlobalQueued(Size[i]))
    /\ Refuse(s, i)
    /\ lock' = [lock EXCEPT ![s] = NoItem]
    /\ UNCHANGED <<life, sessionVars, starting, counterVars, sent, txd,
                   historyVars>>

-----------------------------------------------------------------------------
(* StartNextWrite: pop the next item, or give the writer role up.          *)

StartNextWrite(s) ==
    /\ starting[s] > 0
    /\ Unlocked(s)
    /\ starting' = [starting EXCEPT ![s] = @ - 1]
    /\ send_queue[s] # <<>>
    /\ send_queue' = [send_queue EXCEPT ![s] = Tail(@)]
    /\ stage' = [stage EXCEPT ![Head(send_queue[s])] = "popped"]
    /\ UNCHANGED <<life, lock, queued_bytes, write_active, disconnecting,
                   counterVars, sent, txd, historyVars>>

\* Mutant: the writer leaves without clearing write_active.
MutantStayActive(s) ==
    /\ starting[s] > 0
    /\ Unlocked(s)
    /\ starting' = [starting EXCEPT ![s] = @ - 1]
    /\ send_queue[s] = <<>>
    /\ UNCHANGED <<life, lock, sessionVars, disconnecting, counterVars, stage,
                   sent, txd, historyVars>>

StopWriting(s) ==
    /\ starting[s] > 0
    /\ Unlocked(s)
    /\ starting' = [starting EXCEPT ![s] = @ - 1]
    /\ send_queue[s] = <<>>
    /\ write_active' = [write_active EXCEPT ![s] = FALSE]
    /\ UNCHANGED <<life, lock, send_queue, queued_bytes, disconnecting,
                   counterVars, stage, sent, txd, historyVars>>

\* new (std::nothrow) WriteOperation returned null: the session's bytes go
\* back under the lock ...
CreateFails(i) ==
    /\ stage[i] = "popped"
    /\ Unlocked(owner[i])
    /\ queued_bytes' = [queued_bytes EXCEPT ![owner[i]] = @ - Size[i]]
    /\ stage' = [stage EXCEPT ![i] = "orphaned"]
    /\ UNCHANGED <<life, lock, send_queue, write_active, callVars, counterVars,
                   sent, txd, historyVars>>

\* Mutant: the failed allocation keeps its reservation.
MutantAbandonLeaks(i) ==
    /\ stage[i] = "orphaned"
    /\ stage' = [stage EXCEPT ![i] = "gone"]
    /\ disconnecting' = [disconnecting EXCEPT ![owner[i]] = @ + 1]
    /\ UNCHANGED <<life, lock, sessionVars, starting, counterVars, sent, txd,
                   historyVars>>

\* ... then the global bytes, and the session is disconnected.
Abandon(i) ==
    /\ stage[i] = "orphaned"
    /\ global_queued' = global_queued - Size[i]
    /\ stage' = [stage EXCEPT ![i] = "gone"]
    /\ disconnecting' = [disconnecting EXCEPT ![owner[i]] = @ + 1]
    /\ UNCHANGED <<life, lock, sessionVars, starting, outstanding_operations,
                   sent, txd, historyVars>>

\* The load of session->socket that opens PostWrite.
PostWrite(i) ==
    stage' = [stage EXCEPT ![i] =
                 IF SocketOpen(owner[i]) THEN "posting" ELSE "finish"]

\* The operation is allocated, tracked and posted.
FirstPost(i) ==
    /\ stage[i] = "popped"
    /\ outstanding_operations' = outstanding_operations + 1
    /\ PostWrite(i)
    /\ UNCHANGED <<life, lock, sessionVars, callVars, global_queued, sent, txd,
                   historyVars>>

-----------------------------------------------------------------------------
(* The kernel: WSASend on the loaded socket and its completion packet.     *)

WSASend(i) ==
    /\ stage[i] = "posting"
    /\ SocketOpen(owner[i])
    /\ stage' = [stage EXCEPT ![i] = "kernel"]
    /\ UNCHANGED <<life, lock, sessionVars, callVars, counterVars, sent, txd,
                   historyVars>>

\* The socket was closed after it was loaded, or the call failed: the
\* operation is not pending and FinishWrite(false) runs in this thread.
WSASendFails(i) ==
    /\ stage[i] = "posting"
    /\ stage' = [stage EXCEPT ![i] = "finish"]
    /\ UNCHANGED <<life, lock, sessionVars, callVars, counterVars, sent, txd,
                   historyVars>>

\* n bytes, possibly fewer than asked for, reach the connection.
Transmit(i, n) ==
    /\ stage[i] = "kernel"
    /\ SocketOpen(owner[i])
    /\ n <= Size[i] - txd[i]
    /\ txd' = [txd EXCEPT ![i] = @ + n]
    /\ stage' = [stage EXCEPT ![i] = "packet"]
    /\ UNCHANGED <<life, lock, sessionVars, callVars, counterVars, sent,
                   historyVars>>

\* The peer resets the connection, or CancelIoEx and closesocket end the
\* operation: a failed completion.
SendFails(i) ==
    /\ stage[i] = "kernel"
    /\ stage' = [stage EXCEPT ![i] = "packet"]
    /\ UNCHANGED <<life, lock, sessionVars, callVars, counterVars, sent, txd,
                   historyVars>>

-----------------------------------------------------------------------------
(* HandleWrite and FinishWrite, run by the worker that got the packet.     *)

\* SendCursor::Consume clamps at the end of the item.
Consume(i, bytes) ==
    IF bytes > Size[i] - sent[i] THEN Size[i] ELSE sent[i] + bytes

\* bytes_transferred = 0 stands for every failed completion.
HandleWrite(i) ==
    /\ stage[i] = "packet"
    /\ LET transferred == txd[i] - sent[i]
           cursor == Consume(i, transferred)
       IN  /\ sent' = [sent EXCEPT ![i] = cursor]
           /\ IF transferred = 0 \/ cursor >= Size[i]
              THEN stage' = [stage EXCEPT ![i] = "finish"]
              ELSE PostWrite(i)
    /\ UNCHANGED <<life, lock, sessionVars, callVars, counterVars, txd,
                   historyVars>>

FinishWrite(i) ==
    /\ stage[i] = "finish"
    /\ Unlocked(owner[i])
    /\ queued_bytes' = [queued_bytes EXCEPT ![owner[i]] =
                           IF Size[i] > @ THEN 0 ELSE @ - Size[i]]
    /\ stage' = [stage EXCEPT ![i] = "settled"]
    /\ UNCHANGED <<life, lock, send_queue, write_active, callVars, counterVars,
                   sent, txd, historyVars>>

\* Mutants: the next item follows a failed write, or a close frame.
MutantContinueAfterFailure(i) == i \in CloseAfter
MutantContinueAfterClose(i) == ~Complete(i)

\* FinishWrite ends in Disconnect or StartNextWrite.  It is passed succeeded = true
\* exactly when the cursor is complete.
DisconnectsAfter(i) == ~Complete(i) \/ i \in CloseAfter

\* The global bytes go back, the operation is deleted, CompleteOperation.
ReleaseWrite(i) ==
    /\ stage[i] = "settled"
    /\ global_queued' = global_queued - Size[i]
    /\ outstanding_operations' = outstanding_operations - 1
    /\ stage' = [stage EXCEPT ![i] = "gone"]
    /\ UNCHANGED <<life, lock, sessionVars, sent, txd, historyVars>>

ReleaseAndDisconnect(i) ==
    /\ ReleaseWrite(i)
    /\ DisconnectsAfter(i)
    /\ disconnecting' = [disconnecting EXCEPT ![owner[i]] = @ + 1]
    /\ UNCHANGED starting

ReleaseAndContinue(i) ==
    /\ ReleaseWrite(i)
    /\ ~DisconnectsAfter(i)
    /\ starting' = [starting EXCEPT ![owner[i]] = @ + 1]
    /\ UNCHANGED disconnecting

-----------------------------------------------------------------------------
(* Disconnect: the exchange on disconnect_started admits one caller.       *)

BeginDisconnect(s) ==
    life' = [life EXCEPT ![s] = IF @ = "live" THEN "disconnecting" ELSE @]

\* Called at the end of the write chain or after a refused close item ...
WriterDisconnect(s) ==
    /\ disconnecting[s] > 0
    /\ disconnecting' = [disconnecting EXCEPT ![s] = @ - 1]
    /\ BeginDisconnect(s)
    /\ UNCHANGED <<lock, sessionVars, starting, counterVars, stage, sent, txd,
                   historyVars>>

\* ... or by the read path, the timer, Stop or the application.
OtherDisconnect(s) ==
    /\ life[s] = "live"
    /\ BeginDisconnect(s)
    /\ UNCHANGED <<lock, sessionVars, callVars, counterVars, stage, sent, txd,
                   historyVars>>

\* socket.exchange(INVALID_SOCKET), shutdown, CancelIoEx, closesocket.
CloseSocket(s) ==
    /\ life[s] = "disconnecting"
    /\ life' = [life EXCEPT ![s] = "closed"]
    /\ UNCHANGED <<lock, sessionVars, callVars, counterVars, stage, sent, txd,
                   historyVars>>

\* The section that gives back the bytes of every queued item.
DrainQueue(s) ==
    /\ life[s] = "closed"
    /\ Unlocked(s)
    /\ life' = [life EXCEPT ![s] = "drained"]
    /\ global_queued' = global_queued - ByteCount(QueueItems(s))
    /\ queued_bytes' = [queued_bytes EXCEPT ![s] = @ - ByteCount(QueueItems(s))]
    /\ send_queue' = [send_queue EXCEPT ![s] = <<>>]
    /\ stage' = [i \in Items |-> IF i \in QueueItems(s) THEN "dropped"
                                 ELSE stage[i]]
    /\ UNCHANGED <<lock, write_active, callVars, outstanding_operations, sent,
                   txd, historyVars>>

-----------------------------------------------------------------------------
SessionStep(s) ==
    \/ \E i \in Items : EnqueuePush(s, i) \/ EnqueueOverLimit(s, i)
    \/ StartNextWrite(s) \/ StopWriting(s) \/ WriterDisconnect(s)
    \/ CloseSocket(s) \/ DrainQueue(s)

ItemStep(i) ==
    \/ CreateFails(i) \/ Abandon(i) \/ FirstPost(i)
    \/ WSASend(i) \/ WSASendFails(i)
    \/ HandleWrite(i) \/ FinishWrite(i)
    \/ ReleaseAndDisconnect(i) \/ ReleaseAndContinue(i)

Next ==
    \/ \E s \in Sessions, i \in Items :
           EnqueueLock(s, i) \/ EnqueueDisconnected(s, i)
    \/ \E s \in Sessions : OtherDisconnect(s)
    \/ \E s \in Sessions : SessionStep(s)
    \/ \E i \in Items : ItemStep(i)
    \/ \E i \in Items : \E n \in 1 .. Size[i] : Transmit(i, n)
    \/ \E i \in Items : SendFails(i)

\* A running thread keeps running, a worker takes every packet, and closing a
\* socket ends the operations on it.  Nothing makes the peer read: Transmit
\* and a failure on an open socket carry no fairness.
CancelledByClose(i) == SendFails(i) /\ ~SocketOpen(owner[i])

Fairness ==
    /\ \A s \in Sessions : WF_vars(SessionStep(s))
    /\ \A i \in Items : WF_vars(ItemStep(i)) /\ WF_vars(CancelledByClose(i))

Spec == Init /\ [][Next]_vars
-----------------------------------------------------------------------------
(* Properties                                                              *)

\* The types of the fields of the sessions, the items and the counters.
TypeOK ==
    /\ life \in [Sessions -> {"live", "disconnecting", "closed", "drained"}]
    /\ lock \in [Sessions -> Items \cup {NoItem}]
    /\ send_queue \in [Sessions -> Seq(Items)]
    /\ queued_bytes \in [Sessions -> Int]
    /\ write_active \in [Sessions -> BOOLEAN]
    /\ starting \in [Sessions -> Nat]
    /\ disconnecting \in [Sessions -> Nat]
    /\ global_queued \in Int
    /\ outstanding_operations \in Int
    /\ stage \in [Items -> Stages]
    /\ sent \in [Items -> Nat]
    /\ txd \in [Items -> Nat]
    /\ owner \in [Items -> Sessions \cup {NoSession}]
    /\ ticket \in [Items -> Nat]
    /\ accepted \in [Sessions -> Nat]

Writing(s) == {i \in Items : owner[i] = s /\ stage[i] \in WriteStages}
Held(s) == {i \in Items : owner[i] = s /\ stage[i] \in HeldStages}
Reserved == {i \in Items : stage[i] \in ReservedStages}
Before(j, i) == owner[j] = owner[i] /\ ticket[j] < ticket[i]

\* write_active hands the writer role from thread to thread: a session never
\* has two write operations, nor a write operation and a thread about to
\* start another one (Enqueue, StartNextWrite and FinishWrite).
SingleWriter ==
    \A s \in Sessions :
        /\ starting[s] <= 1
        /\ starting[s] = 1 => Writing(s) = {}
        /\ \A i, j \in Writing(s) : i = j

\* Bytes reach the connection in the order Enqueue accepted the items: not
\* one byte of an item is sent before every earlier item was sent whole.
WireOrder ==
    \A i, j \in Items :
        /\ owner[i] \in Sessions
        /\ Before(j, i)
        /\ txd[i] > 0
        => txd[j] = Size[j]

\* A close frame or a rejection response (close_after) is the last thing a
\* connection carries, whatever was accepted behind it.
NothingAfterClose ==
    \A i, j \in Items :
        /\ owner[i] \in Sessions
        /\ j \in CloseAfter
        /\ Before(j, i)
        => txd[i] = 0

\* queued_bytes of a session is exactly the bytes of its queued and unfinished
\* items, so it returns to zero with them, and never passes its limit.
SessionAccounting ==
    \A s \in Sessions :
        /\ queued_bytes[s] = ByteCount(Held(s))
        /\ queued_bytes[s] <= MaxSessionQueued

\* metrics.queued_bytes, which FinishWrite and Disconnect decrease without a
\* check, is exactly the bytes reserved and not yet given back.  It does not
\* wrap, does not leak and never passes the global limit.
GlobalAccounting ==
    /\ global_queued = ByteCount(Reserved)
    /\ global_queued <= MaxGlobalQueued

\* The counter Stop waits on is the number of live WriteOperations.
OperationsCounted ==
    outstanding_operations =
        Cardinality({i \in Items : stage[i] \in TrackedStages})

\* All three counters are exact and within their limits, through every early
\* return of Enqueue, PostWrite and FinishWrite.
AccountingExact == SessionAccounting /\ GlobalAccounting /\ OperationsCounted

\* A queued item is never forgotten: a thread or the kernel is working for
\* its session, or a Disconnect that will discard it is on its way.
NoStrandedItem ==
    \A s \in Sessions :
        send_queue[s] # <<>> =>
            \/ starting[s] > 0
            \/ Writing(s) # {}
            \/ disconnecting[s] > 0
            \/ life[s] \in {"disconnecting", "closed"}

\* Once Disconnect emptied the queue nothing is ever pushed or posted to the
\* kernel for the session again, although Enqueue may have read
\* disconnect_started before it was set.
NothingAfterDrain ==
    [][\A s \in Sessions : life[s] = "drained" =>
           /\ send_queue'[s] = send_queue[s]
           /\ \A i \in Items : owner[i] = s /\ stage[i] # "kernel" =>
                  stage'[i] # "kernel"]_vars

\* Every accepted item is taken off the queue, unless a write before it waits
\* for a peer that does not read.
ItemsMove ==
    \A i \in Items :
        stage[i] = "queued" ~>
            \/ stage[i] # "queued"
            \/ \E j \in Items : Before(j, i) /\ stage[j] = "kernel"

\* After Disconnect started, every operation of the session ends and all its
\* bytes are given back: the wait of Stop for the writes to drain ends.
DisconnectDrains ==
    \A s \in Sessions :
        life[s] # "live" ~>
            /\ life[s] = "drained"
            /\ queued_bytes[s] = 0
            /\ \A i \in Items : owner[i] = s => stage[i] \in {"gone", "dropped"}

-----------------------------------------------------------------------------
(* The strengthening under which the properties are inductive.             *)

\* The queue of a session is the items in stage "queued", by rank.
QueueShape ==
    /\ \A s \in Sessions : \A p \in DOMAIN send_queue[s] :
           /\ owner[send_queue[s][p]] = s
           /\ stage[send_queue[s][p]] = "queued"
    /\ \A s \in Sessions : \A p, r \in DOMAIN send_queue[s] :
           p < r => ticket[send_queue[s][p]] < ticket[send_queue[s][r]]
    /\ \A i \in Items : stage[i] = "queued" =>
           \E p \in DOMAIN send_queue[owner[i]] : send_queue[owner[i]][p] = i

\* What an item's stage says about its history and its bytes.
ItemShape ==
    \A i \in Items :
        /\ owner[i] = NoSession <=> stage[i] \in {"new", "entering", "refused"}
        /\ owner[i] \in Sessions => ticket[i] <= accepted[owner[i]]
        /\ sent[i] <= txd[i] /\ txd[i] <= Size[i]
        /\ stage[i] # "packet" => sent[i] = txd[i]
        /\ txd[i] > 0 => stage[i] \in WriteStages \cup {"gone"}

\* Finished items rank before the one being written, and that one before the
\* queued and the discarded ones.
Phase(i) ==
    IF stage[i] = "gone" THEN 0 ELSE IF stage[i] \in WriteStages THEN 1 ELSE 2

RankShape ==
    \A i, j \in Items :
        /\ owner[i] \in Sessions
        /\ owner[i] = owner[j]
        /\ Phase(i) < Phase(j)
        => ticket[i] < ticket[j]

\* A finished write after which FinishWrite or StartNextWrite calls Disconnect.
EndsChain(i) ==
    stage[i] = "gone" /\ (txd[i] < Size[i] \/ i \in CloseAfter)

\* write_active is set exactly while somebody is responsible for the queue.
ChainShape ==
    \A s \in Sessions :
        /\ starting[s] > 0 \/ Writing(s) # {} => write_active[s]
        /\ send_queue[s] # <<>> => write_active[s]
        /\ write_active[s] =>
               \/ starting[s] > 0
               \/ Writing(s) # {}
               \/ disconnecting[s] > 0
               \/ life[s] # "live"
        /\ (\E i \in Items : owner[i] = s /\ EndsChain(i)) =>
               starting[s] = 0 /\ Writing(s) = {} /\ write_active[s]

\* Disconnect drains a queue nobody is pushing to, and leaves it empty.
DrainShape ==
    /\ \A s \in Sessions : life[s] = "drained" =>
           send_queue[s] = <<>> /\ lock[s] = NoItem
    /\ \A i \in Items : stage[i] = "dropped" => life[owner[i]] = "drained"
    /\ \A s \in Sessions : lock[s] # NoItem => stage[lock[s]] = "entering"
    /\ \A s, t \in Sessions : lock[s] = lock[t] /\ lock[s] # NoItem => s = t

\* The inductive invariant of the write chain: what each thread of control in
\* Enqueue, StartNextWrite, FinishWrite and Disconnect may rely on.
WriteChainInv ==
    /\ QueueShape
    /\ ItemShape
    /\ RankShape
    /\ ChainShape
    /\ DrainShape
    /\ SingleWriter
    /\ WireOrder
    /\ NothingAfterClose

-----------------------------------------------------------------------------
\* The session is up until Disconnect has emptied its queue: an Enqueue that
\* was past the disconnect_started check may still be accepted before that.
Channel == INSTANCE OrderedChannel WITH
    up <- [s \in Sessions |-> life[s] # "drained"]

\* The send path implements the ordered channel: Enqueue, the write chain and
\* Disconnect give in-order, loss-at-the-end-only delivery.
RefinesChannel == Channel!Spec
=============================================================================
