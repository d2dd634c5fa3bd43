# A TLA+ model of IOCP Engine

IOCP Engine is a Windows server for room-based publish/subscribe. Worker
threads take completion packets from one completion port; a timer thread scans
the sessions; the control thread (main) starts and stops the server. This
project models the parts of it whose correctness depends on how these threads
interleave, and its sequential parts against independent reference definitions
for every way a stream can be cut into reads. TLC checks every property on small
instances. TLAPS proves all the safety properties, but for those of the byte
functions, for every number of threads, sessions and items, every stream, and
every limit and timeout.

## The system

| Part | Source | Shared state | Operations |
|---|---|---|---|
| Outbound path | `core/iocp_server.cpp` 682-860, `core/send_cursor.hpp` | `send_queue`, `queued_bytes`, `write_active` (under `send_mutex`), `metrics.queued_bytes`, `outstanding_operations` | `Enqueue`, `StartNextWrite`, `PostWrite`, `HandleWrite`, `FinishWrite`, `SendControl`, `SendRaw` |
| Disconnect | `core/iocp_server.cpp` 1048-1074 | `disconnect_started`, `state`, the socket, the registry, counters | called by the reader, the writer, the timer, `Stop` and the application |
| Lifecycle | `core/iocp_server.cpp` 308-452, 1076-1128 | `running`, `listen_socket`, threads, accept pool | `Initialize`, `Start`, `Stop`, `WorkerLoop` |
| Accept and read | `core/iocp_server.cpp` 540-680 | registry, `active_connections` | `PostNewAccept`, `PostAccept`, `HandleAccept`, `PostRead`, `HandleRead` |
| Session state and timer | `core/iocp_server.cpp` 493-509, 823-926, 1130-1174 | `state`, `transport`, timestamps, `awaiting_pong` | `Close`, `SendControl`, `ProcessDetection`, `TimerLoop` |
| Inbound | `core/iocp_server.cpp` 928-1046 | decoders, `inbound_accounted`, `metrics.inbound_bytes`, rate window | `ProcessRaw`, `ProcessWebSocket`, `DeliverMessage`, `UpdateInboundAccounting` |
| Router | `application/protocol_router.*` | `principals_` | `Handle`, `OnDisconnect` |
| Rooms | `pubsub/room_registry.hpp` | two indexes under one mutex | `Join`, `Leave`, `AuthorizePublish`, `Snapshot`, `RemoveSession` |
| Pool | `core/memory_pool.hpp` | free list | `Create`, `Destroy` |
| Standalone queue | `core/outbound_queue.hpp` | queue, budget | `Push`, `Pop`, `Close`, `TryReserve`, `Release` |
| Framing | `protocol/framing.hpp` | accumulation buffer | `Append`, `Next`, `Reset`, `EncodeLength` |
| WebSocket | `transport/websocket_transport.*` | decoder buffer, fragment state | `Append`, `Next`, `ParseHandshake`, `BuildFrameHeader` |
| Program | `main.cpp` | `stop_requested`, `stop_cv` | option parsing, metrics loop, `RequestStop` |

How they interact: a worker in `HandleRead` decodes messages and calls the
router; the router calls `Send`, which calls `Enqueue` on the recipients;
completed writes run the write chain. Any of these, the timer or `Stop` may
call `Disconnect`, which calls the router's `OnDisconnect`.

## Modules

| Module | What it is |
|---|---|
| `SendPath` | the outbound path and the send side of Disconnect |
| `OrderedChannel` | what the outbound path promises: in-order delivery, losses only at the end |
| `Lifecycle` | Initialize, Start, Stop, accepts, reads, the timer's Disconnects, the counters |
| `RoomRegistry` | the two indexes, one action per lock section |
| `Membership` | what the registry promises: one set of subscriptions |
| `Router` | Handle and OnDisconnect over `RoomRegistry` |
| `Inbound` | the read path of several sessions and the accounting of its bytes |
| `Session` | state, transport, time stamps and timer of one session, with a clock |
| `Detection` | ProcessDetection and ParseHandshake on the first bytes of a stream |
| `Framing` | the length-prefixed accumulator |
| `WebSocketDecoder` | the frame decoder with its fragmented message |
| `Delivery` | the rate window and the malformed limit of DeliverMessage |
| `SendCursor` | one item written in parts, its header and payload apart |
| `Codec` | UTF-8, close codes, the handshake key, the frame header, Base64 |
| `Sums` | the sum of a function over a finite set, as a cardinality |
| `ObjectPool` | the pool, one action per lock section |
| `OutboundQueue` | the standalone queue and its budget |
| `MainLoop` | main's wait for a stop request |
| `MCSendPath`, `MCLifecycle`, `MCRouter`, `MCSequential`, `MCSession`, `MCShared`, `MCDraining`, `MCTimeouts` | the instances for TLC; the two violations of `Lifecycle` need only a `.cfg` |
| `SendPathStepProofs`, `SendPathProofs`, `LifecycleProofs`, `RouterProofs`, `SessionProofs`, `SharedProofs`, `LimitProofs`, `WireProofs` | theorems |

Definitions whose name begins with `Mutant` are faulty variants of the
definition that follows them. Each breaks a property; none is used by a
specification.

### SendPath

Threads are anonymous. A thread that carries an item through the write chain is
`stage[i]`; threads about to call `StartNextWrite` or `Disconnect` are counted
per session. So any number of workers, timers and application threads is
covered. Each `send_mutex` section is a step. `Enqueue` is two steps, because
`disconnect_started` is read under the lock but stored without it.
`Transmit` and `SendFails` stand for Winsock. Bytes of an item are counted, not
modelled; an item is its size and its `close_after` flag. Drain gives back the
bytes of all queued items in one step, although the code uses one `fetch_sub`
for each. `owner`, `ticket` and `accepted` are history.

### Lifecycle

`control` is the program counter of the control thread, `accept[a]` of the
worker that holds an AcceptOperation, `read[s]` of the worker that holds a
session's ReadOperation, `disconnect[s]` of the one Disconnect that won the
exchange, and `by[s]` the thread it belongs to: that thread goes on only when
its Disconnect is done. `active` has a width (`CountModulus`), because it can be
decremented before it is incremented. `posted` is Start's count of the accepts it
posted. The server may be initialised and started
again after Stop. `late` is history. Write operations are in `SendPath`; here a
write appears only as a thread that disconnects a session.

### RoomRegistry and Router

A map is a function whose domain is its keys, so an entry that should have been
erased is visible. `Router` extends the registry and adds the checks made
before its lock. Every lock section and every Send of a publish is a step, so
OnDisconnect can come between any two. A message is the branch of `Handle` it
takes, with a room and whether its contents are valid. A Send may be refused at
any time.

### Inbound

One worker at a time runs the read path of a session; another thread may
Disconnect or Close it meanwhile. UpdateInboundAccounting is three steps
(compare, add to the counter, store), because `inbound_accounted` is a plain
field that both threads use; its second read may give the old or the new value.
A read is its size, and a decoder takes any number of bytes in a turn: which
ones is in `Framing` and `WebSocketDecoder`. `inbound_bytes` counts modulo
`Width`, as it may be decremented below zero. `overlapped` and `miscounted` are
history.

### Session

Every atomic load and store of one session is a step of the thread that makes
it: reader, writer, timer and `Callers` of the public Send and Close. Time
stamps are kept as ages that stop growing when nothing can tell them apart;
`pass` is the time since the timer read `now`, so that `Elapsed` is the
difference the code computes, negative ones included. Enqueue accepts or
refuses; the queue itself is in `SendPath`. `response`, `unheralded` and
`close_queued` are history: what Enqueue made of the 101 response, what it had
made of it when a frame was accepted without one, and whether a Close frame was
accepted. `Callers` is empty where the runs
ask about the program as `main.cpp` builds it, which calls neither from a thread
of its own.

### Streams and bytes

`Framing`, `WebSocketDecoder`, `Detection`, `SendCursor` and `Codec` are
sequential. What the peer sends is chosen in the initial state; each action is
one read or one turn of Next. What the peer sends is a record: its frames, the
offset `ends[i]` at which frame i ends, and what else the reference needs. The
reference speaks of the frames and their ends and not of the decoder, so
it needs no second decoder.

`Framing` keeps real bytes with a length field of four of them. `WebSocketDecoder`
keeps the fields of headers, with the three encodings of the length and the
offset at which each can be rejected; a payload is the frame it came in and its
size. There `data[i]` is the payload the data frames up to i have, and a read may
end at the offsets `cuts`. `Detection` keeps how far the stream agrees with
`GET `, the size of its headers and its header lines as name and validity;
`EmptyOriginValid` says whether the origin validator accepts a request without an
Origin, for which it is given the empty string. The Disconnect that counting the
bytes may cause, after which detection goes on, is in `Inbound`.
`Codec` has no state but its input.

### Delivery, ObjectPool, OutboundQueue, MainLoop

`Delivery` has a clock with `Second` ticks to a second and the messages of the
last second as history. `ObjectPool` has one action per lock section, with the
construction and destruction of the object in between, where another thread may
run, and an exception from the constructor; a link is part of the slot's memory,
so an object overwrites it. `OutboundQueue` has a step for every section of the
queue's mutex and of the budget's. `MainLoop` splits RequestStop into the store
and the notification, which reaches main only while it waits.

## Runs

| Run | Instance | Distinct states | Result |
|---|---|---|---|
| `send_path` | 2 sessions, 3 items of sizes 2, 2, 1 (the last with close_after), limits 3 and 4 | 153 618 | holds |
| `lifecycle` | 2 accepts, 2 sessions, max 1 | 2 002 655 | holds |
| `router` | 2 sessions: 3 rooms, every kind of request, 3 messages each; and one room, only joins and publishes, 4 messages each | 1 634 261 | holds |
| `sequential` | see below | 409 132 | holds |
| `session` | timeouts 1 and 2, a pass of up to 1 tick; timeouts 0 and one caller; 2 outbound queues, sizes 0 to 7, limits 5 and 6, 3 pushes of each | 3 210 382 | holds |
| `shared` | a pool of 4 slots, 3 threads; 2 sessions with inbound limits 2 and 2, reads of 1 or 2 bytes | 2 708 445 | holds |
| `draining` | 2 accepts, 1 session; 1 session with 4 items, limit 4 | 89 836 | holds |
| `timeouts` | a session with timeouts 1 and no caller; main with three kinds of signal | 132 188 | holds |
| `stop_hangs` | 1 accept, 1 session | | `StopReturns` is violated |
| `connection_limit` | 2 accepts, 2 sessions, max 1 | | `ConnectionLimit` is violated |
| `stale_membership` | 1 session | | `MembershipsRemoved` is violated |
| `malformed_unanswered` | 1 session | | `MalformedAnswered` is violated |

A run may check several components, or instances of one, that do not interact.
Its MC module then has a variable `part`, chosen in `MCInit` and never changed:
the part it names takes the steps, and the others stay where they start. A
behaviour is one of one component, and the states add up instead of multiplying.
A property of such a run says for which part it speaks, or holds in all of them.
A property that a component's module states is checked, and proved, as it stands
there.

The parts of `sequential`:

| Part | Instance |
|---|---|
| registry | 3 sessions, 3 rooms |
| framing | streams of up to three frames, legal or not, reads of 1 to 3 bytes, a buffer of 7 or 8 bytes |
| decoder | streams of up to two frames of any kind or three sound ones, cut where the decoder tells offsets apart |
| detection | raw streams and requests with each defect, reads of 1, 2, 3 or 5 bytes |
| cursor | headers of up to 3, payloads of up to 5 bytes |
| bytes, numbers | byte strings of up to 4 from an alphabet of boundary bytes; numbers around every boundary; a good key with up to two characters replaced |
| delivery | 3 messages a second of 4 ticks, malformed limit 3 |

What the passing runs show. A property may be the conjunction of properties that
its module states one by one; those are in parentheses.

- `send_path`: one writer per session (`SingleWriter`); bytes in the order of
  acceptance (`WireOrder`); a close frame is last (`NothingAfterClose`); both
  byte counters and the operation counter are exact and within their limits
  (`AccountingExact`); no queued item is forgotten (`NoStrandedItem`); a drained
  session stays silent (`NothingAfterDrain`); the path implements
  `OrderedChannel` (`RefinesChannel`). The types and the inductive invariant
  `WriteChainInv` are proved, and no run repeats them.
- `lifecycle`: `CountersExact` (`TypeOK`, `ActiveExact`, `OutstandingExact`): the
  connection and operation counters are exact. `StopQuiesces`: a returned Stop
  leaves nothing, and every session saw both callbacks once. That FinishWrite
  counts its operation down before its Disconnect (line 814) shows here only as a
  Disconnect whose thread is a write, since writes are in `SendPath`.
  `NoOrphanSession`: no session is abandoned. `AdmissionBound`: open sessions
  exceed `max_connections` by fewer than the accepts Start posted. Where it could
  post only one, the limit is exact.
- `router`: no more errors and malformed messages than messages (`TypeOK`);
  members have a principal (`MembersAuthenticated`); after
  OnDisconnect at most the one join it overtook remains
  (`AtMostOneStaleRoom`); publishes of one session arrive in order and once
  (`PublisherOrder`).
- `sequential`, the registry: the indexes agree and hold no empty entry
  (`RegistryInv`), and are one set of subscriptions (`RefinesMembership`).
- `sequential`, framing and the WebSocket decoder: the messages do not depend on
  how the stream is cut or compacted, up to the first illegal length
  (`ChunkingIrrelevant`); the events are those of RFC 6455 under the limits, for
  every cut, and what the decoder holds is bounded (`EventsExact`, of
  `FramesDecoded` and `HeldBytesBounded`). `BuffersFit` (`BufferBound`,
  `RoomForLegalFrames`): what the accumulator holds is bounded, and legal frames
  always find room if the buffer holds a frame, less a byte, and a read.
- `sequential`, detection: `DetectionExact` (with `AnswerStands`, `NoByteLost`):
  for every cut the answer is the one the request deserves, or 431 when the reads
  brought more bytes than `max_handshake_bytes`, those behind the headers
  included; and the decoder gets every byte that follows, once.
- `sequential`, the cursor: the wire has header and payload once and in order,
  whatever the parts (`WireExact`, with `WrittenWhole`).
- `sequential`, bytes and numbers: `CodecExact` (`Utf8Exact` against the table of
  the Unicode standard, `CloseCodeExact`, `KeyExact`, `HeaderReadsBack`,
  `Base64Exact`).
- `sequential`, delivery: `LimitsExact`: in any second at most twice the limit
  (`TwiceTheRate`); a session is closed for its rate only when it exceeded it
  (`LimitIsDeserved`); no more malformed messages than the limit
  (`MalformedBound`).
- `session`: no handshake, idle, pong or close timeout comes early, although
  stamps change during a pass, but for the gap described below
  (`TimersNotEarly`); no frame is accepted for a WebSocket peer without its 101
  response, but where the response found no room (`UpgradeFirst`); a Close that
  began is not forgotten, even if the reader's Open overwrites its Closing
  (`CloseKept`). `QueuesExact`: the budget is the bytes queued
  (`BudgetExact`), and buffers come out in the order they went in
  (`FirstInFirstOut`).
- `shared`: the free list is one chain of the free slots (`FreeListIsChain`), a
  slot has one owner (`OneOwner`), the debug checks stay silent
  (`ChecksSilent`). `InboundExact`: the inbound counter is the sum of what the
  sessions accounted unless two threads updated one session at once
  (`CounterIsSum`), and between reads a session has accounted what it buffers
  (`SettledAccount`). The global limit ends a session only for bytes of live
  sessions, or in the two cases below (`LimitDeserved`).
- `draining`: `DisconnectEnds`: a started Disconnect ends
  (`DisconnectCompletes`) and gives everything back (`DisconnectDrains`). Queued
  items leave the queue or wait for the peer (`ItemsMove`); Stop returns unless a
  session came in after its snapshot (`StopReturnsUnlessLate`).
- `timeouts`: `SessionsEnd`: no session stays in the handshake, closing or silent
  (`HandshakeEnds`, `ClosingEnds`, `SilentEnds`). None stays without the pong it
  owes (`PongAwaited`). A stop request stops the server even if its notification
  is lost (`RequestStops`).

The violations are disagreements between the code and its documents:

- **Stop may never return.** A worker that saw `running` before Stop cleared it
  inserts its session after Stop copied the registry. If the client is silent,
  its read never ends.
- **`max_connections` can be exceeded.** The counter is loaded at line 588 and
  incremented at line 604, with other workers in between.
- **A membership can survive its session.** `Join` checks before it locks, and
  OnDisconnect can run between the two.
- **A buffer the verifier rejects gets no ErrorResponse.** `docs/protocol.md`
  says that it does.

### Behaviours the properties leave room for

The models show these too. No run reports them: the property named holds because
it is stated with them in mind, and says that nothing else goes wrong.

- Bytes of sessions that are gone can stay in the global inbound count: the
  trailing update after a Disconnect adds them again (lines 934 to 946), or two
  threads update `inbound_accounted` at once. Later sessions are then ended
  below the limit (`LimitDeserved`, `CounterIsSum`).
- A close can time out at once: the timer may see Closing before
  `close_started_ms` is stored (line 832; `TimersNotEarly`).
- A ping that Enqueue refused is waited for all the same: the timer ignores the
  result of SendControl (line 1168; `TimersNotEarly` judges the pong timeout of
  sessions that were pinged).
- A Close between the stores of transport and state is overwritten by Open
  (lines 896 and 916). The close timer then leaves the session alone, and whether
  it ends depends on its writer. It takes a caller of the public Close, which
  `main.cpp` does not have: `CloseKept`, which is checked with one, says that the
  Close frame is queued or its caller disconnects, and `ClosingEnds`, which is
  about the timer, is checked without one and does not hold with one.
- A session opens although its 101 response was refused: ProcessDetection ignores
  what Enqueue said (line 914). Where the queue had no room, frames may follow to
  a peer that never got a 101 (`UpgradeFirst`). Where Disconnect had begun, nothing
  follows, although the state is Open again.
- The fragments of a message are not in the buffered bytes, so a session holds
  up to a message more than its limit (`HeldBytesBounded`).
- Bytes behind the headers count as headers: a request within the limit is
  answered 431 when frames came with it, and 101 when they came in a later read
  (`AnswerStands`).
- The rate limit is per window: a second that overlaps two windows lets up to
  twice as many messages through (`TwiceTheRate`). `docs/architecture.md` line 118
  names only the limit.

### Bounds

Two sessions suffice for everything that is shared between sessions (the global
budget, the registry, the connection counter). Three items let one be written,
one wait and one be refused or close the connection; sizes of two bytes allow a
partial write. The session limit of 3 and the global limit of 4 are each reached
on their own. Every session lives once. `MaxMessages` bounds the messages of a
session: three suffice to authenticate and join two rooms, four to publish
twice. Symmetry is used over sessions and accepts, only without liveness.

Inbound limits of two bytes let one session, or two together, be at a limit
while a read of one or two bytes goes over it. Timeouts of one tick put every
event before, at or after a deadline; with a caller they are 0, at or after it,
since what is asked there is the order of the stores; `MaxPass` lets a stamp be newer than the
timer's `now`, and is 0 where a run asks for liveness or adds a caller. The
alphabet of `Codec` has the first and last byte of every class that UTF-8
tells apart; its numbers are those around 125, 65535 and the powers of two up to
the largest integer TLC has. Payload sizes of `WebSocketDecoder` lie around 125,
the first boundary of the length encodings; the second, 65535, is in `Codec`.
Four pool slots with three threads leave a slot free while every thread is
between two lock sections.

`CHECK_DEADLOCK FALSE` is used where a model really ends: all items sent and
all sessions gone (`SendPath`), all messages handled (`Router`), the session
disconnected (`Session`, `Delivery`), the pushes used up (`OutboundQueue`), the
stream read to its end or refused (`Framing`, `WebSocketDecoder`, `Detection`),
the item written (`SendCursor`), the program left (`MainLoop`). `lifecycle` and
`shared` check for deadlock; in `shared` the read path may stop only when every
session has ended, which `AllEnded` says.

### Fairness

A thread that can take a step eventually does, and a worker eventually takes
each packet (weak fairness of the handler steps). Closing a socket completes
the operations on it, as Winsock guarantees. Nothing is assumed of peers: they
need not connect, send, read or hang up. In `Lifecycle`, Start, Stop and the
timer's decisions carry no fairness.

In `Session` time passes (strong fairness of the clock, which waits for a pass of
the timer that has used up `MaxPass`), the timer thread takes its steps, and the
reader takes those of a read that has completed; reads need not complete and
writes need not finish. In `MainLoop` main takes its steps, a handler that stored
the flag notifies, and `wait_for` returns after its interval. That `server.Stop()`
returns is assumed there and is the subject of `Lifecycle`.

`draining` and `timeouts` state the fairness of both their parts. The part that
does not move is in a state where none of its fair actions is enabled (the
server not started, no item enqueued; the session gone, main returned), so the
fairness of one asks nothing of the other.

## Proofs

Assumptions: only those named in the modules.

| Assumption | Content |
|---|---|
| `SendPathAssumption` | finitely many items of positive size, limits natural numbers, distinct null values |
| `LifecycleAssumption` | finitely many accepts (one at least) and sessions, a width of `active_connections` beyond the sessions and `max_connections` together, distinct null values |
| `RouterAssumption` | valid rooms are rooms, the authorizer's answers are about principals and rooms, a bound on messages, a distinct null value |
| `SessionAssumption` | timeouts and the length of a pass are natural numbers, callers are other threads than reader, writer and timer |
| `PoolAssumption` | a positive capacity |
| `InboundAssumption` | finitely many sessions, limits natural numbers, reads of at least a byte, a width of `inbound_bytes` beyond what all sessions may account together |
| `QueueAssumption` | finitely many queues, sizes natural numbers, limits below the range of `size_t` |
| `DeliveryAssumption` | at least one tick to a second, a malformed limit of at least one |
| `CursorAssumption` | the bounds on sizes are natural numbers |
| `FramingAssumption` | the peer's bytes are its frames, each a length of four bytes and a payload, one after the other; a legal frame has the payload its length says, and a read may stop anywhere; limits are natural numbers |
| `DecoderAssumption` | headers are ones that two, four or ten bytes can hold; `ends` and `data` are the offsets and sizes of the frames |
| `DetectionAssumption` | what a stream is; limits are natural numbers |

The registry needs none. TLC evaluates each of them on the
instance of a run. Those on what a peer sends say only that the record
describes a stream of bytes; they exclude no stream the code could meet.

### The write chain

The properties of `SendPath` are not inductive. `SingleWriter`, for instance,
needs that `write_active` is set whenever a thread has the writer role.
`WriteChainInv` adds:

- `QueueShape`: the queue is the items in stage "queued", by rank;
- `ItemShape`: what a stage says about owner and bytes;
- `RankShape`: finished items rank before the one being written, and that one
  before the queued ones;
- `ChainShape`: `write_active` is set exactly while somebody answers for the
  queue, and a chain that ended in Disconnect is not resumed;
- `DrainShape`: nobody is pushing when Disconnect drains.

`SendPathStepProofs` proves that steps keep types and, for the actions that leave
the queue alone, the invariant; `SendPathProofs` does the same for the
actions that change the queue, shows that each step is a step of
`OrderedChannel` or leaves it unchanged, and concludes `WriteChain`,
`TypeCorrect`, `OneWriter`, `InOrder`, `CloseIsLast`, `NothingStranded`,
`SendPathIsChannel` and `SilentAfterDrain`. It then adds the counters on top of
that invariant (`SessionBytesExact`, `GlobalBytesExact`, `WritesCounted`,
together `AccountingIsExact`); the bytes of a set of items are the cardinality
of a set of tokens, so that no induction is needed.

### The lifecycle

`LifecycleProofs` proves all four properties of the run `lifecycle`
(`CountersAreExact`, `StopLeavesNothing`, `SessionsAreTended`,
`AdmissionBounded`). None is inductive: that Stop leaves nothing behind, for
instance, needs that the counter it waits on is exact, that no accept or read can
begin once it is zero, and that a session outside Disconnect has a read.
`LifecycleInv` says, beside the types and the counters:

- `AcceptShape`: a worker in HandleAccept serves a session of its own, from Insert
  until it arms its accept again;
- `RegistryShape`: a session is in the registry from Insert until its Disconnect
  removes it;
- `CallbackShape`: OnConnect goes with the increment of `active_connections`,
  OnDisconnect with the decrement;
- `DisconnectShape`: a Disconnect that began belongs to a thread, and neither the
  timer's exit nor Stop's wait comes before their own Disconnects are done;
- `Tended`: a session in the registry is being set up, has a read or has a
  Disconnect;
- `StopShape`: what is over at each point of Stop, in the order in which Stop
  waits for it;
- `Admitted`: busy accepts are among the posted; the sessions created are those
  counted in and those a worker is about to count; and open sessions, with the
  ones that were let in and are not inserted yet, stay below `max_connections`
  plus the accepts posted.

The argument for the last point: a worker that is let in read a value of
`active_connections` below the maximum. That value cannot be one that wrapped
below zero, because of the width. So the sessions counted in and not out are
fewer than the maximum. An open session beyond those is one that some other
worker inserted and has not counted, and each such worker, each one that was let
in, and this one hold different accepts.

The steps of `Next` fall into classes by what they change (`Classes`). The proof
has one lemma for each class and the shapes, and one for each counter. Facts
about the sizes of sets are gathered in `Sized`, which holds of finite sets
(`SizedFinite`).

### The router and the registry

`RouterProofs` proves `RegistryCorrect`, `RegistryIndexesAgree` and
`RegistryIsMembership` of the registry. It then shows that the router uses the registry
only by its operations (`RouterUsesRegistry`), so that the registry's invariant
holds there, and proves the four invariants of the run `router` (`RouterTypes`,
`MembersHavePrincipals`, `OneStaleRoom`, `PublishesInOrder`). `RouterInv` adds:

- `HandlerShape`: a handler works on a message of the kind its place is for;
- `AnsweredOnce`: errors and malformed messages are no more than the messages, and
  fewer while one is being handled;
- `Authenticated`: past the check of the principal, and while in a room, a session
  has a principal until OnDisconnect erased it;
- `StaleShape`: after RemoveSession a session is in no room, or in the one its
  last handler joined;
- `Numbered`: what a recipient has of a session is older than the message that
  session's handler has still to forward to it.

### The session and detection

`SessionProofs` proves `SessionTypes`, `NoTimerEarly`, `ResponseFirst` and
`ClosesSurvive`. The
timer compares stamps that other threads store while its pass goes on, so
`SessionInv` bounds how far stamps and events can be apart: `CloseStamped` (the
stamp of a Close is no older than the Closing it is for, once it is stored),
`PongStamped` (`last_pong_ms` is at most a pass older than the ping). Two more
conjuncts are about the order of stores. `Detected` says what is known of the
transport and of the response wherever a thread is, from which `UpgradeFirst`
follows. `CloseBegun` says that a Close that began has a thread at work on it or its
frame in the queue, or the session is being disconnected; and that when the reader
is about to store Open, or has, that thread is a caller. `CloseKept` follows.

`DetectionSettles` proves `DetectionExact` for every stream, read size and limit.
`DetectionInv` adds only that a 101 answer goes with the transport it announces.
The work is in two lemmas: bytes that may still be a request are one or too few
to tell, and ParseHandshake's loop over the lines answers what the reference,
which speaks of the set of lines, says the request deserves.

### The pool and the inbound count

`SharedProofs` proves `PoolOneOwner`, `PoolChecksSilent` and `PoolListIsChain`
for any capacity and any set of threads. The invariant says that some numbering
`order` lists the free slots along their links, from the end of the list to its
head (`Listed`), that a slot is held by one thread or object or is free (`OneOwner`,
`Holds`), and that its debug bit agrees (`Bits`). A push gives
the next number and a pop takes the last one back, so nothing follows the list. The run's
`FreeListIsChain` does follow it, from the head through a recursive function;
that it agrees with the numbering at every place is shown by considering the
least place at which it would not.

`InboundCounted` and `InboundLimit` prove `InboundExact` and `LimitDeserved` for
any number of sessions. An update of the count is three steps, so the counter is
the sum of what the sessions have accounted only when none is between two of
them. `InboundInv` says in general:

- `Shape`: where the threads of a session can be, and for what;
- `Solitary`, `Settles`: while no two threads have updated a session at once, at
  most one is past the comparison, what it saw there still holds, and the session
  has accounted what it buffers or is about to;
- `CounterHolds`: while there was no such session, the counter is the sum of what
  each has added (`Credited`), which is ahead of `inbound_accounted` between the addition
  and the store;
- `Blamed`: a session the global limit ended below it has another to blame, whose
  threads updated it at once or which is gone and left bytes that nothing will
  take back (`Abandoned`).

### The limits

`LimitProofs` proves `QueuesCounted` (`QueuesExact`) and `DeliveryLimits`
(`LimitsExact`). Both are about sums, over a queue, over the queues, or over the
messages of the last second. `SumOf` defines a sum as the number of pairs of an
element and a unit it contributes, so that adding or taking an element is a fact
about cardinalities and no induction is needed.

`QueueInv`: for each queue there is a position k in the sequence of accepted
buffers such that the queue is what was accepted from there on, and
`queued_bytes`, with what its operation under way has already moved, is their
weight; and the budget is the sum of what the queues have reserved.

`DeliveryInv`: while the session goes on, `rate_window_messages` is the number of
messages younger than the window, and those of the last second that are older
than the window came from one window too, so they are no more than the limit.
The bound of twice the rate follows.

### What goes over the wire

`WireProofs` proves `CursorExact`, `FramingDelivers`, `FramingFits` and
`DecoderExact`.

- `CursorInv`: the wire has the first `sent` bytes of header and payload, and the
  write under way gathers exactly the others. A step joins two adjacent
  parts of one sequence.
- `FramingInv`: from the cursor on, the buffer holds the peer's bytes from the end
  of the last delivered frame to what was received. Reads extend it, compaction
  moves it, and Next takes a frame off its front, once it is shown that the four
  bytes there read back as the length they were made from.
- `DecoderInv`: between two turns the cursor stands at the end of frame `taken`;
  and `Assembled`: if the last data frame was not final, `fragments` is, in
  order, exactly the frames of the message from its binary frame on, and `held`
  the size of their payloads, and otherwise both are empty. Without it
  `FramesDecoded` is not inductive: whether a continuation is good is a fact about
  the frames sent, and the code decides it from `fragmented_` and the size of
  `fragmented_payload_`. The lemmas `ControlKeeps`, `BinaryStarts` and
  `ContinuationJoins` say how a message goes on over a frame of each kind.

### Only model-checked

- All liveness properties (`draining`, `timeouts`): fairness is out of the
  prover's reach.
- The byte functions (`CodecExact`): UTF-8, Base64 and the frame header are
  defined, and so are their references, by recursion over the input, and what
  such a definition computes needs induction over it.

## Not modelled

- SHA-1 and ComputeAcceptKey, the unmasking of payloads, and the trimming,
  lowering and tokenising of header text: bit and string arithmetic of which a
  bounded check says little. A header line is valid or not.
- `LengthPrefixedAccumulator::Reset`, which the server never calls, and the
  address checks of `TypedObjectPool::Destroy`: only pointers of the pool are
  given to it.
- FlatBuffers verification and generated code: external; a buffer is verifiable
  or not.
- Option parsing, logging, metrics output, thread affinity, the non-Windows
  stub: no shared state.
- Reuse of socket values by Winsock, and calls of Start and Stop from several
  threads at once: main uses one thread.
- Write operations in `Lifecycle` are threads that disconnect; their counting is
  in `SendPath`. The two are not composed: the product has too many states for
  a useful instance.
- The order of connect and disconnect callbacks, the number of accepts that stay
  posted, and principals stored after OnDisconnect: the models show what
  happens, and no document says what should.
