---------------------------- MODULE OutboundQueue ----------------------------
(***************************************************************************)
(* OutboundQueue and GlobalQueueBudget of outbound_queue.hpp: queues, each *)
(* under its own mutex, that share a budget under another.  A thread keeps *)
(* the queue's mutex while it takes and leaves the budget's, once per Push *)
(* and Pop and once per buffer in Close, so the queues' operations         *)
(* interleave at the budget.  Which thread it is makes no difference.      *)
(*                                                                         *)
(* A buffer is its size.  A Push refused and a Pop of an empty queue       *)
(* change nothing and are not steps.                                       *)
(***************************************************************************)
EXTENDS Sequences, Sums

CONSTANTS
    Queues,
    Sizes,              \* the sizes of a buffer
    SessionLimit,       \* session_limit_
    GlobalLimit,        \* the budget's limit_
    Word,               \* the number of values of a std::size_t
    MaxPushes           \* bound: the buffers one queue is ever given

ASSUME QueueAssumption ==
    /\ IsFiniteSet(Queues) /\ Sizes \subseteq Nat
    /\ SessionLimit \in Nat /\ GlobalLimit \in Nat /\ Word \in Nat
    /\ SessionLimit < Word /\ GlobalLimit < Word

VARIABLES
    queue, queued_bytes, closed,    \* of each queue
    used,                           \* of the budget
    work,       \* the operation that holds each queue's mutex, and the bytes
                \* by which the budget and the queue now differ for it
    accepted, popped                \* history: what was pushed and popped

queueVars == <<queue, queued_bytes, closed, used, work, accepted, popped>>

Work(op, n) == [op |-> op, bytes |-> n]
Idle == Work("none", 0)

QueueInit ==
    /\ queue = [q \in Queues |-> <<>>] /\ queued_bytes = [q \in Queues |-> 0]
    /\ closed = [q \in Queues |-> FALSE]
    /\ used = 0
    /\ work = [q \in Queues |-> Idle]
    /\ accepted = [q \in Queues |-> <<>>] /\ popped = [q \in Queues |-> <<>>]

\* A thread takes q's mutex and runs op to its next use of the budget.
Lock(q, op, n) == work[q] = Idle /\ work' = [work EXCEPT ![q] = Work(op, n)]
Unlock(q) == work' = [work EXCEPT ![q] = Idle]

\* Mutant: the first half of the test is dropped, and the difference wraps.
MutantFitsWraps(n, sum, limit) == ~(sum > (limit - n) % Word)

\* The test of Push and of TryReserve: n more bytes keep sum within limit.
Fits(n, sum, limit) == ~(n > limit \/ sum > (limit - n) % Word)

\* Push, to the end of TryReserve.
Push(q, n) ==
    /\ Lock(q, "push", n) /\ ~closed[q] /\ Len(accepted[q]) < MaxPushes
    /\ Fits(n, queued_bytes[q], SessionLimit) /\ Fits(n, used, GlobalLimit)
    /\ used' = used + n
    /\ UNCHANGED <<queue, queued_bytes, closed, accepted, popped>>

\* The rest of Push.
Pushed(q) ==
    LET n == work[q].bytes
    IN  /\ work[q].op = "push"
        /\ queue' = [queue EXCEPT ![q] = Append(@, n)]
        /\ queued_bytes' = [queued_bytes EXCEPT ![q] = @ + n]
        /\ accepted' = [accepted EXCEPT ![q] = Append(@, n)]
        /\ Unlock(q)
        /\ UNCHANGED <<closed, used, popped>>

\* Pop, to the call of Release.
Pop(q) ==
    LET n == Head(queue[q])
    IN  /\ queue[q] # <<>> /\ Lock(q, "pop", n)
        /\ queue' = [queue EXCEPT ![q] = Tail(@)]
        /\ queued_bytes' = [queued_bytes EXCEPT ![q] = @ - n]
        /\ popped' = [popped EXCEPT ![q] = Append(@, n)]
        /\ UNCHANGED <<closed, used, accepted>>

\* Release never goes below zero.
Release(n) == used' = IF n > used THEN 0 ELSE used - n

Popped(q) ==
    /\ work[q].op = "pop"
    /\ Release(work[q].bytes)
    /\ Unlock(q)
    /\ UNCHANGED <<queue, queued_bytes, closed, accepted, popped>>

\* Close, to the loop; closing again is no different.
CloseQueue(q) ==
    /\ Lock(q, "close", 0)
    /\ closed' = [closed EXCEPT ![q] = TRUE]
    /\ UNCHANGED <<queue, queued_bytes, used, accepted, popped>>

\* One turn of Close's loop.  A buffer is dropped here when it is released; the
\* code drops them all by clear(), and nobody can look before that.
CloseBuffer(q) ==
    LET n == Head(queue[q])
    IN  /\ work[q].op = "close" /\ queue[q] # <<>>
        /\ Release(n)
        /\ queue' = [queue EXCEPT ![q] = Tail(@)]
        /\ work' = [work EXCEPT ![q] = Work("close", work[q].bytes - n)]
        /\ UNCHANGED <<queued_bytes, closed, accepted, popped>>

Closed(q) ==
    /\ work[q].op = "close" /\ queue[q] = <<>>
    /\ queued_bytes' = [queued_bytes EXCEPT ![q] = 0]
    /\ Unlock(q)
    /\ UNCHANGED <<queue, closed, used, accepted, popped>>

QueueNext ==
    \E q \in Queues :
        \/ \E n \in Sizes : Push(q, n)
        \/ Pushed(q) \/ Pop(q) \/ Popped(q)
        \/ CloseQueue(q) \/ CloseBuffer(q) \/ Closed(q)

QueueSpec == QueueInit /\ [][QueueNext]_queueVars

-----------------------------------------------------------------------------
\* Neither limit is ever exceeded.
QueueTypeOK ==
    /\ queued_bytes \in [Queues -> 0 .. SessionLimit]
    /\ used \in 0 .. GlobalLimit
    /\ closed \in [Queues -> BOOLEAN]

\* The bytes of q that the budget should hold: what is queued, and what the
\* operation under way has reserved and not pushed or taken and not released.
Reserved == [q \in Queues |-> queued_bytes[q] + work[q].bytes]

\* The buffers of q that were accepted and not popped.
Waiting(q) == Len(popped[q]) + 1 .. Len(accepted[q])

\* The budget holds the bytes of every queue: whatever threads push, pop and close at
\* once, no byte is left in the budget, and Release never has to stop at zero.  And
\* a queue counts the bytes of the buffers it has.
BudgetExact ==
    /\ used = SumOf(Reserved, Queues, SessionLimit)
    /\ \A q \in Queues :
           work[q] = Idle =>
               queued_bytes[q] =
                   IF closed[q] THEN 0 ELSE SumOf(accepted[q], Waiting(q), SessionLimit)

\* A queue is first in, first out, and what Close dropped is the newest of what
\* was accepted.
FirstInFirstOut ==
    \A q \in Queues :
        /\ Len(popped[q]) <= Len(accepted[q])
        /\ popped[q] = SubSeq(accepted[q], 1, Len(popped[q]))
        /\ work[q] = Idle =>
               queue[q] = IF closed[q] THEN <<>>
                          ELSE SubSeq(accepted[q], Len(popped[q]) + 1, Len(accepted[q]))

\* GlobalQueueBudget holds the bytes of every queue and of the operations under way,
\* and an OutboundQueue is first in, first out; Close drops the newest.
QueuesExact == QueueTypeOK /\ BudgetExact /\ FirstInFirstOut
=============================================================================
