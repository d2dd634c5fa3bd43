----------------------------- MODULE MCDraining -----------------------------
(***************************************************************************)
(* What Stop waits for: the life of the server with one session and two    *)
(* accepts, and the send path of one session with four items.  The parts   *)
(* do not interact here, so a behaviour is one of the part that moves.     *)
(* The other is at rest, the server not started or no item given to        *)
(* Enqueue, where fairness asks nothing of it.                             *)
(***************************************************************************)
EXTENDS Lifecycle

VARIABLE part

VARIABLES life, lock, send_queue, queued_bytes, write_active, starting,
          disconnecting, global_queued, w_outstanding_operations, stage, sent, txd,
          owner, ticket, accepted

w_vars == <<life, lock, send_queue, queued_bytes, write_active, starting,
            disconnecting, global_queued, w_outstanding_operations, stage, sent, txd,
            owner, ticket, accepted>>

\* Sizes 1 and 2: a two-byte item can be written in two parts.
W == INSTANCE SendPath WITH
    Items <- {"i1", "i2", "i3", "i4"},
    Size <- [i \in {"i1", "i2", "i3", "i4"} |-> IF i = "i3" THEN 1 ELSE 2],
    CloseAfter <- {"i3"}, MaxSessionQueued <- 4, MaxGlobalQueued <- 4,
    NoItem <- "none", outstanding_operations <- w_outstanding_operations

MCInit == part \in {"lifecycle", "send path"} /\ Init /\ W!Init

MCNext ==
    /\ UNCHANGED part
    /\ \/ part = "lifecycle" /\ Next /\ UNCHANGED w_vars
       \/ part = "send path" /\ W!Next /\ UNCHANGED vars

MCSpec ==
    MCInit /\ [][MCNext]_<<part, vars, w_vars>> /\ Fairness /\ W!Fairness

-----------------------------------------------------------------------------
\* Every accepted item is taken off the send queue, unless a write before it waits
\* for a peer that does not read.
ItemsMove == W!ItemsMove

\* A Disconnect that started runs to its end and takes the reads and writes of the
\* session with it; all bytes it had queued are given back.
DisconnectEnds == DisconnectCompletes /\ W!DisconnectDrains
=============================================================================
