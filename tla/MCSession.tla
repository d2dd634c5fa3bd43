----------------------------- MODULE MCSession -----------------------------
(***************************************************************************)
(* One session between its reader, its writer and the timer; the same with *)
(* a thread that calls Send and Close, whose timer takes no time and finds *)
(* a session late after one tick; and the outbound queues of two sessions  *)
(* on one budget.  They do not interact, so a behaviour is one of the part *)
(* that moves, and the others stay where they start.                       *)
(***************************************************************************)
EXTENDS Session, OutboundQueue

VARIABLE part

C == INSTANCE Session WITH
         HandshakeTimeout <- 0, IdleTimeout <- 0, PingInterval <- 0, PongTimeout <- 0,
         CloseTimeout <- 0, MaxPass <- 0, Callers <- {"caller"}

MCInit ==
    /\ QueueInit
    /\ \/ part \in {"session", "queues"} /\ Init
       \/ part = "callers" /\ C!Init

MCNext ==
    /\ UNCHANGED part
    /\ \/ part = "session" /\ Next /\ UNCHANGED queueVars
       \/ part = "callers" /\ C!Next /\ UNCHANGED queueVars
       \/ part = "queues" /\ QueueNext /\ UNCHANGED vars

MCSpec == MCInit /\ [][MCNext]_<<part, vars, queueVars>>
=============================================================================
