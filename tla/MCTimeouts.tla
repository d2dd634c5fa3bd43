----------------------------- MODULE MCTimeouts -----------------------------
(***************************************************************************)
(* What only the passing of time brings about: a session between its       *)
(* reader, its writer and the timer, every timeout one tick and a pass of  *)
(* the timer taking no time; and main, which waits for an interval.  The   *)
(* parts do not interact here, so a behaviour is one of the part that      *)
(* moves.  The other is at rest, the session gone or main returned because *)
(* Initialize failed, where fairness asks nothing of it.                   *)
(***************************************************************************)
EXTENDS Session, MainLoop

VARIABLE part

\* The session was dropped by the timer before it got anywhere.
Gone ==
    /\ state = "Closed" /\ transport = "Detecting"
    /\ disconnect_started = TRUE /\ registered = FALSE /\ awaiting_pong = FALSE
    /\ age = [connected |-> Old, activity |-> Old, pong |-> Old, close |-> Old]
    /\ pass = 0 /\ pc = [t \in Threads |-> "idle"]
    /\ response = "none" /\ unheralded = {} /\ close_queued = FALSE
    /\ closing_for = Never /\ pinged_for = Never /\ unjust = {}

\* Initialize failed.
Returns ==
    /\ stop_requested = FALSE /\ main = "failed" /\ serving = FALSE
    /\ handler = [s \in Signals |-> "none"]

MCInit ==
    \/ part = "session" /\ Init /\ Returns
    \/ part = "main" /\ MainInit /\ Gone

MCNext ==
    /\ UNCHANGED part
    /\ \/ part = "session" /\ Next /\ UNCHANGED mainVars
       \/ part = "main" /\ MainNext /\ UNCHANGED vars

MCSpec ==
    MCInit /\ [][MCNext]_<<part, vars, mainVars>> /\ Fairness /\ MainFairness

-----------------------------------------------------------------------------
\* The timer leaves no session in the handshake, in Closing or open with a peer that
\* fell silent.
SessionsEnd == HandshakeEnds /\ ClosingEnds /\ SilentEnds
=============================================================================
