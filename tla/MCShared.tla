------------------------------ MODULE MCShared ------------------------------
(***************************************************************************)
(* What the threads of all sessions share: the pool of the accept          *)
(* operations and the counter of inbound bytes.  They do not interact, so  *)
(* a behaviour is one of the part that moves, and the other stays where it *)
(* starts.                                                                 *)
(***************************************************************************)
EXTENDS ObjectPool, Inbound, TLC

VARIABLE part

MCInit == part \in {"pool", "inbound"} /\ Init /\ InboundInit

\* Every session has ended: only then may the read path stop.
AllEnded == \A s \in Sessions : disconnect_started[s] /\ AtRest(s)

MCNext ==
    /\ UNCHANGED part
    /\ \/ part = "pool" /\ Next /\ UNCHANGED inboundVars
       \/ part = "inbound" /\ InboundNext /\ UNCHANGED vars
       \/ part = "inbound" /\ AllEnded /\ UNCHANGED <<vars, inboundVars>>

MCSpec == MCInit /\ [][MCNext]_<<part, vars, inboundVars>>

Symmetry == Permutations(Sessions)
=============================================================================
