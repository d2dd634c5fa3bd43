--------------------------- MODULE OrderedChannel ---------------------------
(***************************************************************************)
(* What the outbound path of a session promises, without queues, locks,    *)
(* threads or operations: items are accepted one after the other while the *)
(* session is up, their bytes come out in that order, nothing comes out    *)
(* behind an item that closes the connection, and the session may go down  *)
(* at any time, which loses whatever did not come out.                     *)
(***************************************************************************)
EXTENDS Naturals

CONSTANTS Sessions, Items, Size, CloseAfter, NoSession

VARIABLES up, owner, ticket, accepted, txd

vars == <<up, owner, ticket, accepted, txd>>

Init ==
    /\ up = [s \in Sessions |-> TRUE]
    /\ owner = [i \in Items |-> NoSession]
    /\ ticket = [i \in Items |-> 0]
    /\ accepted = [s \in Sessions |-> 0]
    /\ txd = [i \in Items |-> 0]

Accept(s, i) ==
    /\ up[s]
    /\ owner[i] = NoSession
    /\ owner' = [owner EXCEPT ![i] = s]
    /\ accepted' = [accepted EXCEPT ![s] = @ + 1]
    /\ ticket' = [ticket EXCEPT ![i] = accepted[s] + 1]
    /\ UNCHANGED <<up, txd>>

Deliver(s, i, n) ==
    /\ up[s]
    /\ owner[i] = s
    /\ n <= Size[i] - txd[i]
    /\ \A j \in Items : owner[j] = s /\ ticket[j] < ticket[i] =>
           txd[j] = Size[j] /\ j \notin CloseAfter
    /\ txd' = [txd EXCEPT ![i] = @ + n]
    /\ UNCHANGED <<up, owner, ticket, accepted>>

GoDown(s) ==
    /\ up[s]
    /\ up' = [up EXCEPT ![s] = FALSE]
    /\ UNCHANGED <<owner, ticket, accepted, txd>>

Next ==
    \E s \in Sessions :
        \/ \E i \in Items : Accept(s, i)
        \/ \E i \in Items : \E n \in 1 .. Size[i] : Deliver(s, i, n)
        \/ GoDown(s)

Spec == Init /\ [][Next]_vars
=============================================================================
