------------------------------ MODULE MCRouter ------------------------------
(***************************************************************************)
(* One principal, three rooms; every kind of request, and, in behaviours   *)
(* of their own, more of those it takes to publish.                        *)
(***************************************************************************)
EXTENDS Router, TLC

CONSTANTS p1, r1, r2, r3

\* r2 may be joined but not published to.
MCAllowed == {<<p1, r1, FALSE>>, <<p1, r1, TRUE>>, <<p1, r2, FALSE>>}

\* Every kind of request, one of those that Handle answers alike.  The invalid room
\* r3 is only joined, and a malformed request and a leave name only r1: what happens
\* does not depend on more.
Everything(m) ==
    /\ m.kind \notin {"pong", "empty", "server only"}
    /\ "room" \in DOMAIN m =>
           /\ m.valid \/ m.room = r1
           /\ m.room = r3 => m.kind = "join"
           /\ m.kind = "leave" => m.room = r1

\* Only what it takes to publish.
Publishing(m) ==
    \/ m.kind = "authenticate" /\ m.principal = p1
    \/ m.kind \in {"join", "publish"} /\ m.room = r1 /\ m.valid

\* Only what it takes to be answered with an error.
Erroneous(m) == m.kind \in {"unverifiable", "version", "empty"}

VARIABLE part

P == INSTANCE Router WITH Offered <- Publishing

\* Bound: of every kind of request a session makes three.
EverythingBound == 3

MCInit == part \in {"offered", "publishing"} /\ Init

MCNext ==
    /\ UNCHANGED part
    /\ \/ /\ part = "offered" /\ Next
          /\ \A s \in Sessions : handled'[s] <= EverythingBound
       \/ part = "publishing" /\ P!Next

MCSpec == MCInit /\ [][MCNext]_<<part, vars>>

Symmetry == Permutations(Sessions)
=============================================================================
