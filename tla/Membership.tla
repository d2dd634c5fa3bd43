----------------------------- MODULE Membership -----------------------------
(* What the room registry promises: a set of subscriptions, changed one    *)
(* subscription at a time and emptied for a session in one step.           *)

CONSTANTS Sessions, Rooms

VARIABLE members

Init == members = {}

Subscribe(s, r) ==
    /\ <<s, r>> \notin members
    /\ members' = members \cup {<<s, r>>}

Unsubscribe(s, r) ==
    /\ <<s, r>> \in members
    /\ members' = members \ {<<s, r>>}

Forget(s) == members' = members \ ({s} \X Rooms)

Next ==
    \/ \E s \in Sessions, r \in Rooms : Subscribe(s, r) \/ Unsubscribe(s, r)
    \/ \E s \in Sessions : Forget(s)

Spec == Init /\ [][Next]_members
=============================================================================
