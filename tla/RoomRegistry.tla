---------------------------- MODULE RoomRegistry ----------------------------
(***************************************************************************)
(* RoomRegistry (src/pubsub/room_registry.hpp): the two indexes and the    *)
(* operations on them, each one section of mutex_.  The checks Join and    *)
(* AuthorizePublish make before they lock belong to their caller (Router). *)
(* A map is a function whose domain is the keys it has.                    *)
(***************************************************************************)

CONSTANTS Sessions, Rooms

VARIABLES room_to_sessions, session_to_rooms

indexes == <<room_to_sessions, session_to_rooms>>

NoEntries == [k \in {} |-> {}]

Lookup(map, key) == IF key \in DOMAIN map THEN map[key] ELSE {}

\* The entry of a key after a change: an entry that became empty is erased.
Store(map, key, values) ==
    [k \in IF values = {} THEN DOMAIN map \ {key} ELSE DOMAIN map \cup {key} |->
        IF k = key THEN values ELSE map[k]]

RegistryInit ==
    /\ room_to_sessions = NoEntries
    /\ session_to_rooms = NoEntries

Subscribed(s, r) == r \in Lookup(session_to_rooms, s)

\* Snapshot: the recipients of a publish.
Snapshot(r) == Lookup(room_to_sessions, r)

\* insert(room).second is true: both indexes get the subscription.
Join(s, r) ==
    /\ ~Subscribed(s, r)
    /\ session_to_rooms' =
           Store(session_to_rooms, s, Lookup(session_to_rooms, s) \cup {r})
    /\ room_to_sessions' =
           Store(room_to_sessions, r, Lookup(room_to_sessions, r) \cup {s})

Leave(s, r) ==
    /\ Subscribed(s, r)
    /\ session_to_rooms' =
           Store(session_to_rooms, s, Lookup(session_to_rooms, s) \ {r})
    /\ room_to_sessions' =
           Store(room_to_sessions, r, Lookup(room_to_sessions, r) \ {s})

\* Mutants: the rooms keep the session, or lose everybody.
MutantRoomsKeep(s, r) == room_to_sessions[r]
MutantRoomsClear(s, r) == IF Subscribed(s, r) THEN {} ELSE room_to_sessions[r]

\* The loop over the session's rooms erases the session from each of them.
RemainingIn(s, r) ==
    IF Subscribed(s, r) THEN room_to_sessions[r] \ {s} ELSE room_to_sessions[r]

RemoveSession(s) ==
    /\ session_to_rooms' = Store(session_to_rooms, s, {})
    /\ room_to_sessions' =
           [r \in {q \in DOMAIN room_to_sessions : RemainingIn(s, q) # {}} |->
               RemainingIn(s, r)]

RegistryNext ==
    \E s \in Sessions :
        \/ \E r \in Rooms : Join(s, r) \/ Leave(s, r)
        \/ RemoveSession(s)

RegistrySpec == RegistryInit /\ [][RegistryNext]_indexes

-----------------------------------------------------------------------------
\* The maps relate the sessions and rooms that exist.
RegistryTypeOK ==
    /\ DOMAIN session_to_rooms \subseteq Sessions
    /\ session_to_rooms \in [DOMAIN session_to_rooms -> SUBSET Rooms]
    /\ DOMAIN room_to_sessions \subseteq Rooms
    /\ room_to_sessions \in [DOMAIN room_to_sessions -> SUBSET Sessions]

\* The two indexes always say the same: publishing (Snapshot) and the check
\* before it (AuthorizePublish) read different ones.
IndexesAgree ==
    \A s \in Sessions, r \in Rooms :
        r \in Lookup(session_to_rooms, s) <=> s \in Lookup(room_to_sessions, r)

\* No room and no session keeps an entry without a subscription, so the maps
\* do not grow with the rooms and sessions that have come and gone.
NoEmptyEntry ==
    /\ \A s \in DOMAIN session_to_rooms : session_to_rooms[s] # {}
    /\ \A r \in DOMAIN room_to_sessions : room_to_sessions[r] # {}

\* What every operation of the registry may rely on: the inductive invariant.
RegistryInv == RegistryTypeOK /\ IndexesAgree /\ NoEmptyEntry

Subscriptions == INSTANCE Membership WITH
    members <- {p \in Sessions \X Rooms : p[1] \in Lookup(room_to_sessions, p[2])}

\* The registry behaves like one set of subscriptions, although every
\* operation decides on one index and publishing reads the other.
RefinesMembership == Subscriptions!Spec
=============================================================================
