---------------------------- MODULE RouterProofs ----------------------------
(***************************************************************************)
(* ProtocolRouter for every set of sessions, rooms and principals, every   *)
(* authorizer and whatever the clients send: it uses the registry only by  *)
(* the registry's own operations; the sessions in rooms have a principal;  *)
(* a disconnected session keeps one room at most; and each recipient gets  *)
(* a session's publishes in order.  And the registry by itself: its two    *)
(* indexes agree, hold no empty entry and behave like one set of           *)
(* subscriptions.                                                          *)
(***************************************************************************)
EXTENDS Router, TLAPS

\* SMT is tried first and Zenon next, except where a leaf names Zenon.
USE SMTT(30), ZenonT(20)

\* The messages by the fields they have.
PlainKinds ==
    {"unverifiable", "version", "empty", "server only", "ping", "pong", "bad token"}
PlainRequests == [kind : PlainKinds]
AuthRequests == [kind : {"authenticate"}, principal : Principals \cup {NoPrincipal}]
RoomRequests ==
    [kind : {"join", "leave", "publish"}, room : Rooms, valid : BOOLEAN]

Places ==
    {"idle", "authenticate", "join", "leave", "publish", "authorize", "locked",
     "snapshot", "forward"} \cup PlainKinds

\* A handler works on a message of the kind its place in Handle is for.
HandlerAt(s) ==
    /\ pc[s] = "authenticate" => request[s] \in AuthRequests
    /\ pc[s] \in {"join", "leave", "publish", "authorize", "locked", "snapshot",
                  "forward"} => request[s] \in RoomRequests
    /\ pc[s] \in {"join", "publish"} => request[s].kind = pc[s]
    /\ pc[s] \in {"authorize", "locked"} => request[s].kind \in {"join", "publish"}

HandlerShape ==
    /\ pc \in [Sessions -> Places]
    /\ \A s \in Sessions : HandlerAt(s)

\* A message that is still being handled has not been counted yet.
AnsweredOnce ==
    \A s \in Sessions :
        /\ malformed[s] <= handled[s] /\ errors[s] <= handled[s]
        /\ pc[s] # "idle" => malformed[s] < handled[s] /\ errors[s] < handled[s]

\* Past IsAuthenticated a handler's session has a principal until OnDisconnect
\* has erased it.
PastCheck(s) == pc[s] \in {"authorize", "locked", "snapshot", "forward"}
Authenticated ==
    \A s \in Sessions :
        link[s] # "gone" /\ (PastCheck(s) \/ s \in DOMAIN session_to_rooms) =>
            principals[s] # NoPrincipal

\* Once RemoveFromRooms has run no message is begun, so the session is in no room,
\* or in the one its last handler joined.
StaleShape ==
    \A s \in Sessions :
        link[s] \in {"forgotten", "gone"} =>
            \/ Lookup(session_to_rooms, s) = {}
            \/ /\ pc[s] = "idle"
               /\ \E r \in Rooms : Lookup(session_to_rooms, s) = {r}

\* A publish that is being forwarded is newer than what its remaining recipients
\* have of its session, and a message being handled than what anybody has.
Behind(s, r) == pc[s] # "idle" /\ (pc[s] = "forward" => r \in recipients[s])
Entries == [from : Sessions, number : Nat]
Numbered ==
    /\ inbox \in [Sessions -> Seq(Entries)]
    /\ \A r, f \in Sessions : \A p \in DOMAIN inbox[r] :
           inbox[r][p].from = f =>
               /\ inbox[r][p].number <= handled[f]
               /\ Behind(f, r) => inbox[r][p].number < handled[f]

\* The inductive invariant.
RouterInv ==
    /\ TypeOK /\ HandlerShape /\ AnsweredOnce /\ RegistryInv
    /\ Authenticated /\ StaleShape /\ Numbered /\ PublisherOrder

-----------------------------------------------------------------------------
(* Types, and how often a message is answered.                             *)

\* The part of the type invariant that is not the registry's.
HandlerTypes ==
    /\ link \in [Sessions -> {"up", "closing", "forgotten", "gone"}]
    /\ principals \in [Sessions -> Principals \cup {NoPrincipal}]
    /\ request \in [Sessions -> Requests \cup {NoRequest}]
    /\ recipients \in [Sessions -> SUBSET Sessions]
    /\ handled \in [Sessions -> 0 .. MaxMessages]
    /\ malformed \in [Sessions -> 0 .. MaxMessages]
    /\ errors \in [Sessions -> 0 .. MaxMessages]

\* The messages are the plain ones, those with a token and those with a room.
LEMMA RequestKinds ==
    ASSUME NEW m \in Requests
    PROVE  /\ m.kind \in Places \ {"idle", "authorize", "locked", "snapshot", "forward"}
           /\ m.kind = "authenticate" => m \in AuthRequests
           /\ m.kind \in {"join", "leave", "publish"} => m \in RoomRequests
  BY Zenon DEF Requests, Places, PlainKinds, PlainRequests, AuthRequests, RoomRequests

\* What a handler that returns leaves behind, with an error response or without.
LEMMA ReturnStep ==
    ASSUME HandlerTypes, HandlerShape, AnsweredOnce, NEW s \in Sessions,
           pc[s] # "idle", NEW d, Return(s, d), SendError(s) \/ UNCHANGED errors,
           UNCHANGED <<link, handled, recipients>>,
           principals' \in [Sessions -> Principals \cup {NoPrincipal}]
    PROVE  HandlerTypes' /\ HandlerShape' /\ AnsweredOnce'
  <1>0. malformed[s] + 1 \in 0 .. MaxMessages /\ errors[s] + 1 \in 0 .. MaxMessages
    BY RouterAssumption DEF HandlerTypes, AnsweredOnce
  <1>1. HandlerTypes'
    <2>1. /\ malformed' \in [Sessions -> 0 .. MaxMessages]
          /\ errors' \in [Sessions -> 0 .. MaxMessages]
      BY <1>0 DEF HandlerTypes, Return, SendError
    <2>2. QED
      BY <2>1 DEF HandlerTypes, Return
  <1>2. HandlerShape'
    BY DEF HandlerTypes, HandlerShape, HandlerAt, Return, Places
  <1>3. AnsweredOnce'
    BY RouterAssumption DEF HandlerTypes, HandlerShape, AnsweredOnce, Return, SendError
  <1>4. QED
    BY <1>1, <1>2, <1>3

\* What a handler that goes on keeps.
LEMMA ProceedStep ==
    ASSUME HandlerTypes, HandlerShape, AnsweredOnce, NEW s \in Sessions,
           pc[s] \in {"join", "publish", "authorize", "locked", "snapshot"},
           NEW to, pc' = [pc EXCEPT ![s] = to],
           to \in {"authorize", "locked"} => request[s].kind \in {"join", "publish"},
           to \in {"authorize", "locked", "snapshot", "forward"},
           UNCHANGED <<link, principals, handled, request, resultVars>>,
           recipients' \in [Sessions -> SUBSET Sessions]
    PROVE  HandlerTypes' /\ HandlerShape' /\ AnsweredOnce'
  BY Zenon DEF HandlerTypes, HandlerShape, HandlerAt, Places, AnsweredOnce, resultVars

\* Every step keeps the types, keeps a handler where its message is handled, and
\* answers a message at most once.
LEMMA HandlerTypesStep ==
    ASSUME HandlerTypes, HandlerShape, AnsweredOnce, RegistryTypeOK, [Next]_vars
    PROVE  HandlerTypes' /\ HandlerShape' /\ AnsweredOnce'
  <1> DEFINE Goal == HandlerTypes' /\ HandlerShape' /\ AnsweredOnce'
  <1> SUFFICES ASSUME TRUE PROVE Goal
    OBVIOUS
  <1>1. ASSUME NEW s \in Sessions, NEW m \in Requests, Receive(s, m)
        PROVE  Goal
    <2>1. HandlerTypes'
      BY <1>1, RouterAssumption DEF Receive, HandlerTypes, resultVars
    <2>2. HandlerShape'
      BY <1>1, RequestKinds, Zenon DEF Receive, HandlerTypes, HandlerShape, HandlerAt
    <2>3. AnsweredOnce'
      BY <1>1, RouterAssumption
      DEF Receive, HandlerTypes, HandlerShape, AnsweredOnce, resultVars
    <2>4. QED
      BY <2>1, <2>2, <2>3
  <1>2. ASSUME NEW s \in Sessions, HandleImmediate(s)
        PROVE  Goal
    BY <1>2, ReturnStep, Zenon DEF HandleImmediate, HandlerTypes
  <1>3. ASSUME NEW s \in Sessions, HandleAuthenticate(s)
        PROVE  Goal
    <2>1. principals' \in [Sessions -> Principals \cup {NoPrincipal}]
      BY <1>3 DEF HandleAuthenticate, HandlerTypes, HandlerShape, HandlerAt, AuthRequests
    <2>2. QED
      BY <1>3, <2>1, ReturnStep DEF HandleAuthenticate
  <1>4. ASSUME NEW s \in Sessions, CheckAuthenticated(s)
        PROVE  Goal
    <2>1. CASE principals[s] = NoPrincipal
      BY <1>4, <2>1, ReturnStep, Zenon DEF CheckAuthenticated, HandlerTypes
    <2>2. CASE principals[s] # NoPrincipal
      <3>1. request[s].kind \in {"join", "publish"}
        BY <1>4 DEF CheckAuthenticated, HandlerShape, HandlerAt
      <3>2. QED
        BY <1>4, <2>2, <3>1, ProceedStep, Zenon DEF CheckAuthenticated, HandlerTypes, resultVars
    <2>3. QED
      BY <2>1, <2>2
  <1>5. ASSUME NEW s \in Sessions, Authorize(s)
        PROVE  Goal
    <2>1. CASE /\ ValidateDomain(request[s])
               /\ IsValidRoom(request[s].room) /\ AuthorizeRoom(s)
      <3>1. request[s].kind \in {"join", "publish"}
        BY <1>5 DEF Authorize, HandlerShape, HandlerAt
      <3>2. QED
        BY <1>5, <2>1, <3>1, ProceedStep, Zenon DEF Authorize, HandlerTypes, resultVars
    <2>2. CASE ~(/\ ValidateDomain(request[s])
                 /\ IsValidRoom(request[s].room) /\ AuthorizeRoom(s))
      <3>1. /\ SendError(s) \/ UNCHANGED errors
            /\ Return(s, "Accepted") \/ Return(s, "Malformed")
            /\ pc[s] # "idle"
            /\ UNCHANGED <<link, handled, recipients, principals>>
        BY <1>5, <2>2 DEF Authorize
      <3>2. QED
        BY <3>1, ReturnStep, Zenon DEF HandlerTypes
    <2>3. QED
      BY <2>1, <2>2
  <1>6. ASSUME NEW s \in Sessions, HandleJoin(s)
        PROVE  Goal
    BY <1>6, ReturnStep, Zenon DEF HandleJoin, HandlerTypes
  <1>7. ASSUME NEW s \in Sessions, HandleLeave(s)
        PROVE  Goal
    BY <1>7, ReturnStep, Zenon DEF HandleLeave, HandlerTypes
  <1>8. ASSUME NEW s \in Sessions, CheckSubscribed(s)
        PROVE  Goal
    BY <1>8, ReturnStep, ProceedStep, Zenon DEF CheckSubscribed, HandlerTypes, resultVars
  <1>9. ASSUME NEW s \in Sessions, TakeSnapshot(s)
        PROVE  Goal
    <2>1. request[s].room \in Rooms
      BY <1>9 DEF TakeSnapshot, HandlerShape, HandlerAt, RoomRequests
    <2>2. recipients' \in [Sessions -> SUBSET Sessions]
      BY <1>9, <2>1
      DEF TakeSnapshot, HandlerTypes, Snapshot, Lookup, RegistryTypeOK
    <2>3. QED
      BY <1>9, <2>2, ProceedStep, Zenon DEF TakeSnapshot
  <1>10. ASSUME NEW s \in Sessions, NEW r \in Sessions, Forward(s, r)
         PROVE  Goal
    BY <1>10, Zenon DEF Forward, HandlerTypes, HandlerShape, HandlerAt, AnsweredOnce, resultVars
  <1>11. ASSUME NEW s \in Sessions, Published(s)
         PROVE  Goal
    BY <1>11, ReturnStep, Zenon DEF Published, HandlerTypes
  <1>12. ASSUME NEW s \in Sessions,
                Disconnect(s) \/ RemoveFromRooms(s) \/ ErasePrincipal(s)
         PROVE  Goal
    <2>1. /\ link' \in [Sessions -> {"up", "closing", "forgotten", "gone"}]
          /\ principals' \in [Sessions -> Principals \cup {NoPrincipal}]
          /\ UNCHANGED <<request, pc, recipients, handled, malformed, errors>>
      BY <1>12 DEF Disconnect, RemoveFromRooms, ErasePrincipal, HandlerTypes, resultVars
    <2>2. QED
      BY <2>1 DEF HandlerTypes, HandlerShape, HandlerAt, AnsweredOnce
  <1>13. CASE UNCHANGED vars
    BY <1>13, Zenon DEF vars, HandlerTypes, HandlerShape, HandlerAt, AnsweredOnce, resultVars
  <1>14. QED
    BY <1>1, <1>2, <1>3, <1>4, <1>5, <1>6, <1>7, <1>8, <1>9, <1>10, <1>11, <1>12, <1>13, Zenon
    DEF Next, HandlerStep, OnDisconnect

-----------------------------------------------------------------------------
(* Who is in rooms.                                                        *)

RoomsOf(s) == Lookup(session_to_rooms, s)

\* What the registry's operations do to the rooms of a session.
LEMMA RoomsAfter ==
    ASSUME NEW s \in Sessions, NEW t \in Sessions
    PROVE  /\ \A r \in Rooms : Join(s, r) =>
                  /\ RoomsOf(t)' = IF t = s THEN RoomsOf(s) \cup {r} ELSE RoomsOf(t)
                  /\ t # s => (t \in DOMAIN session_to_rooms' <=> t \in DOMAIN session_to_rooms)
           /\ \A r \in Rooms : Leave(s, r) =>
                  /\ RoomsOf(t)' = IF t = s THEN RoomsOf(s) \ {r} ELSE RoomsOf(t)
                  /\ t \in DOMAIN session_to_rooms' => t \in DOMAIN session_to_rooms
           /\ RemoveSession(s) =>
                  /\ RoomsOf(t)' = IF t = s THEN {} ELSE RoomsOf(t)
                  /\ t \in DOMAIN session_to_rooms' => t \in DOMAIN session_to_rooms
  BY Zenon DEF RoomsOf, Join, Leave, RemoveSession, Store, Lookup, Subscribed

\* A session gets into rooms only past IsAuthenticated, and its principal is
\* erased only when it is gone.
LEMMA AuthenticatedStep ==
    ASSUME HandlerTypes, HandlerShape, Authenticated, [Next]_vars
    PROVE  Authenticated'
  <1> SUFFICES ASSUME NEW t \in Sessions, link'[t] # "gone",
                      PastCheck(t)' \/ t \in DOMAIN session_to_rooms'
               PROVE  principals'[t] # NoPrincipal
    BY DEF Authenticated
  <1>0. link[t] # "gone"
    BY ZenonT(30) DEF Next, HandlerStep, OnDisconnect, Receive, HandleImmediate,
           HandleAuthenticate, CheckAuthenticated, Authorize, HandleJoin, HandleLeave,
           CheckSubscribed, TakeSnapshot, Forward, Published, Disconnect,
           RemoveFromRooms, ErasePrincipal, vars, HandlerTypes
  <1>1. ASSUME NEW s \in Sessions, NEW m \in Requests, Receive(s, m)
        PROVE  principals'[t] # NoPrincipal
    <2>1. PastCheck(t)' => PastCheck(t)
      BY <1>1, RequestKinds DEF Receive, PastCheck, HandlerShape
    <2>2. QED
      BY <1>0, <1>1, <2>1 DEF Receive, Authenticated, indexes
  <1>2. ASSUME NEW s \in Sessions,
               \/ HandleImmediate(s) \/ Published(s) \/ Authorize(s)
               \/ CheckSubscribed(s) \/ TakeSnapshot(s)
               \/ \E r \in Sessions : Forward(s, r)
        PROVE  principals'[t] # NoPrincipal
    <2>1. PastCheck(t)' => PastCheck(t)
      BY <1>2, Zenon DEF HandleImmediate, Published, Authorize, CheckSubscribed, TakeSnapshot,
                  Forward, Return, PastCheck, HandlerShape
    <2>2. UNCHANGED <<principals, session_to_rooms>>
      BY <1>2, Zenon DEF HandleImmediate, Published, Authorize, CheckSubscribed, TakeSnapshot,
                  Forward, indexes
    <2>3. QED
      BY <1>0, <2>1, <2>2 DEF Authenticated
  <1>3. ASSUME NEW s \in Sessions, HandleAuthenticate(s)
        PROVE  principals'[t] # NoPrincipal
    <2>1. PastCheck(t)' => PastCheck(t)
      BY <1>3 DEF HandleAuthenticate, Return, PastCheck, HandlerShape
    <2>2. QED
      BY <1>0, <1>3, <2>1 DEF HandleAuthenticate, Authenticated, HandlerTypes, indexes
  <1>4. ASSUME NEW s \in Sessions, CheckAuthenticated(s)
        PROVE  principals'[t] # NoPrincipal
    BY <1>0, <1>4
    DEF CheckAuthenticated, Authenticated, HandlerShape, Return, PastCheck, indexes
  <1>5. ASSUME NEW s \in Sessions, HandleJoin(s)
        PROVE  principals'[t] # NoPrincipal
    <2>1. request[s].room \in Rooms /\ PastCheck(s)
      BY <1>5 DEF HandleJoin, HandlerShape, HandlerAt, RoomRequests, PastCheck
    <2>2. t # s => (t \in DOMAIN session_to_rooms' => t \in DOMAIN session_to_rooms)
      BY <1>5, <2>1, RoomsAfter DEF HandleJoin, indexes
    <2>3. PastCheck(t)' => PastCheck(t)
      BY <1>5 DEF HandleJoin, Return, PastCheck, HandlerShape
    <2>4. QED
      BY <1>0, <1>5, <2>1, <2>2, <2>3 DEF HandleJoin, Authenticated
  <1>6. ASSUME NEW s \in Sessions, HandleLeave(s)
        PROVE  principals'[t] # NoPrincipal
    <2>1. request[s].room \in Rooms
      BY <1>6 DEF HandleLeave, HandlerShape, HandlerAt, RoomRequests
    <2>2. t \in DOMAIN session_to_rooms' => t \in DOMAIN session_to_rooms
      BY <1>6, <2>1, RoomsAfter DEF HandleLeave, indexes
    <2>3. PastCheck(t)' => PastCheck(t)
      BY <1>6 DEF HandleLeave, Return, PastCheck, HandlerShape
    <2>4. QED
      BY <1>0, <1>6, <2>2, <2>3 DEF HandleLeave, Authenticated
  <1>7. ASSUME NEW s \in Sessions,
               Disconnect(s) \/ RemoveFromRooms(s) \/ ErasePrincipal(s)
        PROVE  principals'[t] # NoPrincipal
    <2>1. t \in DOMAIN session_to_rooms' => t \in DOMAIN session_to_rooms
      BY <1>7, RoomsAfter DEF Disconnect, RemoveFromRooms, ErasePrincipal, indexes
    <2>2. principals'[t] = principals[t]
      BY <1>7 DEF Disconnect, RemoveFromRooms, ErasePrincipal, HandlerTypes
    <2>3. PastCheck(t)' => PastCheck(t)
      BY <1>7 DEF Disconnect, RemoveFromRooms, ErasePrincipal, PastCheck
    <2>4. QED
      BY <1>0, <2>1, <2>2, <2>3 DEF Authenticated
  <1>8. CASE UNCHANGED vars
    BY <1>0, <1>8 DEF vars, indexes, Authenticated, PastCheck
  <1>9. QED
    BY <1>1, <1>2, <1>3, <1>4, <1>5, <1>6, <1>7, <1>8, Zenon DEF Next, HandlerStep, OnDisconnect

\* After RemoveFromRooms only the message that was already being handled can bring
\* the session into a room again.
LEMMA StaleStep ==
    ASSUME HandlerTypes, HandlerShape, StaleShape, [Next]_vars
    PROVE  StaleShape'
  <1> SUFFICES ASSUME NEW t \in Sessions, link'[t] \in {"forgotten", "gone"}
               PROVE  \/ RoomsOf(t)' = {}
                      \/ pc'[t] = "idle" /\ \E r \in Rooms : RoomsOf(t)' = {r}
    BY DEF StaleShape, RoomsOf
  <1> DEFINE Stale == \/ RoomsOf(t) = {}
                      \/ pc[t] = "idle" /\ \E r \in Rooms : RoomsOf(t) = {r}
  <1>1. ASSUME NEW s \in Sessions, RemoveFromRooms(s)
        PROVE  Stale'
    <2>1. CASE t = s
      BY <1>1, <2>1, RoomsAfter DEF RemoveFromRooms
    <2>2. CASE t # s
      <3>1. RoomsOf(t)' = RoomsOf(t)
        BY <1>1, <2>2, RoomsAfter DEF RemoveFromRooms
      <3>2. link[t] = link'[t] /\ pc'[t] = pc[t]
        BY <1>1, <2>2 DEF RemoveFromRooms, HandlerTypes
      <3>3. QED
        BY <3>1, <3>2 DEF StaleShape, RoomsOf
    <2>3. QED
      BY <2>1, <2>2
  <1>2. ASSUME link[t] \in {"forgotten", "gone"}, RoomsOf(t)' = RoomsOf(t),
               pc[t] = "idle" => pc'[t] = "idle"
        PROVE  Stale'
    BY <1>2 DEF StaleShape, RoomsOf
  <1>3. ASSUME NEW s \in Sessions, NEW m \in Requests, Receive(s, m)
        PROVE  Stale'
    BY <1>2, <1>3 DEF Receive, HandlerTypes, HandlerShape, RoomsOf, indexes
  <1>4. ASSUME NEW s \in Sessions,
               \/ HandleImmediate(s) \/ HandleAuthenticate(s) \/ CheckAuthenticated(s)
               \/ Authorize(s) \/ CheckSubscribed(s) \/ TakeSnapshot(s) \/ Published(s)
               \/ \E r \in Sessions : Forward(s, r)
               \/ Disconnect(s) \/ ErasePrincipal(s)
        PROVE  Stale'
    <2>1. link[t] \in {"forgotten", "gone"}
      BY <1>4, Zenon DEF HandleImmediate, HandleAuthenticate, CheckAuthenticated, Authorize,
                  CheckSubscribed, TakeSnapshot, Published, Forward, Disconnect,
                  ErasePrincipal, HandlerTypes
    <2>2. pc[t] = "idle" => pc'[t] = "idle"
      BY <1>4, Zenon DEF HandleImmediate, HandleAuthenticate, CheckAuthenticated, Authorize,
                  CheckSubscribed, TakeSnapshot, Published, Forward, Disconnect,
                  ErasePrincipal, Return, HandlerShape
    <2>3. RoomsOf(t)' = RoomsOf(t)
      BY <1>4, Zenon DEF HandleImmediate, HandleAuthenticate, CheckAuthenticated, Authorize,
                  CheckSubscribed, TakeSnapshot, Published, Forward, Disconnect,
                  ErasePrincipal, RoomsOf, indexes
    <2>4. QED
      BY <1>2, <2>1, <2>2, <2>3
  <1>5. ASSUME NEW s \in Sessions, HandleJoin(s)
        PROVE  Stale'
    <2>1. link[t] \in {"forgotten", "gone"} /\ request[s].room \in Rooms
      BY <1>5 DEF HandleJoin, HandlerShape, HandlerAt, RoomRequests
    <2>2. CASE t = s
      <3>1. RoomsOf(s) = {} /\ pc'[s] = "idle"
        BY <1>5, <2>1, <2>2 DEF HandleJoin, StaleShape, RoomsOf, Return, HandlerShape
      <3>2. RoomsOf(s)' = {request[s].room} \/ RoomsOf(s)' = {}
        BY <1>5, <2>1, <3>1, RoomsAfter DEF HandleJoin, indexes, RoomsOf
      <3>3. QED
        BY <2>1, <2>2, <3>1, <3>2
    <2>3. CASE t # s
      BY <1>2, <1>5, <2>1, <2>3, RoomsAfter, Zenon
      DEF HandleJoin, Return, HandlerShape, indexes, RoomsOf
    <2>4. QED
      BY <2>2, <2>3
  <1>6. ASSUME NEW s \in Sessions, HandleLeave(s)
        PROVE  Stale'
    <2>1. link[t] \in {"forgotten", "gone"} /\ request[s].room \in Rooms
      BY <1>6 DEF HandleLeave, HandlerShape, HandlerAt, RoomRequests
    <2>2. CASE t = s
      <3>1. RoomsOf(s) = {}
        BY <1>6, <2>1, <2>2 DEF HandleLeave, StaleShape, RoomsOf
      <3>2. RoomsOf(s)' = {}
        BY <1>6, <2>1, <3>1, RoomsAfter, Zenon DEF HandleLeave, indexes, RoomsOf
      <3>3. QED
        BY <2>2, <3>2
    <2>3. CASE t # s
      BY <1>2, <1>6, <2>1, <2>3, RoomsAfter, Zenon
      DEF HandleLeave, Return, HandlerShape, indexes, RoomsOf
    <2>4. QED
      BY <2>2, <2>3
  <1>7. CASE UNCHANGED vars
    BY <1>2, <1>7 DEF vars, indexes, RoomsOf
  <1>8. QED
    BY <1>1, <1>3, <1>4, <1>5, <1>6, <1>7, Zenon DEF Next, HandlerStep, OnDisconnect

-----------------------------------------------------------------------------
(* The order of a session's publishes.                                     *)

\* Nobody becomes a recipient of an older publish: where a session's new message
\* is still to go, its older ones have been.
LEMMA BehindStep ==
    ASSUME HandlerTypes, HandlerShape, RegistryTypeOK, [Next]_vars,
           NEW s \in Sessions, NEW r \in Sessions, Behind(s, r)', handled'[s] = handled[s]
    PROVE  Behind(s, r)
  <1>1. ASSUME NEW t \in Sessions, NEW m \in Requests, Receive(t, m)
        PROVE  Behind(s, r)
    BY <1>1, RouterAssumption DEF Receive, Behind, HandlerTypes, HandlerShape
  <1>2. ASSUME NEW t \in Sessions, HandlerStep(t)
        PROVE  Behind(s, r)
    BY <1>2, ZenonT(30) DEF HandlerStep, HandleImmediate, HandleAuthenticate, CheckAuthenticated,
                Authorize, HandleJoin, HandleLeave, CheckSubscribed, TakeSnapshot,
                Published, Forward, Return, Behind, HandlerTypes, HandlerShape
  <1>3. ASSUME NEW t \in Sessions, Disconnect(t) \/ OnDisconnect(t)
        PROVE  Behind(s, r)
    BY <1>3, Zenon DEF Disconnect, OnDisconnect, RemoveFromRooms, ErasePrincipal, Behind
  <1>4. CASE UNCHANGED vars
    BY <1>4 DEF vars, Behind
  <1>5. QED
    BY <1>1, <1>2, <1>3, <1>4 DEF Next

\* A session's number grows by its messages only.
LEMMA HandledStep ==
    ASSUME HandlerTypes, [Next]_vars, NEW s \in Sessions
    PROVE  handled'[s] = handled[s] \/ handled'[s] = handled[s] + 1
  <1>1. \/ UNCHANGED handled
        \/ \E t \in Sessions : handled' = [handled EXCEPT ![t] = @ + 1]
    BY ZenonT(30) DEF Next, HandlerStep, OnDisconnect, Receive, HandleImmediate, HandleAuthenticate,
           CheckAuthenticated, Authorize, HandleJoin, HandleLeave, CheckSubscribed,
           TakeSnapshot, Forward, Published, Disconnect, RemoveFromRooms, ErasePrincipal,
           vars
  <1>2. QED
    BY <1>1 DEF HandlerTypes

\* Only Forward adds to an inbox.
LEMMA InboxStep ==
    ASSUME [Next]_vars
    PROVE  \/ UNCHANGED inbox
           \/ \E s, r \in Sessions :
                 /\ Forward(s, r)
                 /\ inbox' = [inbox EXCEPT ![r] =
                                 Append(@, [from |-> s, number |-> handled[s]])]
  BY ZenonT(30) DEF Next, HandlerStep, OnDisconnect, Receive, HandleImmediate, HandleAuthenticate,
         CheckAuthenticated, Authorize, HandleJoin, HandleLeave, CheckSubscribed,
         TakeSnapshot, Forward, Published, Disconnect, RemoveFromRooms, ErasePrincipal, vars

\* What every recipient has from a session is older than what the session will
\* still send it, and in order.
LEMMA OrderStep ==
    ASSUME HandlerTypes, HandlerShape, RegistryTypeOK, Numbered, PublisherOrder,
           [Next]_vars
    PROVE  Numbered' /\ PublisherOrder'
  <1>0. /\ inbox \in [Sessions -> Seq(Entries)]
        /\ \A q \in Sessions : Len(inbox[q]) \in Nat /\ DOMAIN inbox[q] = 1 .. Len(inbox[q])
    BY DEF Numbered
  <1>1. ASSUME NEW r \in Sessions, NEW f \in Sessions, NEW p \in DOMAIN inbox[r],
               inbox[r][p].from = f
        PROVE  /\ inbox[r][p].number <= handled'[f]
               /\ Behind(f, r)' => inbox[r][p].number < handled'[f]
    <2>1. inbox[r][p].number \in Nat /\ handled[f] \in Nat
      <3>1. inbox[r][p] \in Entries
        BY <1>0
      <3>2. QED
        BY <3>1, RouterAssumption DEF HandlerTypes, Entries
    <2>2. /\ inbox[r][p].number <= handled[f]
          /\ Behind(f, r) => inbox[r][p].number < handled[f]
      BY <1>1 DEF Numbered
    <2>3. handled'[f] = handled[f] \/ handled'[f] = handled[f] + 1
      BY HandledStep
    <2>4. handled'[f] = handled[f] /\ Behind(f, r)' => Behind(f, r)
      BY BehindStep
    <2>5. QED
      BY <2>1, <2>2, <2>3, <2>4
  <1>2. CASE UNCHANGED inbox
    BY <1>1, <1>2, Zenon DEF Numbered, PublisherOrder
  <1>3. ASSUME NEW s \in Sessions, NEW r \in Sessions, Forward(s, r),
               inbox' = [inbox EXCEPT ![r] =
                            Append(@, [from |-> s, number |-> handled[s]])]
        PROVE  Numbered' /\ PublisherOrder'
    <2>0. PICK new \in Entries : new = [from |-> s, number |-> handled[s]]
      <3>1. handled[s] \in Nat
        BY RouterAssumption DEF HandlerTypes
      <3>2. [from |-> s, number |-> handled[s]] \in Entries
        BY <3>1 DEF Entries
      <3>3. QED
        BY <3>2, Zenon
    <2> DEFINE n == Len(inbox[r])
    <2>1. /\ inbox'[r] = Append(inbox[r], new)
          /\ \A q \in Sessions \ {r} : inbox'[q] = inbox[q]
          /\ inbox' \in [Sessions -> Seq(Entries)]
      BY <1>0, <1>3, <2>0
    <2>2. /\ DOMAIN inbox'[r] = 1 .. n + 1
          /\ inbox'[r][n + 1] = new
          /\ \A p \in DOMAIN inbox[r] : inbox'[r][p] = inbox[r][p]
      BY <1>0, <2>1
    <2>3. /\ handled'[s] = handled[s] /\ ~Behind(s, r)' /\ Behind(s, r)
          /\ handled[s] \in Nat
      BY <1>3, RouterAssumption DEF Forward, Behind, HandlerTypes, HandlerShape
    <2>4. \A p \in DOMAIN inbox[r] : inbox[r][p].from = s => inbox[r][p].number < handled[s]
      BY <2>3 DEF Numbered
    <2>5. new.from = s /\ new.number = handled[s]
      BY <2>0
    <2>6. Numbered'
      <3> SUFFICES ASSUME NEW q \in Sessions, NEW f \in Sessions,
                          NEW p \in DOMAIN inbox'[q], inbox'[q][p].from = f
                   PROVE  /\ inbox'[q][p].number <= handled'[f]
                          /\ Behind(f, q)' => inbox'[q][p].number < handled'[f]
        BY <2>1 DEF Numbered
      <3>1. CASE q = r /\ p = n + 1
        BY <2>2, <2>3, <2>5, <3>1
      <3>2. CASE ~(q = r /\ p = n + 1)
        <4>0. p \in DOMAIN inbox[q]
          BY <1>0, <2>1, <2>2, <3>2
        <4>1. inbox'[q][p] = inbox[q][p]
          BY <2>1, <2>2, <4>0, Zenon
        <4>2. QED
          BY <1>1, <4>0, <4>1
      <3>3. QED
        BY <3>1, <3>2
    <2>7. PublisherOrder'
      <3> SUFFICES ASSUME NEW q \in Sessions,
                          NEW i \in DOMAIN inbox'[q], NEW j \in DOMAIN inbox'[q],
                          i < j, inbox'[q][i].from = inbox'[q][j].from
                   PROVE  inbox'[q][i].number < inbox'[q][j].number
        BY DEF PublisherOrder
      <3>1. CASE q = r /\ j = n + 1
        <4>1. i \in DOMAIN inbox[r]
          BY <1>0, <2>2, <3>1
        <4>2. QED
          BY <2>2, <2>4, <2>5, <3>1, <4>1, Zenon
      <3>2. CASE ~(q = r /\ j = n + 1)
        <4>1. i \in DOMAIN inbox[q] /\ j \in DOMAIN inbox[q]
          BY <1>0, <2>1, <2>2, <3>2
        <4>2. inbox'[q][i] = inbox[q][i] /\ inbox'[q][j] = inbox[q][j]
          BY <2>1, <2>2, <4>1, Zenon
        <4>3. QED
          BY <4>1, <4>2 DEF PublisherOrder
      <3>3. QED
        BY <3>1, <3>2
    <2>8. QED
      BY <2>6, <2>7
  <1>4. QED
    BY <1>2, <1>3, InboxStep, Zenon

-----------------------------------------------------------------------------
(* The registry, and how the router uses it.                               *)

\* What a map answers after one of its entries changed.
LEMMA StoreLookup ==
    ASSUME NEW map, NEW key, NEW values, NEW k
    PROVE  Lookup(Store(map, key, values), k) =
               IF k = key THEN values ELSE Lookup(map, k)
  BY DEF Lookup, Store

\* A changed map has no empty entry if it had none.
LEMMA StoreNonEmpty ==
    ASSUME NEW map, NEW key, NEW values, \A k \in DOMAIN map : map[k] # {}
    PROVE  \A k \in DOMAIN Store(map, key, values) : Store(map, key, values)[k] # {}
  BY DEF Store

\* The loop of RemoveSession takes the session out of every room's answer.
LEMMA RemoveLookup ==
    ASSUME RegistryTypeOK, IndexesAgree, NEW s \in Sessions, RemoveSession(s), NEW r \in Rooms
    PROVE  Lookup(room_to_sessions, r)' = Lookup(room_to_sessions, r) \ {s}
  <1>1. CASE r \notin DOMAIN room_to_sessions
    BY <1>1 DEF RemoveSession, Lookup
  <1>2. CASE r \in DOMAIN room_to_sessions
    <2>1. RemainingIn(s, r) = room_to_sessions[r] \ {s}
      BY <1>2 DEF RemainingIn, Subscribed, IndexesAgree, Lookup
    <2>2. QED
      BY <1>2, <2>1 DEF RemoveSession, Lookup
  <1>3. QED
    BY <1>1, <1>2

\* Every operation keeps the types and leaves no empty entry behind.
LEMMA RegistryTypeStep ==
    ASSUME RegistryTypeOK, NoEmptyEntry, RegistryNext
    PROVE  RegistryTypeOK' /\ NoEmptyEntry'
  <1>1. /\ \A s \in Sessions : Lookup(session_to_rooms, s) \in SUBSET Rooms
        /\ \A r \in Rooms : Lookup(room_to_sessions, r) \in SUBSET Sessions
    BY DEF RegistryTypeOK, Lookup
  <1>2. ASSUME NEW s \in Sessions, NEW r \in Rooms, Join(s, r)
        PROVE  RegistryTypeOK' /\ NoEmptyEntry'
    <2>1. /\ Lookup(session_to_rooms, s) \cup {r} \in SUBSET Rooms
          /\ Lookup(room_to_sessions, r) \cup {s} \in SUBSET Sessions
      BY <1>1
    <2>2. /\ DOMAIN session_to_rooms' \subseteq Sessions
          /\ session_to_rooms' \in [DOMAIN session_to_rooms' -> SUBSET Rooms]
      BY <1>2, <2>1 DEF RegistryTypeOK, Join, Store
    <2>3. /\ DOMAIN room_to_sessions' \subseteq Rooms
          /\ room_to_sessions' \in [DOMAIN room_to_sessions' -> SUBSET Sessions]
      BY <1>2, <2>1 DEF RegistryTypeOK, Join, Store
    <2>4. RegistryTypeOK'
      BY <2>2, <2>3 DEF RegistryTypeOK
    <2>5. NoEmptyEntry'
      BY <1>2, StoreNonEmpty, Zenon DEF NoEmptyEntry, Join
    <2>6. QED
      BY <2>4, <2>5
  <1>3. ASSUME NEW s \in Sessions, NEW r \in Rooms, Leave(s, r)
        PROVE  RegistryTypeOK' /\ NoEmptyEntry'
    <2>1. /\ Lookup(session_to_rooms, s) \ {r} \in SUBSET Rooms
          /\ Lookup(room_to_sessions, r) \ {s} \in SUBSET Sessions
      BY <1>1
    <2>2. /\ DOMAIN session_to_rooms' \subseteq Sessions
          /\ session_to_rooms' \in [DOMAIN session_to_rooms' -> SUBSET Rooms]
      BY <1>3, <2>1 DEF RegistryTypeOK, Leave, Store
    <2>3. /\ DOMAIN room_to_sessions' \subseteq Rooms
          /\ room_to_sessions' \in [DOMAIN room_to_sessions' -> SUBSET Sessions]
      BY <1>3, <2>1 DEF RegistryTypeOK, Leave, Store
    <2>4. RegistryTypeOK'
      BY <2>2, <2>3 DEF RegistryTypeOK
    <2>5. NoEmptyEntry'
      BY <1>3, StoreNonEmpty, Zenon DEF NoEmptyEntry, Leave
    <2>6. QED
      BY <2>4, <2>5
  <1>4. ASSUME NEW s \in Sessions, RemoveSession(s)
        PROVE  RegistryTypeOK' /\ NoEmptyEntry'
    <2>1. \A r \in DOMAIN room_to_sessions : RemainingIn(s, r) \subseteq Sessions
      BY DEF RegistryTypeOK, RemainingIn
    <2>2. /\ DOMAIN session_to_rooms' \subseteq Sessions
          /\ session_to_rooms' \in [DOMAIN session_to_rooms' -> SUBSET Rooms]
      BY <1>4 DEF RegistryTypeOK, RemoveSession, Store
    <2>3. /\ DOMAIN room_to_sessions' \subseteq Rooms
          /\ room_to_sessions' \in [DOMAIN room_to_sessions' -> SUBSET Sessions]
          /\ \A r \in DOMAIN room_to_sessions' : room_to_sessions'[r] # {}
      BY <1>4, <2>1 DEF RegistryTypeOK, RemoveSession
    <2>4. \A k \in DOMAIN session_to_rooms' : session_to_rooms'[k] # {}
      BY <1>4, StoreNonEmpty DEF NoEmptyEntry, RemoveSession
    <2>5. QED
      BY <2>2, <2>3, <2>4 DEF RegistryTypeOK, NoEmptyEntry
  <1>5. QED
    BY <1>2, <1>3, <1>4 DEF RegistryNext

\* What each operation does to both answers, in one form: the pairs (t, q)
\* that hold afterwards.
LEMMA JoinEffect ==
    ASSUME NEW s \in Sessions, NEW r \in Rooms, Join(s, r),
           NEW t \in Sessions, NEW q \in Rooms
    PROVE  /\ q \in Lookup(session_to_rooms, t)' <=>
                  q \in Lookup(session_to_rooms, t) \/ (t = s /\ q = r)
           /\ t \in Lookup(room_to_sessions, q)' <=>
                  t \in Lookup(room_to_sessions, q) \/ (t = s /\ q = r)
  BY StoreLookup DEF Join

\* The same for Leave ...
LEMMA LeaveEffect ==
    ASSUME NEW s \in Sessions, NEW r \in Rooms, Leave(s, r),
           NEW t \in Sessions, NEW q \in Rooms
    PROVE  /\ q \in Lookup(session_to_rooms, t)' <=>
                  q \in Lookup(session_to_rooms, t) /\ ~(t = s /\ q = r)
           /\ t \in Lookup(room_to_sessions, q)' <=>
                  t \in Lookup(room_to_sessions, q) /\ ~(t = s /\ q = r)
  BY StoreLookup DEF Leave

\* ... and for RemoveSession, which relies on the indexes agreeing before it.
LEMMA RemoveEffect ==
    ASSUME RegistryTypeOK, IndexesAgree, NEW s \in Sessions, RemoveSession(s),
           NEW t \in Sessions, NEW q \in Rooms
    PROVE  /\ q \in Lookup(session_to_rooms, t)' <=>
                  q \in Lookup(session_to_rooms, t) /\ t # s
           /\ t \in Lookup(room_to_sessions, q)' <=>
                  t \in Lookup(room_to_sessions, q) /\ t # s
  <1>1. Lookup(session_to_rooms, t)' = IF t = s THEN {} ELSE Lookup(session_to_rooms, t)
    BY StoreLookup DEF RemoveSession
  <1>2. QED
    BY <1>1, RemoveLookup

\* Every operation changes both indexes alike.
LEMMA AgreeStep ==
    ASSUME RegistryTypeOK, IndexesAgree, RegistryNext
    PROVE  IndexesAgree'
  <1> SUFFICES ASSUME NEW t \in Sessions, NEW q \in Rooms
               PROVE  q \in Lookup(session_to_rooms, t)' <=>
                          t \in Lookup(room_to_sessions, q)'
    BY DEF IndexesAgree
  <1>0. q \in Lookup(session_to_rooms, t) <=> t \in Lookup(room_to_sessions, q)
    BY DEF IndexesAgree
  <1>1. QED
    BY <1>0, JoinEffect, LeaveEffect, RemoveEffect DEF RegistryNext

\* The registry's invariant is kept by its operations.
LEMMA RegistryInvStep ==
    ASSUME RegistryInv, [RegistryNext]_indexes
    PROVE  RegistryInv'
  <1>1. CASE RegistryNext
    BY <1>1, RegistryTypeStep, AgreeStep DEF RegistryInv
  <1>2. CASE UNCHANGED indexes
    BY <1>2 DEF indexes, RegistryInv, RegistryTypeOK, IndexesAgree, NoEmptyEntry, Lookup
  <1>3. QED
    BY <1>1, <1>2

\* It holds of the empty registry.
LEMMA RegistryInitInv ==
    ASSUME RegistryInit
    PROVE  RegistryInv
  BY DEF RegistryInit, RegistryInv, RegistryTypeOK, IndexesAgree, NoEmptyEntry, NoEntries,
         Lookup

\* The registry's indexes are well typed, agree and hold no empty entry in
\* every reachable state.
THEOREM RegistryCorrect == RegistrySpec => []RegistryInv
  BY RegistryInitInv, RegistryInvStep, PTL DEF RegistrySpec

\* Publishing and the check before it never disagree about a subscription.
THEOREM RegistryIndexesAgree == RegistrySpec => []IndexesAgree
  <1>1. RegistryInv => IndexesAgree
    BY DEF RegistryInv
  <1>2. QED
    BY <1>1, RegistryCorrect, PTL

\* The registry implements one set of subscriptions.
THEOREM RegistryIsMembership == RegistrySpec => RefinesMembership
  <1> DEFINE Pairs == {p \in Sessions \X Rooms : p[1] \in Lookup(room_to_sessions, p[2])}
  <1>1. RegistryInit => Subscriptions!Init
    BY DEF RegistryInit, NoEntries, Lookup, Subscriptions!Init
  <1>2. ASSUME RegistryInv, [RegistryNext]_indexes
        PROVE  Subscriptions!Next \/ UNCHANGED Pairs
    <2>1. ASSUME NEW s \in Sessions, NEW r \in Rooms, Join(s, r)
          PROVE  Subscriptions!Subscribe(s, r)
      <3>1. s \notin Lookup(room_to_sessions, r)
        BY <1>2, <2>1 DEF RegistryInv, IndexesAgree, Join, Subscribed
      <3>2. Pairs' = Pairs \cup {<<s, r>>}
        BY <2>1, JoinEffect
      <3>3. QED
        BY <3>1, <3>2 DEF Subscriptions!Subscribe
    <2>2. ASSUME NEW s \in Sessions, NEW r \in Rooms, Leave(s, r)
          PROVE  Subscriptions!Unsubscribe(s, r)
      <3>1. s \in Lookup(room_to_sessions, r)
        BY <1>2, <2>2 DEF RegistryInv, IndexesAgree, Leave, Subscribed
      <3>2. Pairs' = Pairs \ {<<s, r>>}
        BY <2>2, LeaveEffect
      <3>3. QED
        BY <3>1, <3>2 DEF Subscriptions!Unsubscribe
    <2>3. ASSUME NEW s \in Sessions, RemoveSession(s)
          PROVE  Subscriptions!Forget(s)
      BY <1>2, <2>3, RemoveEffect DEF Subscriptions!Forget, RegistryInv
    <2>4. CASE UNCHANGED indexes
      BY <2>4 DEF indexes, Lookup
    <2>5. QED
      BY <1>2, <2>1, <2>2, <2>3, <2>4 DEF RegistryNext, Subscriptions!Next
  <1>3. QED
    BY <1>1, <1>2, RegistryCorrect, PTL
    DEF RegistrySpec, RefinesMembership, Subscriptions!Spec

\* Every step of the router is one operation of the registry, for a session and a
\* room that exist, or leaves it alone.
LEMMA RegistryStep ==
    ASSUME HandlerShape, [Next]_vars
    PROVE  [RegistryNext]_indexes
  <1> SUFFICES ASSUME NEW s \in Sessions,
                      HandleJoin(s) \/ HandleLeave(s) \/ RemoveFromRooms(s)
               PROVE  [RegistryNext]_indexes
    BY ZenonT(30) DEF Next, vars, indexes, HandlerStep, Receive, HandleImmediate,
           HandleAuthenticate, CheckAuthenticated, Authorize, CheckSubscribed,
           TakeSnapshot, Forward, Published, Disconnect, OnDisconnect,
           ErasePrincipal
  <1>1. pc[s] \in {"locked", "leave"} => request[s].room \in Rooms
    BY DEF HandlerShape, HandlerAt, RoomRequests
  <1>2. QED
    BY <1>1 DEF HandleJoin, HandleLeave, RemoveFromRooms, RegistryNext

-----------------------------------------------------------------------------
(* The theorems.                                                           *)

\* The router's inductive invariant.
THEOREM RouterCorrect == Spec => []RouterInv
  <1>1. Init => RouterInv
    <2> SUFFICES ASSUME Init PROVE RouterInv
      OBVIOUS
    <2> USE DEF Init
    <2>1. RegistryInv
      BY RegistryInitInv
    <2>2. TypeOK
      BY <2>1, RouterAssumption DEF TypeOK, RegistryInv
    <2>3. HandlerShape /\ AnsweredOnce /\ Authenticated
      BY DEF HandlerShape, HandlerAt, Places, AnsweredOnce, Authenticated, PastCheck,
             RegistryInit, NoEntries
    <2>4. StaleShape
      BY DEF StaleShape
    <2>5. Numbered /\ PublisherOrder
      BY DEF Numbered, PublisherOrder
    <2>6. QED
      BY <2>1, <2>2, <2>3, <2>4, <2>5 DEF RouterInv
  <1>2. ASSUME RouterInv, [Next]_vars
        PROVE  RouterInv'
    <2>1. TypeOK <=> HandlerTypes /\ RegistryTypeOK
      BY DEF TypeOK, HandlerTypes
    <2>2. RegistryInv'
      BY <1>2, RegistryStep, RegistryInvStep DEF RouterInv
    <2>3. HandlerTypes' /\ HandlerShape' /\ AnsweredOnce'
      BY <1>2, <2>1, HandlerTypesStep DEF RouterInv
    <2>4. TypeOK'
      BY <2>2, <2>3 DEF TypeOK, HandlerTypes, RegistryInv
    <2>5. Authenticated' /\ StaleShape'
      BY <1>2, <2>1, AuthenticatedStep, StaleStep DEF RouterInv
    <2>6. Numbered' /\ PublisherOrder'
      BY <1>2, <2>1, OrderStep DEF RouterInv
    <2>7. QED
      BY <2>2, <2>3, <2>4, <2>5, <2>6 DEF RouterInv
  <1>3. QED
    BY <1>1, <1>2, PTL DEF Spec

\* The router's maps and counters keep their types: Handle neither counts more
\* messages as malformed nor sends more error responses than there were messages.
THEOREM RouterTypes == Spec => []TypeOK
  <1>1. RouterInv => TypeOK
    BY DEF RouterInv
  <1>2. QED
    BY <1>1, RouterCorrect, PTL

\* A session is in rooms only while the router has its principal: the checks of
\* Join, made before the registry is locked, still hold when it is.
THEOREM MembersHavePrincipals == Spec => []MembersAuthenticated
  <1>1. RouterInv => MembersAuthenticated
    BY DEF RouterInv, Authenticated, MembersAuthenticated
  <1>2. QED
    BY <1>1, RouterCorrect, PTL

\* A session that OnDisconnect has removed is in one room at most.
THEOREM OneStaleRoom == Spec => []AtMostOneStaleRoom
  <1>1. RouterInv => AtMostOneStaleRoom
    BY DEF RouterInv, StaleShape, AtMostOneStaleRoom
  <1>2. QED
    BY <1>1, RouterCorrect, PTL

\* Every recipient gets a session's publishes in the order they were made, none
\* twice.
THEOREM PublishesInOrder == Spec => []PublisherOrder
  <1>1. RouterInv => PublisherOrder
    BY DEF RouterInv
  <1>2. QED
    BY <1>1, RouterCorrect, PTL

\* Whatever handlers and OnDisconnect interleave, the registry inside the router
\* goes through its own operations only.
THEOREM RouterUsesRegistry == Spec => RegistrySpec
  <1>1. Init => RegistryInit
    BY DEF Init
  <1>2. RouterInv /\ [Next]_vars => [RegistryNext]_indexes
    BY RegistryStep DEF RouterInv
  <1>3. QED
    BY <1>1, <1>2, RouterCorrect, PTL DEF Spec, RegistrySpec
=============================================================================
