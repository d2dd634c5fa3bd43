------------------------------- MODULE Router -------------------------------
(***************************************************************************)
(* ProtocolRouter (src/application/protocol_router.cpp) over the room      *)
(* registry: Handle, run by the worker that holds a session's read, and    *)
(* OnDisconnect, run by whichever thread disconnects it.                   *)
(*                                                                         *)
(* A session's messages are handled one after the other (it has one read   *)
(* operation); handlers of different sessions, and a handler and the       *)
(* OnDisconnect of the same session, interleave.  Each section of          *)
(* principals_mutex_, of the registry's mutex_ and each Send is a step.    *)
(***************************************************************************)
EXTENDS RoomRegistry, Naturals, Sequences

CONSTANTS
    ValidRooms,         \* the rooms IsValidRoom accepts
    Principals,         \* what the authenticator may return
    Allowed,            \* what AuthorizeRoom grants: <<principal, room, publishing>>
    Offered(_),         \* the requests clients make, of those Handle tells apart
    MaxMessages,        \* bound on the messages of a session
    NoPrincipal, NoRequest

ASSUME RouterAssumption ==
    /\ ValidRooms \subseteq Rooms
    /\ Allowed \subseteq Principals \X Rooms \X BOOLEAN
    /\ MaxMessages \in Nat
    /\ NoPrincipal \notin Principals

VARIABLES
    link,           \* up, closing (Disconnect began), forgotten, gone
    principals,     \* principals_, NoPrincipal for a session it does not have
    request,        \* the message each session's handler is working on
    pc,             \* where that handler is
    recipients,     \* what is left of a publish's snapshot
    handled,        \* messages handled so far, per session
    malformed,      \* dispositions Malformed returned, per session
    errors,         \* calls of send_error, per session
    inbox           \* publishes sent to each session: [from, number]

resultVars == <<malformed, errors>>
vars == <<link, principals, indexes, request, pc, recipients, handled,
          resultVars, inbox>>

\* The messages a client may send, as Handle tells them apart.
Requests ==
    [kind : {"unverifiable", "version", "empty", "server only", "ping", "pong",
             "bad token"}]
    \cup [kind : {"authenticate"}, principal : Principals \cup {NoPrincipal}]
    \cup [kind : {"join", "leave", "publish"}, room : Rooms, valid : BOOLEAN]

Init ==
    /\ link = [s \in Sessions |-> "up"]
    /\ principals = [s \in Sessions |-> NoPrincipal]
    /\ RegistryInit
    /\ request = [s \in Sessions |-> NoRequest]
    /\ pc = [s \in Sessions |-> "idle"]
    /\ recipients = [s \in Sessions |-> {}]
    /\ handled = [s \in Sessions |-> 0]
    /\ malformed = [s \in Sessions |-> 0]
    /\ errors = [s \in Sessions |-> 0]
    /\ inbox = [s \in Sessions |-> <<>>]

-----------------------------------------------------------------------------
\* IocpServer::Send reaches a session that Disconnect has not taken out of the
\* registry.
SendsTo(s) == link[s] = "up"

\* Mutant: the error is sent twice.
MutantErrorTwice(s) == errors' = [errors EXCEPT ![s] = @ + 2]

SendError(s) == errors' = [errors EXCEPT ![s] = @ + 1]

\* Handle returns with a disposition.
Return(s, disposition) ==
    /\ pc' = [pc EXCEPT ![s] = "idle"]
    /\ request' = [request EXCEPT ![s] = NoRequest]
    /\ malformed' = [malformed EXCEPT ![s] =
                        IF disposition = "Malformed" THEN @ + 1 ELSE @]

\* What a message that ends Handle at once amounts to: an error response, and
\* the disposition.
Immediate(kind) ==
    CASE kind = "unverifiable" -> [error |-> FALSE, disposition |-> "Malformed"]
      [] kind = "version"      -> [error |-> TRUE,  disposition |-> "Accepted"]
      [] kind = "empty"        -> [error |-> TRUE,  disposition |-> "Malformed"]
      [] kind = "server only"  -> [error |-> TRUE,  disposition |-> "Accepted"]
      [] kind = "bad token"    -> [error |-> TRUE,  disposition |-> "Malformed"]
      [] kind \in {"ping", "pong"} ->
                                  [error |-> FALSE, disposition |-> "Accepted"]

\* DeliverMessage calls Handle for the next message, unless Disconnect began.
Receive(s, m) ==
    /\ pc[s] = "idle"
    /\ link[s] = "up"
    /\ handled[s] < MaxMessages
    /\ handled' = [handled EXCEPT ![s] = @ + 1]
    /\ request' = [request EXCEPT ![s] = m]
    /\ pc' = [pc EXCEPT ![s] = m.kind]
    /\ UNCHANGED <<link, principals, indexes, recipients, resultVars, inbox>>

HandleImmediate(s) ==
    /\ pc[s] \in {"unverifiable", "version", "empty", "server only", "ping",
                  "pong", "bad token"}
    /\ LET result == Immediate(pc[s])
       IN  /\ Return(s, result.disposition)
           /\ IF result.error THEN SendError(s) ELSE UNCHANGED errors
    /\ UNCHANGED <<link, principals, indexes, recipients, handled, inbox>>

\* Mutant: a rejected token erases the principal.
MutantRejectionForgets(s) ==
    /\ pc[s] = "authenticate"
    /\ principals' = [principals EXCEPT ![s] = request[s].principal]
    /\ Return(s, "Accepted")
    /\ UNCHANGED <<link, indexes, recipients, handled, errors, inbox>>

\* A principal is remembered under principals_mutex_; the result is sent.
HandleAuthenticate(s) ==
    /\ pc[s] = "authenticate"
    /\ principals' = [principals EXCEPT ![s] =
                         IF request[s].principal = NoPrincipal THEN @
                         ELSE request[s].principal]
    /\ Return(s, "Accepted")
    /\ UNCHANGED <<link, indexes, recipients, handled, errors, inbox>>

\* IsAuthenticated, the first thing a join or a publish looks at.
CheckAuthenticated(s) ==
    /\ pc[s] \in {"join", "publish"}
    /\ IF principals[s] = NoPrincipal
       THEN SendError(s) /\ Return(s, "Accepted")
       ELSE /\ pc' = [pc EXCEPT ![s] = "authorize"]
            /\ UNCHANGED <<request, malformed, errors>>
    /\ UNCHANGED <<link, principals, indexes, recipients, handled, inbox>>

\* ValidString of a room name, ValidateDomain of a publish.
ValidateDomain(m) == m.valid

IsValidRoom(room) == room \in ValidRooms

\* AuthorizeRoom reads the principal again.
AuthorizeRoom(s) ==
    <<principals[s], request[s].room, request[s].kind = "publish">> \in Allowed

\* Join and AuthorizePublish look at the room and the authorizer before they
\* lock; a failed join is answered by its acknowledgement.
Authorize(s) ==
    /\ pc[s] = "authorize"
    /\ IF ~ValidateDomain(request[s])
       THEN SendError(s) /\ Return(s, "Malformed")
       ELSE IF IsValidRoom(request[s].room) /\ AuthorizeRoom(s)
       THEN /\ pc' = [pc EXCEPT ![s] = "locked"]
            /\ UNCHANGED <<request, malformed, errors>>
       ELSE /\ Return(s, "Accepted")
            /\ IF request[s].kind = "publish" THEN SendError(s)
               ELSE UNCHANGED errors
    /\ UNCHANGED <<link, principals, indexes, recipients, handled, inbox>>

\* The locked part of Join, with the acknowledgement.
HandleJoin(s) ==
    /\ pc[s] = "locked" /\ request[s].kind = "join"
    /\ \/ Join(s, request[s].room)
       \/ Subscribed(s, request[s].room) /\ UNCHANGED indexes
    /\ Return(s, "Accepted")
    /\ UNCHANGED <<link, principals, recipients, handled, errors, inbox>>

\* Leave asks for no authentication.
HandleLeave(s) ==
    /\ pc[s] = "leave"
    /\ IF ~ValidateDomain(request[s])
       THEN SendError(s) /\ Return(s, "Malformed") /\ UNCHANGED indexes
       ELSE /\ \/ Leave(s, request[s].room)
               \/ /\ ~Subscribed(s, request[s].room)
                  /\ UNCHANGED indexes
            /\ Return(s, "Accepted")
            /\ UNCHANGED errors
    /\ UNCHANGED <<link, principals, recipients, handled, inbox>>

\* The locked part of AuthorizePublish.
CheckSubscribed(s) ==
    /\ pc[s] = "locked" /\ request[s].kind = "publish"
    /\ IF Subscribed(s, request[s].room)
       THEN /\ pc' = [pc EXCEPT ![s] = "snapshot"]
            /\ UNCHANGED <<request, malformed, errors>>
       ELSE SendError(s) /\ Return(s, "Accepted")
    /\ UNCHANGED <<link, principals, indexes, recipients, handled, inbox>>

TakeSnapshot(s) ==
    /\ pc[s] = "snapshot"
    /\ recipients' = [recipients EXCEPT ![s] = Snapshot(request[s].room)]
    /\ pc' = [pc EXCEPT ![s] = "forward"]
    /\ UNCHANGED <<link, principals, indexes, request, handled, resultVars,
                   inbox>>

\* Mutant: the loop does not move on after a Send.
MutantForwardAgain(s, r) ==
    /\ pc[s] = "forward" /\ r \in recipients[s]
    /\ SendsTo(r)
    /\ inbox' = [inbox EXCEPT ![r] =
                    Append(@, [from |-> s, number |-> handled[s]])]
    /\ UNCHANGED <<link, principals, indexes, recipients, request, pc,
                   handled, resultVars>>

\* One Send of the loop; a recipient that is gone, or whose queue is full, is
\* passed over.
Forward(s, r) ==
    /\ pc[s] = "forward" /\ r \in recipients[s]
    /\ recipients' = [recipients EXCEPT ![s] = @ \ {r}]
    /\ \/ /\ SendsTo(r)
          /\ inbox' = [inbox EXCEPT ![r] =
                          Append(@, [from |-> s, number |-> handled[s]])]
       \/ UNCHANGED inbox
    /\ UNCHANGED <<link, principals, indexes, request, pc, handled, resultVars>>

Published(s) ==
    /\ pc[s] = "forward" /\ recipients[s] = {}
    /\ Return(s, "Accepted")
    /\ UNCHANGED <<link, principals, indexes, recipients, handled, errors,
                   inbox>>

HandlerStep(s) ==
    \/ HandleImmediate(s) \/ HandleAuthenticate(s) \/ CheckAuthenticated(s)
    \/ Authorize(s) \/ HandleJoin(s) \/ HandleLeave(s) \/ CheckSubscribed(s)
    \/ TakeSnapshot(s) \/ Published(s)
    \/ \E r \in Sessions : Forward(s, r)

-----------------------------------------------------------------------------
(* OnDisconnect, at the end of the server's Disconnect.                    *)

Disconnect(s) ==
    /\ link[s] = "up"
    /\ link' = [link EXCEPT ![s] = "closing"]
    /\ UNCHANGED <<principals, indexes, request, pc, recipients, handled,
                   resultVars, inbox>>

\* Mutant: OnDisconnect erases the principal only.
MutantRoomsRemain(s) ==
    /\ link[s] = "closing"
    /\ link' = [link EXCEPT ![s] = "forgotten"]
    /\ UNCHANGED <<principals, indexes, request, pc, recipients, handled,
                   resultVars, inbox>>

RemoveFromRooms(s) ==
    /\ link[s] = "closing"
    /\ link' = [link EXCEPT ![s] = "forgotten"]
    /\ RemoveSession(s)
    /\ UNCHANGED <<principals, request, pc, recipients, handled, resultVars, inbox>>

ErasePrincipal(s) ==
    /\ link[s] = "forgotten"
    /\ link' = [link EXCEPT ![s] = "gone"]
    /\ principals' = [principals EXCEPT ![s] = NoPrincipal]
    /\ UNCHANGED <<indexes, request, pc, recipients, handled, resultVars, inbox>>

OnDisconnect(s) == RemoveFromRooms(s) \/ ErasePrincipal(s)

-----------------------------------------------------------------------------
Next ==
    \E s \in Sessions :
        \/ \E m \in Requests : Offered(m) /\ Receive(s, m)
        \/ HandlerStep(s)
        \/ Disconnect(s)
        \/ OnDisconnect(s)

Spec == Init /\ [][Next]_vars

-----------------------------------------------------------------------------
(* Properties                                                              *)

\* The types of the router's maps and of the handlers; a session's error responses
\* and malformed messages are no more than the messages Handle was given, of which
\* there are at most MaxMessages.
TypeOK ==
    /\ link \in [Sessions -> {"up", "closing", "forgotten", "gone"}]
    /\ principals \in [Sessions -> Principals \cup {NoPrincipal}]
    /\ RegistryTypeOK
    /\ request \in [Sessions -> Requests \cup {NoRequest}]
    /\ recipients \in [Sessions -> SUBSET Sessions]
    /\ handled \in [Sessions -> 0 .. MaxMessages]
    /\ malformed \in [Sessions -> 0 .. MaxMessages]
    /\ errors \in [Sessions -> 0 .. MaxMessages]

\* A session is in rooms only while it has a principal: Join's two looks at
\* principals_ are not undone by its own OnDisconnect before the rooms are.
MembersAuthenticated ==
    \A s \in Sessions :
        link[s] # "gone" /\ s \in DOMAIN session_to_rooms =>
            principals[s] # NoPrincipal

\* Each recipient gets the publishes of one session in the order that session
\* made them, and none twice, although every publish forwards to its own
\* snapshot.
PublisherOrder ==
    \A r \in Sessions : \A p, q \in DOMAIN inbox[r] :
        p < q /\ inbox[r][p].from = inbox[r][q].from =>
            inbox[r][p].number < inbox[r][q].number

\* After OnDisconnect the session is in at most one room: only the join that
\* was already being handled can come after it.
AtMostOneStaleRoom ==
    \A s \in Sessions :
        link[s] = "gone" =>
            \A q, r \in Lookup(session_to_rooms, s) : q = r

\* On disconnect, all room memberships for the session are removed.
MembershipsRemoved ==
    \A s \in Sessions :
        link[s] = "gone" /\ pc[s] = "idle" => s \notin DOMAIN session_to_rooms

\* A malformed message is answered with an ErrorResponse while the connection
\* is usable.
MalformedAnswered ==
    \A s \in Sessions :
        link[s] = "up" /\ pc[s] = "idle" => malformed[s] <= errors[s]
=============================================================================
