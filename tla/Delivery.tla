------------------------------ MODULE Delivery ------------------------------
(***************************************************************************)
(* DeliverMessage of iocp_server.cpp, called by the reader for every       *)
(* message: the limit on a session's messages per second, counted in fixed *)
(* windows, and the limit on malformed ones.                               *)
(*                                                                         *)
(* Time is kept as the age of the window, which stops growing at Second.   *)
(***************************************************************************)
EXTENDS Integers, Sums

CONSTANTS
    Second,             \* the ticks of 1000 ms
    MaxMessages,        \* max_messages_per_second
    MalformedLimit      \* malformed_message_limit

ASSUME DeliveryAssumption ==
    Second \in Nat \ {0} /\ MaxMessages \in Nat /\ MalformedLimit \in Nat \ {0}

VARIABLES
    handler,            \* a message handler is registered
    window_age,         \* now - rate_window_ms
    rate_window_messages,
    malformed_messages,
    ended,              \* Close or Disconnect began: the reader's loop stops
    recent,             \* history: messages taken 0, 1, ... ticks ago
    limited             \* history: the rate limit has ended the session

deliveryVars == <<handler, window_age, rate_window_messages, malformed_messages, ended,
                  recent, limited>>

Ages == 0 .. Second - 1

DeliveryInit ==
    /\ handler \in BOOLEAN
    /\ window_age = 0 /\ rate_window_messages = 0
    /\ malformed_messages = 0 /\ ended = FALSE
    /\ recent = [a \in Ages |-> 0] /\ limited = FALSE

Tick ==
    /\ ~ended
    /\ window_age' = IF window_age < Second THEN window_age + 1 ELSE Second
    /\ recent' = [a \in Ages |-> IF a = 0 THEN 0 ELSE recent[a - 1]]
    /\ UNCHANGED <<handler, rate_window_messages, malformed_messages, ended, limited>>

\* Mutant: the window is never renewed.
MutantOneWindow == FALSE

\* The window is over and a new one starts with this message.
WindowOver == window_age >= Second

\* This message, the count-th of its window, is one too many.
OverRate(count) == count > MaxMessages

\* The session has sent all the malformed messages it may.
TooManyMalformed(n) == n >= MalformedLimit

\* The number of this message in its window.
Number == (IF WindowOver THEN 0 ELSE rate_window_messages) + 1

CountMessage ==
    /\ window_age' = IF WindowOver THEN 0 ELSE window_age
    /\ rate_window_messages' = Number

\* A message over the rate: Close 1008, and the reader's loop ends.
RefuseMessage ==
    /\ ~ended
    /\ CountMessage /\ OverRate(Number)
    /\ ended' = TRUE /\ limited' = TRUE
    /\ UNCHANGED <<handler, malformed_messages, recent>>

\* A message within it is given to the handler, if there is one, whose answer
\* is disposition; the reader's loop ends if that or the limit says so.
TakeMessage(disposition) ==
    /\ ~ended
    /\ handler \/ disposition = "Accepted"
    /\ CountMessage /\ ~OverRate(Number)
    /\ recent' = [recent EXCEPT ![0] = @ + 1]
    /\ malformed_messages' =
           IF disposition = "Accepted" THEN malformed_messages ELSE malformed_messages + 1
    /\ ended' = \/ disposition = "Close"
                \/ disposition = "Malformed" /\ TooManyMalformed(malformed_messages')
    /\ UNCHANGED <<handler, limited>>

\* A frame the decoder rejects is recorded, and ends the session.
BadFrame ==
    /\ ~ended
    /\ malformed_messages' = malformed_messages + 1
    /\ ended' = TRUE
    /\ UNCHANGED <<handler, window_age, rate_window_messages, recent, limited>>

DeliveryNext ==
    \/ Tick
    \/ \E disposition \in {"Accepted", "Malformed", "Close"} : TakeMessage(disposition)
    \/ RefuseMessage
    \/ BadFrame

DeliverySpec == DeliveryInit /\ [][DeliveryNext]_deliveryVars

-----------------------------------------------------------------------------
\* The messages taken in the second that ends now.  A tick counts as one message
\* above twice the rate at most, which is enough to tell.
LastSecond == SumOf(recent, Ages, 2 * MaxMessages + 1)

\* What the fixed windows do guarantee: a second, wherever it begins, overlaps two
\* windows at most, so it sees at most twice max_messages_per_second messages.
TwiceTheRate == LastSecond <= 2 * MaxMessages

\* The rate limit ends only a session that has really sent its share: when a
\* message is refused, max_messages_per_second others came within a second of it.
LimitIsDeserved == limited => LastSecond >= MaxMessages

\* A session is ended by the malformed message that reaches the limit: no reader,
\* however its messages come, lets one more through.
MalformedBound == malformed_messages <= MalformedLimit

\* The fixed windows of DeliverMessage let at most twice max_messages_per_second
\* messages through in any second, and end only a session that sent that many
\* others within one; the malformed message that reaches its limit ends the session.
LimitsExact == TwiceTheRate /\ LimitIsDeserved /\ MalformedBound
=============================================================================
