-------------------------- MODULE WebSocketDecoder --------------------------
(***************************************************************************)
(* WebSocketDecoder (src/transport/websocket_transport.cpp) as             *)
(* ProcessWebSocket uses it: Append what a read brought, then Next until   *)
(* it asks for more, fails, or returns a Close.                            *)
(*                                                                         *)
(* The client sends a sequence of frames.  A frame is the fields of its    *)
(* header, and whether the payload of a close frame is valid; payloads are *)
(* known by the frames they come from, and counted in bytes.               *)
(***************************************************************************)
EXTENDS Integers, Sequences

CONSTANTS
    Clients,            \* what a client may send
    MessageLimit,       \* max_message_bytes_
    BufferLimit,        \* max_buffered_bytes_
    RequireMasking

\* header_size before the mask, and total_size.
LengthEnd(f) == CASE f.form = 7 -> 2 [] f.form = 16 -> 4 [] f.form = 64 -> 10
Size(f) == LengthEnd(f) + (IF f.masked THEN 4 ELSE 0) + f.length

IsControlOpcode(f) == f.opcode \in {"Close", "Ping", "Pong"}
IsKnownOpcode(f) == IsControlOpcode(f) \/ f.opcode \in {"Continuation", "Text", "Binary"}

\* The headers two, four and ten bytes can hold; nothing is wrong with an empty
\* close payload.
Headers ==
    {f \in [opcode : STRING, fin : BOOLEAN, rsv : BOOLEAN, masked : BOOLEAN,
            form : {7, 16, 64}, length : Nat, high : BOOLEAN, valid : BOOLEAN] :
        /\ f.form = 7 => f.length <= 125
        /\ f.form = 16 => f.length <= 65535
        /\ f.high => f.form = 64
        /\ f.length = 0 => f.valid}

\* A client's frames follow one another: frame i ends at byte ends[i], and data[i]
\* is the bytes of payload the data frames up to it have.  A read may end at the
\* offsets cuts.
ASSUME DecoderAssumption ==
    /\ MessageLimit \in Nat /\ BufferLimit \in Nat /\ RequireMasking \in BOOLEAN
    /\ \A c \in Clients :
           /\ c.frames \in Seq(Headers)
           /\ c.ends \in [0 .. Len(c.frames) -> Nat] /\ c.ends[0] = 0
           /\ c.data \in [0 .. Len(c.frames) -> Nat]
           /\ \A i \in 1 .. Len(c.frames) :
                  LET f == c.frames[i]
                  IN  /\ c.ends[i] = c.ends[i - 1] + Size(f)
                      /\ c.data[i] = c.data[i - 1] + (IF IsControlOpcode(f) THEN 0 ELSE f.length)
           /\ c.cuts \subseteq 1 .. c.ends[Len(c.frames)]

VARIABLES
    client,             \* what the client sends
    got,                \* how many of its bytes were read
    consumed,           \* how many of those Next has consumed
    taken,              \* how many frames that is, but for one found bad
    fragments,          \* the frames of fragmented_payload_, <<>> if not fragmented_
    held,               \* fragmented_payload_.size()
    verdict,            \* what Next last returned, EventReady after an Append
    events              \* the events Next returned: their type and frames

decoderVars == <<client, got, consumed, taken, fragments, held, verdict, events>>

\* A new decoder.
DecoderEmpty ==
    /\ got = 0 /\ consumed = 0 /\ taken = 0
    /\ fragments = <<>> /\ held = 0 /\ verdict = "NeedMoreData" /\ events = <<>>

DecoderInit == client \in Clients /\ DecoderEmpty

\* BufferedBytes.
Available == got - consumed

\* Append: a read up to an offset.
AppendRead(offset) ==
    /\ verdict = "NeedMoreData"
    /\ offset > got
    /\ IF Available + (offset - got) > BufferLimit
       THEN verdict' = "BufferLimitExceeded" /\ UNCHANGED got
       ELSE verdict' = "EventReady" /\ got' = offset
    /\ UNCHANGED <<client, consumed, taken, fragments, held, events>>

-----------------------------------------------------------------------------
Frame == client.frames[taken + 1]

\* The errors Next finds in the part of a frame's header that is there.
BadHeader(f) ==
    \/ f.rsv \/ ~IsKnownOpcode(f)
    \/ f.masked # RequireMasking
    \/ /\ Available >= LengthEnd(f)
       /\ \/ f.form = 16 /\ f.length < 126
          \/ f.form = 64 /\ (f.high \/ f.length < 65536)
          \/ IsControlOpcode(f) /\ (~f.fin \/ f.length > 125)

\* What Next makes of the frame at the cursor, before it takes it.
Parse(f) ==
    IF Available < 2 THEN "NeedMoreData"
    ELSE IF BadHeader(f) THEN "ProtocolError"
    ELSE IF Available < LengthEnd(f) THEN "NeedMoreData"
    ELSE IF f.length > MessageLimit THEN "MessageTooLarge"
    ELSE IF Available < Size(f) THEN "NeedMoreData"
    ELSE "EventReady"

\* Next returns without a frame.
NextStops ==
    /\ verdict = "EventReady"
    /\ verdict' = IF taken = Len(client.frames) THEN "NeedMoreData" ELSE Parse(Frame)
    /\ verdict' # "EventReady"
    /\ UNCHANGED <<client, got, consumed, taken, fragments, held, events>>

\* Next consumes a whole frame with one of these opcodes.
Take(opcodes) ==
    /\ verdict = "EventReady" /\ taken < Len(client.frames)
    /\ Frame.opcode \in opcodes
    /\ Parse(Frame) = "EventReady"
    /\ consumed' = consumed + Size(Frame)
    /\ UNCHANGED <<client, got>>

\* It is refused, or taken.
Fail(error) == verdict' = error /\ UNCHANGED <<taken, fragments, held, events>>
Accept == taken' = taken + 1 /\ UNCHANGED verdict

Emit(type, of) == events' = Append(events, [type |-> type, frames |-> of])

TakeText == Take({"Text"}) /\ Fail("ProtocolError")

\* A continuation is refused outside a fragmented message or when the message
\* grows too large; the last one makes the message an event, after any other
\* Next goes on with the next frame.
TakeContinuation ==
    /\ Take({"Continuation"})
    /\ LET whole == Append(fragments, taken + 1)
       IN  \/ fragments = <<>> /\ Fail("ProtocolError")
           \/ /\ fragments # <<>> /\ Frame.length > MessageLimit - held
              /\ Fail("MessageTooLarge")
           \/ /\ fragments # <<>> /\ Frame.length <= MessageLimit - held
              /\ Accept
              /\ \/ Frame.fin /\ Emit("Binary", whole) /\ fragments' = <<>> /\ held' = 0
                 \/ /\ ~Frame.fin /\ fragments' = whole /\ held' = held + Frame.length
                    /\ UNCHANGED events

\* A binary frame is refused inside a fragmented message, and starts one unless
\* it is final.
TakeBinary ==
    /\ Take({"Binary"})
    /\ \/ fragments # <<>> /\ Fail("ProtocolError")
       \/ /\ fragments = <<>> /\ Frame.fin
          /\ Accept /\ Emit("Binary", <<taken + 1>>) /\ UNCHANGED <<fragments, held>>
       \/ /\ fragments = <<>> /\ ~Frame.fin
          /\ Accept /\ fragments' = <<taken + 1>> /\ held' = Frame.length
          /\ UNCHANGED events

\* Mutant: a control frame ends the message it interrupts.
MutantPingInterrupts ==
    /\ Take({"Ping", "Pong"})
    /\ Accept /\ Emit(Frame.opcode, <<taken + 1>>)
    /\ fragments' = <<>> /\ held' = 0

TakePingPong ==
    /\ Take({"Ping", "Pong"})
    /\ Accept /\ Emit(Frame.opcode, <<taken + 1>>)
    /\ UNCHANGED <<fragments, held>>

\* A close frame with half a code, or an invalid one, is refused; after a good
\* one ProcessWebSocket returns.
TakeClose ==
    /\ Take({"Close"})
    /\ \/ (Frame.length = 1 \/ ~Frame.valid) /\ Fail("ProtocolError")
       \/ /\ Frame.length # 1 /\ Frame.valid
          /\ taken' = taken + 1 /\ verdict' = "Closing"
          /\ Emit("Close", <<taken + 1>>)
          /\ UNCHANGED <<fragments, held>>

DecoderNext ==
    \/ \E offset \in client.cuts : AppendRead(offset)
    \/ NextStops \/ TakeText \/ TakeContinuation \/ TakeBinary \/ TakePingPong \/ TakeClose

DecoderSpec == DecoderInit /\ [][DecoderNext]_decoderVars

-----------------------------------------------------------------------------
\* The values every variable may have.
DecoderTypeOK ==
    /\ taken \in 0 .. Len(client.frames) /\ consumed \in 0 .. got
    /\ verdict \in {"NeedMoreData", "EventReady", "ProtocolError", "MessageTooLarge",
                    "BufferLimitExceeded", "Closing"}

\* The data frames a client sends, and those of the message that is being sent when
\* frame i is: from the last binary frame on.
Data(c) == {j \in DOMAIN c.frames : ~IsControlOpcode(c.frames[j])}
Message(c, i) == {j \in Data(c) : j <= i /\ \A k \in j + 1 .. i : c.frames[k].opcode # "Binary"}

\* The last data frame before frame i was not final.
Open(c, i) ==
    \E j \in Data(c) :
        j < i /\ ~c.frames[j].fin /\ \A k \in j + 1 .. i - 1 : k \notin Data(c)

\* RFC 6455 and the limits, for frame i after good ones: a continuation, and
\* nothing else, follows a data frame that is not final.
Good(c, i) ==
    LET f == c.frames[i]
    IN  /\ ~f.rsv /\ f.masked = RequireMasking /\ ~f.high
        /\ f.form = (IF f.length <= 125 THEN 7 ELSE IF f.length <= 65535 THEN 16 ELSE 64)
        /\ f.opcode \in {"Continuation", "Binary", "Close", "Ping", "Pong"}
        /\ f.length <= MessageLimit
        /\ IsControlOpcode(f) => f.fin /\ f.length <= 125
        /\ f.opcode = "Close" => f.valid /\ f.length # 1
        /\ i \in Data(c) =>
               /\ Open(c, i) <=> f.opcode = "Continuation"
               /\ \A j \in Message(c, i) :
                      c.frames[j].opcode = "Binary" => c.data[i] - c.data[j - 1] <= MessageLimit

Increasing(s) == \A m, n \in DOMAIN s : m < n => s[m] < s[n]

Final(e) == e.frames[Len(e.frames)]

\* An event is a control frame, or the frames of a message in the order sent.
Faithful(c, e) ==
    /\ e.frames # <<>> /\ Increasing(e.frames)
    /\ {e.frames[n] : n \in DOMAIN e.frames} =
           IF Final(e) \in Data(c) THEN Message(c, Final(e)) ELSE {Final(e)}
    /\ e.type = IF Final(e) \in Data(c) THEN "Binary" ELSE c.frames[Final(e)].opcode

\* There is an event for every final frame of the first k, in order, and no other.
AllReported(c, k, es) ==
    /\ Increasing([n \in DOMAIN es |-> Final(es[n])])
    /\ {Final(es[n]) : n \in DOMAIN es} = {i \in 1 .. k : c.frames[i].fin}

\* However the stream is cut into reads and control frames fall between the
\* fragments of a message, the events are those of the good frames before the
\* first bad one: a message is made of exactly its fragments, in order, a bad
\* frame is never passed over, and Next asks for more only if a frame is missing.
FramesDecoded ==
    /\ \A i \in 1 .. taken : Good(client, i)
    /\ \A n \in DOMAIN events : Faithful(client, events[n])
    /\ AllReported(client, taken, events)
    /\ verdict \in {"ProtocolError", "MessageTooLarge"} =>
           taken < Len(client.frames) /\ ~Good(client, taken + 1)
    /\ verdict = "NeedMoreData" /\ taken < Len(client.frames) => got < client.ends[taken + 1]

\* A session holds at most max_session_inbound_bytes that Next has not consumed, and
\* besides them, which the limit does not count, the fragments of one message, never
\* larger than a message may be, whatever control frames come between them.
HeldBytesBounded == Available <= BufferLimit /\ held <= MessageLimit

\* However the stream is cut, the events of WebSocketDecoder are those of the good
\* frames before the first bad one, each message made of exactly its fragments; and
\* what it holds, a message being assembled on top of its buffer, is bounded.
EventsExact == DecoderTypeOK /\ FramesDecoded /\ HeldBytesBounded
=============================================================================
