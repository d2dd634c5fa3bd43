----------------------------- MODULE Detection -----------------------------
(***************************************************************************)
(* Transport detection and the WebSocket handshake: ProcessDetection in    *)
(* iocp_server.cpp and WebSocketTransport::ParseHandshake, run again on    *)
(* the whole detection buffer by every read until a transport is chosen.   *)
(*                                                                         *)
(* A stream is how many of its first bytes agree with "GET ", the request  *)
(* if it is one, and its sizes; a header line is its name, in lower case,  *)
(* and whether its value is the one required.                              *)
(***************************************************************************)
EXTENDS Integers, Sequences, FiniteSets, Functions

CONSTANTS
    Streams,            \* what a peer may send
    ReadSizes,          \* the sizes a read may have
    MaxHandshake,       \* max_handshake_bytes
    MaxSession,         \* max_session_inbound_bytes
    CheckOrigin,        \* an origin_validator is set
    EmptyOriginValid    \* and it accepts the empty string, which main.cpp's does not

PrefixSize == 4

\* A stream that is no request differs from "GET " in its first four bytes.
ASSUME DetectionAssumption ==
    /\ ReadSizes \subseteq Nat /\ MaxHandshake \in Nat /\ MaxSession \in Nat
    /\ CheckOrigin \in BOOLEAN /\ EmptyOriginValid \in BOOLEAN
    /\ \A st \in Streams :
           /\ st.matched \in 0 .. PrefixSize /\ st.size \in Nat /\ st.headers \in Nat
           /\ st.request.get \in BOOLEAN
           /\ st.request.lines \in Seq([name : STRING, good : BOOLEAN])

VARIABLES
    stream,
    arrived,            \* the bytes in detection_buffer, or that were
    chosen,             \* session->transport
    handed,             \* how many of them the decoder was given
    answers,            \* the responses given to Enqueue
    disconnected

detectionVars == <<stream, arrived, chosen, handed, answers, disconnected>>

DetectionInit ==
    /\ stream \in Streams
    /\ arrived = 0 /\ chosen = "Detecting" /\ handed = 0
    /\ answers = <<>> /\ disconnected = FALSE

Smaller(a, b) == IF a < b THEN a ELSE b

\* possible_http, once n bytes are buffered.
PossibleHttp(n) == stream.matched >= Smaller(n, PrefixSize)

\* The header lines are well formed and name nothing twice.
WellFormed(lines) ==
    \A i \in DOMAIN lines :
        /\ lines[i].name # "no colon"
        /\ \A j \in 1 .. i - 1 : lines[j].name # lines[i].name

Has(lines, name) == \E i \in DOMAIN lines : lines[i].name = name /\ lines[i].good

\* The validator is asked about the value of Origin, or the empty string.
OriginValid(lines) ==
    \/ Has(lines, "origin")
    \/ EmptyOriginValid /\ \A i \in DOMAIN lines : lines[i].name # "origin"

Required == {"upgrade", "connection", "sec-websocket-key", "sec-websocket-version"}

\* What a complete request is answered.
Answer(request) ==
    IF ~request.get \/ ~WellFormed(request.lines) THEN "400"
    ELSE IF \E name \in Required : ~Has(request.lines, name) THEN "400"
    ELSE IF CheckOrigin /\ ~OriginValid(request.lines) THEN "403"
    ELSE "101"

\* ParseHandshake of the first n bytes.
ParseHandshake(n) ==
    IF n > MaxHandshake THEN "431"
    ELSE IF n < stream.headers THEN "NeedMoreData"
    ELSE Answer(stream.request)

\* A transport is chosen and given what is left of the buffer.
Choose(kind, rest) == chosen' = kind /\ handed' = rest /\ UNCHANGED disconnected

\* Mutant: the bytes after an accepted request are dropped.
MutantDropsRest(n) ==
    /\ answers' = Append(answers, "101")
    /\ Choose("WebSocket", 0)

\* An accepted handshake: the response, the transport, the bytes after it.
Upgrade(n) ==
    /\ answers' = Append(answers, "101")
    /\ Choose("WebSocket", n - stream.headers)

\* A rejected one: the response; the session waits for it to be written, or is
\* disconnected if it cannot be.  Later reads come here again.
Reject(n) ==
    /\ answers' = Append(answers, ParseHandshake(n))
    /\ disconnected' \in BOOLEAN
    /\ UNCHANGED <<chosen, handed>>

\* ProcessDetection, the buffer being n bytes long with the new ones.  That counting
\* them may pass the global limit and disconnect the session, while detection goes
\* on, is in Inbound.
ProcessDetection(n) ==
    \/ n > MaxSession /\ disconnected' = TRUE /\ UNCHANGED <<chosen, handed, answers>>
    \/ n <= MaxSession /\ ~PossibleHttp(n) /\ Choose("RawTcp", n) /\ UNCHANGED answers
    \/ /\ n <= MaxSession /\ PossibleHttp(n)
       /\ \/ /\ n < PrefixSize \/ ParseHandshake(n) = "NeedMoreData"
             /\ UNCHANGED <<chosen, handed, answers, disconnected>>
          \/ n >= PrefixSize /\ ParseHandshake(n) = "101" /\ Upgrade(n)
          \/ n >= PrefixSize /\ ParseHandshake(n) \in {"400", "403", "431"} /\ Reject(n)

Read(n) ==
    /\ chosen = "Detecting" /\ ~disconnected
    /\ arrived + n <= stream.size
    /\ arrived' = arrived + n
    /\ ProcessDetection(arrived + n)
    /\ UNCHANGED stream

DetectionNext == \E n \in ReadSizes : Read(n)

DetectionSpec == DetectionInit /\ [][DetectionNext]_detectionVars

-----------------------------------------------------------------------------
\* The values every variable may have.
DetectionTypeOK ==
    /\ arrived \in 0 .. stream.size /\ handed \in 0 .. arrived
    /\ chosen \in {"Detecting", "RawTcp", "WebSocket"}
    /\ disconnected \in BOOLEAN

Http == stream.matched = PrefixSize

\* What a request must be to be accepted: nothing twice, all that is required.
Deserves(request) ==
    LET names == {line.name : line \in Range(request.lines)}
        good == {line.name : line \in {l \in Range(request.lines) : l.good}}
    IN  /\ request.get
        /\ Cardinality(names) = Len(request.lines) /\ "no colon" \notin names
        /\ {"upgrade", "connection", "sec-websocket-key", "sec-websocket-version"}
               \subseteq good
        /\ CheckOrigin => "origin" \in good \/ (EmptyOriginValid /\ "origin" \notin names)

\* Whatever the reads, detection settles a stream one way: raw TCP if its first
\* bytes differ from "GET ", as soon as one that differs is there, and otherwise
\* WebSocket, if the request deserves it, never raw TCP.
SettledOneWay ==
    /\ chosen = "RawTcp" => ~Http
    /\ chosen = "WebSocket" => Http /\ Deserves(stream.request)
    /\ chosen = "Detecting" /\ ~disconnected => Http \/ arrived <= stream.matched

\* No byte is lost or seen twice between detection and the decoder: it starts on
\* the first byte of the stream, or on the first after the request.
NoByteLost ==
    CASE chosen = "RawTcp" -> handed = arrived
      [] chosen = "WebSocket" -> stream.headers + handed = arrived
      [] chosen = "Detecting" -> handed = 0

\* An answer is the one the request deserves, or 431 for a buffer over the limit,
\* for every way the request may be cut into reads; and once a request is
\* rejected, however often more bytes arrive before that is written, it is never
\* accepted.
AnswerStands ==
    \A i \in DOMAIN answers :
        /\ answers[i] = "101" => Deserves(stream.request) /\ Len(answers) = 1
        /\ answers[i] \in {"400", "403"} => ~Deserves(stream.request)
        /\ answers[i] = "431" => arrived > MaxHandshake

\* ProcessDetection settles a stream one way, whatever the reads: it answers what
\* the request deserves, or 431 for a buffer over the limit, never accepts what it
\* rejected, and gives the decoder every byte that follows, once.
DetectionExact == DetectionTypeOK /\ SettledOneWay /\ AnswerStands /\ NoByteLost
=============================================================================
