---------------------------- MODULE MCSequential ----------------------------
(***************************************************************************)
(* The components that one thread at a time runs: the registry, under its  *)
(* mutex, and what the reader and the writer of a session call.  They do   *)
(* not interact, so a behaviour is one of one component, the part that     *)
(* moves, and the others stay where they start; their states add up and do *)
(* not multiply.  A parked peer sends nothing.                             *)
(***************************************************************************)
EXTENDS SequencesExt, RoomRegistry, Framing, WebSocketDecoder, Detection, SendCursor,
        Delivery

VARIABLE part

Parts == {"registry", "framing", "decoder", "detection", "cursor", "bytes",
          "numbers", "delivery"}

If(p, these, parked) == IF part = p THEN these ELSE parked

-----------------------------------------------------------------------------
\* Framing: up to three frames, legal ones of one and two bytes, one of length 0,
\* one a byte too long, and one whose length needs the third header byte.  The
\* bytes of a payload tell its frame; a frame far too long is cut off by the peer.
Lengths == {0, 1, 2, 3, 256}

Payload(i, n) == [j \in 1 .. (IF n > 3 THEN 0 ELSE n) |-> 10 * i + j]

\* What a peer that sends frames of these lengths puts on the wire.
Sent(ns) ==
    LET fs == [i \in DOMAIN ns |-> [length |-> ns[i], payload |-> Payload(i, ns[i])]]
        encoded == [i \in DOMAIN ns |-> EncodeLength(ns[i]) \o fs[i].payload]
    IN  [frames |-> fs, bytes |-> FlattenSeq(encoded),
         ends |-> [i \in 0 .. Len(ns) |-> Len(FlattenSeq(SubSeq(encoded, 1, i)))]]

FrameInputs == {Sent(ns) : ns \in UNION {[1 .. k -> Lengths] : k \in 0 .. 3}}

-----------------------------------------------------------------------------
\* WebSocketDecoder: up to three frames, of each kind the decoder tells apart.
Plain == [opcode |-> "Binary", fin |-> TRUE, rsv |-> FALSE, masked |-> TRUE,
          form |-> 7, length |-> 2, high |-> FALSE, valid |-> TRUE]

\* Sound data and control frames.
Sound ==
    {[Plain EXCEPT !.opcode = op, !.fin = fin] :
        op \in {"Binary", "Continuation"}, fin \in BOOLEAN}
    \cup {[Plain EXCEPT !.opcode = op] : op \in {"Ping", "Pong", "Close"}}
    \cup {[Plain EXCEPT !.opcode = "Continuation", !.form = 16, !.length = 126,
                        !.fin = fin] : fin \in BOOLEAN}
    \cup {[Plain EXCEPT !.form = 16, !.length = 126, !.fin = FALSE]}

\* Frames with one thing wrong.
Unsound ==
    {[Plain EXCEPT !.opcode = "Unknown"], [Plain EXCEPT !.opcode = "Text"],
     [Plain EXCEPT !.rsv = TRUE], [Plain EXCEPT !.masked = FALSE],
     [Plain EXCEPT !.form = 16, !.length = 125],
     [Plain EXCEPT !.form = 16, !.length = 130],
     [Plain EXCEPT !.form = 64], [Plain EXCEPT !.form = 64, !.length = 65536],
     [Plain EXCEPT !.form = 64, !.length = 65536, !.high = TRUE],
     [Plain EXCEPT !.opcode = "Ping", !.fin = FALSE],
     [Plain EXCEPT !.opcode = "Pong", !.form = 16, !.length = 126],
     [Plain EXCEPT !.opcode = "Close", !.length = 1],
     [Plain EXCEPT !.opcode = "Close", !.valid = FALSE]}

\* A read may end at any offset where Next could notice.
Offsets(f) == {1, 2, LengthEnd(f) - 1, LengthEnd(f), Size(f) - 1, Size(f)}

\* The sum over the first i frames.
UpTo(fs, i, Bytes(_)) == FoldLeft(LAMBDA n, f : n + Bytes(f), 0, SubSeq(fs, 1, i))

Sends(fs) ==
    LET ends == [i \in 0 .. Len(fs) |-> UpTo(fs, i, Size)]
        Payloads(f) == IF IsControlOpcode(f) THEN 0 ELSE f.length
    IN  [frames |-> fs, ends |-> ends,
         data |-> [i \in 0 .. Len(fs) |-> UpTo(fs, i, Payloads)],
         cuts |-> UNION {{ends[i - 1] + n : n \in Offsets(fs[i])} : i \in DOMAIN fs}]

FrameStreams ==
    {Sends(fs) : fs \in UNION {[1 .. k -> Sound \cup Unsound] : k \in 0 .. 2}
                           \cup [1 .. 3 -> Sound]}

-----------------------------------------------------------------------------
\* Detection: raw streams that agree with "GET " on 0 to 3 bytes, and requests with
\* every way to go wrong, followed by 0 to 3 bytes of frames.
Line(name) == [name |-> name, good |-> TRUE]
BadLine(name) == [name |-> name, good |-> FALSE]

FourLines == <<Line("upgrade"), Line("connection"), Line("sec-websocket-key"),
           Line("sec-websocket-version")>>

Allowed == Append(FourLines, Line("origin"))

Lines ==
    {FourLines, SubSeq(FourLines, 1, 3), Allowed, Append(FourLines, BadLine("origin")),
     Append(Allowed, Line("upgrade")), Append(Allowed, Line("no colon"))}
    \cup {[Allowed EXCEPT ![i] = BadLine(@.name)] : i \in 1 .. 4}

Raw(matched, size) ==
    [matched |-> matched, size |-> size, headers |-> 0,
     request |-> [get |-> FALSE, lines |-> <<>>]]

Request(get, lines, headers, rest) ==
    [matched |-> 4, size |-> headers + rest, headers |-> headers,
     request |-> [get |-> get, lines |-> lines]]

Peers ==
    {Raw(m, n) : m \in 0 .. 3, n \in {0, 4, 5, 9}}
    \cup {Request(get, lines, h, r) :
            get \in BOOLEAN, lines \in Lines, h \in {6, 8, 9}, r \in 0 .. 3}

-----------------------------------------------------------------------------
\* Codec: sequences of up to four of the bytes that are first or last in a range
\* IsValidUtf8 tells apart, numbers around every boundary, and a good key with up
\* to two of its characters replaced, or cut or lengthened.
VARIABLES kind, input

k_vars == <<kind, input>>

Alphabet ==
    {0, 127, 128, 143, 144, 159, 160, 191, 193, 194, 223, 224, 225, 236, 237,
     238, 239, 240, 241, 243, 244, 245, 248, 255}

Numbers ==
    (0 .. 300) \cup (990 .. 1030) \cup (2990 .. 3010) \cup (4990 .. 5010)
        \cup (65500 .. 65600) \cup {8388608, 2147483647}

Pad == 64
NoDigit == 0 - 1

Keys ==
    LET good == [i \in 1 .. 24 |-> IF i <= 22 THEN i ELSE Pad]
    IN  {[good EXCEPT ![i] = a, ![j] = b] :
             i \in 1 .. 24, j \in 1 .. 24, a \in {0, 63, Pad, NoDigit}, b \in {Pad, NoDigit}}
        \cup {good, SubSeq(good, 1, 23), Append(good, Pad), <<>>}

K == INSTANCE Codec WITH MaxLength <- 4

-----------------------------------------------------------------------------
MCInit ==
    /\ part \in Parts
    /\ RegistryInit
    /\ peer \in If("framing", FrameInputs, {Sent(<<>>)}) /\ FramingInit
    /\ (part # "framing" => max_buffered = CHOOSE n \in Limits : TRUE)
    /\ client \in If("decoder", FrameStreams, {Sends(<<>>)}) /\ DecoderEmpty
    /\ stream \in If("detection", Peers, {Raw(0, 0)}) /\ DetectionInit
    /\ CursorInit /\ (part # "cursor" => header = <<1>> /\ payload = <<>>)
    /\ kind \in If("numbers", {"number", "key"}, {"bytes"}) /\ K!Init
    /\ handler \in If("delivery", BOOLEAN, {TRUE}) /\ DeliveryInit

MCNext ==
    /\ UNCHANGED part
    /\ \/ /\ part = "registry" /\ RegistryNext
          /\ UNCHANGED <<framingVars, decoderVars, detectionVars, cursorVars, k_vars,
                         deliveryVars>>
       \/ /\ part = "framing" /\ FramingNext
          /\ UNCHANGED <<indexes, decoderVars, detectionVars, cursorVars, k_vars,
                         deliveryVars>>
       \/ /\ part = "decoder" /\ DecoderNext
          /\ UNCHANGED <<indexes, framingVars, detectionVars, cursorVars, k_vars,
                         deliveryVars>>
       \/ /\ part = "detection" /\ DetectionNext
          /\ UNCHANGED <<indexes, framingVars, decoderVars, cursorVars, k_vars,
                         deliveryVars>>
       \/ /\ part = "cursor" /\ CursorNext
          /\ UNCHANGED <<indexes, framingVars, decoderVars, detectionVars, k_vars,
                         deliveryVars>>
       \/ /\ part = "bytes" /\ K!Next
          /\ UNCHANGED <<indexes, framingVars, decoderVars, detectionVars, cursorVars,
                         deliveryVars>>
       \/ /\ part = "delivery" /\ DeliveryNext
          /\ UNCHANGED <<indexes, framingVars, decoderVars, detectionVars, cursorVars,
                         k_vars>>

MCSpec ==
    MCInit /\ [][MCNext]_<<part, indexes, framingVars, decoderVars, detectionVars, cursorVars,
                           k_vars, deliveryVars>>

-----------------------------------------------------------------------------
\* The byte functions compute what the standards define: IsValidUtf8 the table of
\* Unicode, Base64Encode the bits in order, IsValidCloseCode the codes an endpoint
\* may send, IsValidWebSocketKey what encodes sixteen bytes, and BuildFrameHeader a
\* header a peer reads back, in the shortest form.
CodecExact ==
    /\ part = "bytes" => K!Utf8Exact /\ K!Base64Exact
    /\ part = "numbers" => K!CloseCodeExact /\ K!KeyExact /\ K!HeaderReadsBack
=============================================================================
