------------------------------- MODULE Codec -------------------------------
(***************************************************************************)
(* The pure functions of websocket_transport.cpp on bytes and numbers:     *)
(* IsValidUtf8, IsValidCloseCode, IsValidWebSocketKey, BuildFrameHeader    *)
(* and Base64Encode, each against a reference from the standards.          *)
(*                                                                         *)
(* An input is a sequence of bytes, grown one byte at a time, a number, or *)
(* a key: a sequence of Base64 values, Pad for '=' and Other for the rest. *)
(***************************************************************************)
EXTENDS Integers, Sequences, SequencesExt

CONSTANTS
    Alphabet,           \* the bytes a sequence is made of
    MaxLength,          \* bound on its length
    Numbers,            \* the close codes and payload sizes
    Keys                \* the keys

VARIABLES kind, input

vars == <<kind, input>>

Pad == 64
Other == -1

Init ==
    \/ kind = "bytes" /\ input = <<>>
    \/ kind = "number" /\ input \in Numbers
    \/ kind = "key" /\ input \in Keys

Next ==
    /\ kind = "bytes" /\ Len(input) < MaxLength
    /\ \E b \in Alphabet : input' = Append(input, b)
    /\ UNCHANGED kind

Spec == Init /\ [][Next]_vars

Bits(value, low, count) == (value \div 2 ^ low) % 2 ^ count

-----------------------------------------------------------------------------
\* How many bytes follow a first byte; -1 if it cannot be one.
Trailing(first) ==
    CASE first <= 127          -> 0
      [] Bits(first, 5, 3) = 6 -> 1
      [] Bits(first, 4, 4) = 14 -> 2
      [] Bits(first, 3, 5) = 30 -> 3
      [] OTHER                 -> -1

\* Mutant: surrogates are code points like any others.
MutantSurrogates(trailing, codepoint) ==
    ~ \/ trailing = 1 /\ codepoint < 128
      \/ trailing = 2 /\ codepoint < 2048
      \/ trailing = 3 /\ codepoint < 65536
      \/ codepoint > 1114111

\* A code point that takes this many bytes and may be encoded.
CodepointOK(trailing, codepoint) ==
    ~ \/ trailing = 1 /\ codepoint < 128
      \/ trailing = 2 /\ codepoint < 2048
      \/ trailing = 3 /\ codepoint < 65536
      \/ codepoint > 1114111
      \/ codepoint >= 55296 /\ codepoint <= 57343

\* The loop, one turn per code point, from the back.
IsValidUtf8(bytes) ==
    LET valid[i \in 1 .. Len(bytes) + 1] ==
            LET n == Trailing(bytes[i])
                codepoint[k \in 0 .. n] ==
                    IF k = 0 THEN Bits(bytes[i], 0, IF n = 0 THEN 7 ELSE 6 - n)
                    ELSE codepoint[k - 1] * 64 + Bits(bytes[i + k], 0, 6)
            IN  \/ i = Len(bytes) + 1
                \/ /\ n >= 0 /\ i + n <= Len(bytes)
                   /\ \A k \in 1 .. n : Bits(bytes[i + k], 6, 2) = 2
                   /\ CodepointOK(n, codepoint[n])
                   /\ valid[i + n + 1]
    IN  valid[1]

IsValidCloseCode(code) ==
    /\ ~(code < 1000 \/ code >= 5000)
    /\ code \notin {1004, 1005, 1006, 1015}
    /\ ~(code >= 1016 /\ code <= 2999)

\* The digits before the first '=', of six bits each, make sixteen bytes.
IsValidWebSocketKey(key) ==
    LET digits == SelectInSeq(key, LAMBDA c : c = Pad) - 1
    IN  /\ Len(key) = 24 /\ key[23] = Pad /\ key[24] = Pad
        /\ \A i \in 1 .. digits : key[i] # Other
        /\ (6 * digits) \div 8 = 16

Byte(size, index) == IF index < 4 THEN Bits(size, 8 * index, 8) ELSE 0

\* The first header_size bytes of the header; a size here is below 2^31.
BuildFrameHeader(opcode, size) ==
    IF size <= 125 THEN <<128 + opcode, size>>
    ELSE IF size <= 65535 THEN <<128 + opcode, 126, Byte(size, 1), Byte(size, 0)>>
    ELSE <<128 + opcode, 127>> \o [i \in 1 .. 8 |-> Byte(size, 8 - i)]

\* The four characters for the three bytes from index, as Base64 values.
Group(data, index) ==
    LET At(i) == IF i <= Len(data) THEN data[i] ELSE 0
        value == At(index) * 65536 + At(index + 1) * 256 + At(index + 2)
    IN  <<Bits(value, 18, 6), Bits(value, 12, 6),
          IF index + 1 <= Len(data) THEN Bits(value, 6, 6) ELSE Pad,
          IF index + 2 <= Len(data) THEN Bits(value, 0, 6) ELSE Pad>>

Base64Encode(data) ==
    FlattenSeq([g \in 1 .. (Len(data) + 2) \div 3 |-> Group(data, 3 * g - 2)])

-----------------------------------------------------------------------------
\* The byte sequences of one code point, as the Unicode standard tabulates them.
WellFormed ==
    LET Tail1 == 128 .. 191
    IN  {<<0 .. 127>>, <<194 .. 223, Tail1>>,
         <<{224}, 160 .. 191, Tail1>>, <<225 .. 236, Tail1, Tail1>>,
         <<{237}, 128 .. 159, Tail1>>, <<238 .. 239, Tail1, Tail1>>,
         <<{240}, 144 .. 191, Tail1, Tail1>>, <<241 .. 243, Tail1, Tail1, Tail1>>,
         <<{244}, 128 .. 143, Tail1, Tail1>>}

\* IsValidUtf8 accepts exactly the concatenations of those sequences: no overlong
\* form, surrogate or code point beyond the last, and nothing cut short.
Utf8Exact ==
    kind = "bytes" =>
        LET ends[n \in 0 .. Len(input)] ==
                n = 0 \/ \E row \in WellFormed :
                    /\ Len(row) <= n /\ ends[n - Len(row)]
                    /\ \A k \in 1 .. Len(row) : input[n - Len(row) + k] \in row[k]
        IN  IsValidUtf8(input) <=> ends[Len(input)]

\* IsValidCloseCode accepts exactly the codes an endpoint may send.
CloseCodeExact ==
    kind = "number" =>
        (IsValidCloseCode(input)
             <=> input \in (1000 .. 1003) \cup (1007 .. 1014) \cup (3000 .. 4999))

\* IsValidWebSocketKey accepts exactly what encodes sixteen bytes: twenty-two
\* Base64 digits and two '='.  A '=' among the digits ends its loop early and is
\* caught only by the count.
KeyExact ==
    kind = "key" =>
        (IsValidWebSocketKey(input)
             <=> /\ Len(input) = 24
                 /\ \A i \in 1 .. 24 : IF i <= 22 THEN input[i] \in 0 .. 63
                                                  ELSE input[i] = Pad)

\* A peer that reads the header back finds the opcode, the size and no longer form
\* than it needs, which is what WebSocketDecoder insists on.
HeaderReadsBack ==
    kind = "number" =>
        LET h == BuildFrameHeader(2, input)
            big == FoldLeft(LAMBDA sum, b : sum * 256 + b, 0, SubSeq(h, 3, Len(h)))
        IN  /\ h[1] = 130
            /\ \/ h[2] < 126 /\ Len(h) = 2 /\ h[2] = input
               \/ h[2] = 126 /\ Len(h) = 4 /\ big = input /\ input > 125
               \/ h[2] = 127 /\ Len(h) = 10 /\ big = input /\ input > 65535

\* The text of Base64Encode holds the bits of the data in order, six to a
\* character, zeros after the last, and is padded to a multiple of four.
Base64Exact ==
    kind = "bytes" =>
        LET text == Base64Encode(input)
            Bit(i) == IF i < 8 * Len(input)
                      THEN Bits(input[i \div 8 + 1], 7 - (i % 8), 1) ELSE 0
            used == (8 * Len(input) + 5) \div 6
        IN  /\ Len(text) = 4 * ((Len(input) + 2) \div 3)
            /\ \A c \in 1 .. Len(text) :
                   IF c > used THEN text[c] = Pad
                   ELSE \A b \in 0 .. 5 : Bits(text[c], 5 - b, 1) = Bit(6 * (c - 1) + b)
=============================================================================
