------------------------------ MODULE Framing ------------------------------
(***************************************************************************)
(* LengthPrefixedAccumulator (src/protocol/framing.hpp), byte by byte, as  *)
(* ProcessRaw uses it: Append what a read brought, then Next until it asks *)
(* for more or fails.  The peer sends frames; a frame is the length its    *)
(* header claims and its payload.                                          *)
(***************************************************************************)
EXTENDS Integers, Sequences

CONSTANTS
    Inputs,         \* what a peer may send
    Chunks,         \* the sizes a read may have
    MaxMessage,     \* max_message_bytes_
    Limits,         \* the values of max_buffered_bytes_
    CompactAt       \* the cursor from which compacting pays (4096)

HeaderSize == 4

Byte == 0 .. 255

\* The length as a header, and back: four bytes, the highest first.
EncodeLength(n) ==
    <<(n \div 16777216) % 256, (n \div 65536) % 256, (n \div 256) % 256, n % 256>>

DecodeLength(h) == h[1] * 16777216 + h[2] * 65536 + h[3] * 256 + h[4]

\* EncodeLength throws for any other length.
FourBytes(n) == n \div 16777216 < 256

Legal(f) == f.length \in 1 .. MaxMessage

\* The bytes from ends[i - 1] to ends[i] are frame i: its header, then its payload,
\* of the length the header claims if that is a legal one.
Carries(in, i) ==
    LET f == in.frames[i]
        start == in.ends[i - 1]
    IN  /\ in.ends[i] = start + HeaderSize + Len(f.payload)
        /\ \A j \in 1 .. HeaderSize : in.bytes[start + j] = EncodeLength(f.length)[j]
        /\ \A j \in 1 .. Len(f.payload) : in.bytes[start + HeaderSize + j] = f.payload[j]
        /\ Legal(f) => Len(f.payload) = f.length

\* A peer's bytes are those of its frames, one after the other.
ASSUME FramingAssumption ==
    /\ Chunks \subseteq Nat /\ MaxMessage \in Nat /\ Limits \subseteq Nat
    /\ CompactAt \in Nat \ {0}
    /\ \A in \in Inputs :
           /\ in.frames \in Seq([length : Nat, payload : Seq(Byte)])
           /\ \A i \in 1 .. Len(in.frames) : FourBytes(in.frames[i].length)
           /\ in.bytes \in Seq(Byte)
           /\ in.ends \in [0 .. Len(in.frames) -> Nat]
           /\ in.ends[0] = 0 /\ in.ends[Len(in.frames)] = Len(in.bytes)
           /\ \A i \in 1 .. Len(in.frames) : Carries(in, i)

VARIABLES
    peer,               \* what the peer sends
    received,           \* how many of its bytes were read
    max_buffered, buffer, cursor, limit_exceeded,
    status,             \* what Next last returned, MessageReady after an Append
    delivered           \* the payloads Next returned

framingVars ==
    <<peer, received, max_buffered, buffer, cursor, limit_exceeded, status, delivered>>

FramingInit ==
    /\ peer \in Inputs /\ max_buffered \in Limits
    /\ received = 0 /\ buffer = <<>> /\ cursor = 0 /\ limit_exceeded = FALSE
    /\ status = "NeedMoreData" /\ delivered = <<>>

BufferedBytes == Len(buffer) - cursor

\* Mutant: compacting keeps the last byte that was consumed.
MutantCompactShort ==
    IF cursor >= CompactAt /\ cursor * 2 >= Len(buffer)
    THEN [buffer |-> SubSeq(buffer, cursor, Len(buffer)), cursor |-> 0]
    ELSE [buffer |-> buffer, cursor |-> cursor]

CompactIfUseful ==
    IF cursor = Len(buffer) \/ (cursor >= CompactAt /\ cursor * 2 >= Len(buffer))
    THEN [buffer |-> SubSeq(buffer, cursor + 1, Len(buffer)), cursor |-> 0]
    ELSE [buffer |-> buffer, cursor |-> cursor]

\* Mutant: what was consumed and not yet compacted away counts as buffered.
MutantCountsConsumed(n) == Len(buffer) + n <= max_buffered

Fits(n) == BufferedBytes + n <= max_buffered

\* Append: a read of n bytes.  One that does not fit is refused for good.
AppendBytes(n) ==
    /\ status = "NeedMoreData"
    /\ received + n <= Len(peer.bytes)
    /\ cursor' = CompactIfUseful.cursor
    /\ \/ /\ ~Fits(n)
          /\ limit_exceeded' = TRUE /\ status' = "BufferLimitExceeded"
          /\ buffer' = CompactIfUseful.buffer /\ UNCHANGED received
       \/ /\ Fits(n)
          /\ buffer' = CompactIfUseful.buffer
                           \o SubSeq(peer.bytes, received + 1, received + n)
          /\ received' = received + n
          /\ status' = "MessageReady" /\ UNCHANGED limit_exceeded
    /\ UNCHANGED <<peer, max_buffered, delivered>>

\* The length the header at the cursor claims.
Length == DecodeLength(SubSeq(buffer, cursor + 1, cursor + HeaderSize))

\* What Next finds at the cursor.
NextStatus ==
    IF BufferedBytes < HeaderSize THEN "NeedMoreData"
    ELSE IF Length = 0 \/ Length > MaxMessage THEN "InvalidLength"
    ELSE IF BufferedBytes - HeaderSize < Length THEN "NeedMoreData"
    ELSE "MessageReady"

\* Next, again and again until it returns no message.
NextFrame ==
    /\ status = "MessageReady"
    /\ status' = NextStatus
    /\ IF NextStatus = "MessageReady"
       THEN LET start == cursor + HeaderSize
            IN  /\ delivered' = Append(delivered, SubSeq(buffer, start + 1, start + Length))
                /\ cursor' = start + Length
       ELSE UNCHANGED <<delivered, cursor>>
    /\ UNCHANGED <<peer, received, max_buffered, buffer, limit_exceeded>>

FramingNext == NextFrame \/ \E n \in Chunks : AppendBytes(n)

FramingSpec == FramingInit /\ [][FramingNext]_framingVars

-----------------------------------------------------------------------------
\* The values every variable may have.
FramingTypeOK ==
    /\ received \in 0 .. Len(peer.bytes)
    /\ cursor \in 0 .. Len(buffer)
    /\ BufferedBytes <= max_buffered
    /\ limit_exceeded = (status = "BufferLimitExceeded")
    /\ status \in {"NeedMoreData", "MessageReady", "InvalidLength", "BufferLimitExceeded"}

frames == peer.frames

\* What was delivered does not depend on how the stream was cut into reads, nor
\* on when the buffer was compacted: once Next asks for more, it is the payloads
\* of the frames received whole, all of them legal; and a frame of illegal length
\* ends the stream at once when its header is there.
ChunkingIrrelevant ==
    LET k == Len(delivered)
    IN  /\ k <= Len(frames)
        /\ \A i \in 1 .. k : Legal(frames[i]) /\ delivered[i] = frames[i].payload
        /\ status = "NeedMoreData" =>
               \/ k = Len(frames)
               \/ received < peer.ends[k] + HeaderSize
               \/ Legal(frames[k + 1]) /\ received < peer.ends[k + 1]
        /\ status = "InvalidLength" =>
               k < Len(frames) /\ ~Legal(frames[k + 1]) /\ received >= peer.ends[k] + HeaderSize

\* A buffer that holds the longest message but for one byte, and a read, is never
\* too small for a peer that sends legal frames.
RoomForLegalFrames ==
    (/\ \A n \in Chunks : HeaderSize + MaxMessage - 1 + n <= max_buffered
     /\ \A i \in DOMAIN frames : Legal(frames[i]))
    => ~limit_exceeded

\* Compacting late costs memory, but not without bound: the buffer is never longer
\* than its limit and the larger of the limit and the compacting threshold.
BufferBound ==
    Len(buffer) < max_buffered + (IF CompactAt > max_buffered THEN CompactAt ELSE max_buffered)

\* The buffer of LengthPrefixedAccumulator stays within its limit, and is never too
\* small for a peer that sends legal frames if it holds the longest, less a byte, and
\* one read; compacting it late costs memory, but not without bound.
BuffersFit == FramingTypeOK /\ BufferBound /\ RoomForLegalFrames
=============================================================================
