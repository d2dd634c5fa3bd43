----------------------------- MODULE SendCursor -----------------------------
(***************************************************************************)
(* SendCursor of send_cursor.hpp and the buffers PostWrite of              *)
(* iocp_server.cpp makes of it: the bytes of one item, header and payload, *)
(* through writes that each transfer only some of them.  SendPath counts   *)
(* an item's bytes; here they are told apart.                              *)
(***************************************************************************)
EXTENDS Integers, Sequences

CONSTANTS
    MaxHeader, MaxPayload   \* bounds on the sizes; either part may be empty

ASSUME CursorAssumption == MaxHeader \in Nat /\ MaxPayload \in Nat

VARIABLES
    header, payload,        \* the bytes of each
    sent,                   \* sent_
    posted,                 \* the buffers of the write under way
    outcome,                \* what FinishWrite is told
    wire                    \* history: the bytes transferred

cursorVars == <<header, payload, sent, posted, outcome, wire>>

\* An item to write, every byte of it another; its first write is not yet posted.
CursorInit ==
    /\ \E h \in 0 .. MaxHeader : header = [i \in 1 .. h |-> i]
    /\ \E p \in 0 .. MaxPayload : payload = [i \in 1 .. p |-> MaxHeader + i]
    /\ header \o payload # <<>>
    /\ sent = 0 /\ posted = <<>> /\ outcome = "none" /\ wire = <<>>

TotalSize == Len(header) + Len(payload)
Remaining == TotalSize - sent
Complete == Remaining = 0

\* The part of s after its first n bytes.
Subspan(s, n) == SubSeq(s, n + 1, Len(s))

HeaderRemainder == IF sent >= Len(header) THEN <<>> ELSE Subspan(header, sent)

\* Mutant: the bytes sent are all taken for payload.
MutantForgetsHeader == Subspan(payload, IF sent > Len(header) THEN sent ELSE 0)

PayloadRemainder ==
    Subspan(payload, IF sent > Len(header) THEN sent - Len(header) ELSE 0)

\* The buffers of a write: one for each part that is not empty.
Buffers(h, p) ==
    CASE h # <<>> /\ p # <<>> -> <<h, p>>
      [] h # <<>> /\ p = <<>> -> <<h>>
      [] h = <<>> /\ p # <<>> -> <<p>>
      [] h = <<>> /\ p = <<>> -> <<>>

\* What WSASend takes from up to two buffers.
Gathered(bufs) ==
    CASE Len(bufs) = 2 -> bufs[1] \o bufs[2]
      [] Len(bufs) = 1 -> bufs[1]
      [] Len(bufs) = 0 -> <<>>

\* PostWrite, or its failure.
PostWrite ==
    /\ posted = <<>> /\ outcome = "none"
    /\ \/ posted' = Buffers(HeaderRemainder, PayloadRemainder) /\ UNCHANGED outcome
       \/ outcome' = "failed" /\ UNCHANGED posted
    /\ UNCHANGED <<header, payload, sent, wire>>

Consume(bytes) == sent' = sent + (IF bytes > Remaining THEN Remaining ELSE bytes)

\* HandleWrite: another write, or the end.
OutcomeOf(bytes) == IF bytes >= Remaining THEN "written" ELSE "none"

\* The write transfers some of its bytes, and HandleWrite counts them.
HandleWrite(bytes) ==
    /\ posted # <<>>
    /\ bytes <= Len(Gathered(posted))
    /\ wire' = wire \o SubSeq(Gathered(posted), 1, bytes)
    /\ posted' = <<>>
    /\ Consume(bytes)
    /\ outcome' = OutcomeOf(bytes)
    /\ UNCHANGED <<header, payload>>

\* The write fails, or transfers nothing.
WriteFails ==
    /\ posted # <<>>
    /\ posted' = <<>> /\ outcome' = "failed"
    /\ UNCHANGED <<header, payload, sent, wire>>

CursorNext ==
    \/ PostWrite
    \/ \E bytes \in 1 .. MaxHeader + MaxPayload : HandleWrite(bytes)
    \/ WriteFails

CursorSpec == CursorInit /\ [][CursorNext]_cursorVars

-----------------------------------------------------------------------------
Whole == header \o payload

\* However the writes are cut, the peer is sent the header and then the payload, no
\* byte twice and none left out, and the next write starts where the last stopped.
InOrder ==
    /\ wire = SubSeq(Whole, 1, sent)
    /\ posted # <<>> => wire \o Gathered(posted) = Whole

\* FinishWrite is told the item was written if and only if all of it was; until
\* then there is something to write, so no write is posted without a buffer.
WrittenWhole ==
    /\ outcome = "written" <=> wire = Whole
    /\ outcome = "none" => HeaderRemainder \o PayloadRemainder # <<>>

\* However writes are cut, SendCursor puts header and payload on the wire once and
\* in order, and FinishWrite is told an item was written if and only if all of it
\* was.
WireExact == InOrder /\ WrittenWhole
=============================================================================
