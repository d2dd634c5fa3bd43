----------------------------- MODULE WireProofs ------------------------------
(***************************************************************************)
(* What goes over the wire.  SendCursor, for every header and payload and  *)
(* every way to cut the write; LengthPrefixedAccumulator and               *)
(* WebSocketDecoder, for every stream of frames, every way to cut it into  *)
(* reads, and every limit.                                                 *)
(***************************************************************************)
EXTENDS Framing, WebSocketDecoder, SendCursor, SequenceTheorems, TLAPS

\* SMT is tried first and Zenon next, except where a leaf names Zenon.
USE SMTT(60), ZenonT(20)

-----------------------------------------------------------------------------
(* SendCursor.                                                             *)

\* What follows n elements of a sequence.
LEMMA SubspanIs ==
    ASSUME NEW S, NEW s \in Seq(S), NEW n \in Nat, n <= Len(s)
    PROVE  /\ Subspan(s, n) \in Seq(S) /\ Len(Subspan(s, n)) = Len(s) - n
           /\ \A i \in 1 .. Len(s) - n : Subspan(s, n)[i] = s[n + i]
  <1>1. Len(s) \in Nat /\ \A i \in n + 1 .. Len(s) : s[i] \in S
    OBVIOUS
  <1>2. /\ SubSeq(s, n + 1, Len(s)) \in Seq(S)
        /\ Len(SubSeq(s, n + 1, Len(s))) = IF n + 1 <= Len(s) THEN Len(s) - (n + 1) + 1 ELSE 0
        /\ \A i \in 1 .. Len(s) - (n + 1) + 1 : SubSeq(s, n + 1, Len(s))[i] = s[n + 1 + i - 1]
    BY <1>1, SubSeqProperties
  <1> DEFINE t == SubSeq(s, n + 1, Len(s))
  <1> HIDE DEF t
  <1>3. Len(t) = Len(s) - n /\ \A i \in 1 .. Len(s) - n : t[i] = s[n + i]
    BY <1>1, <1>2 DEF t
  <1> QED
    BY <1>2, <1>3, Zenon DEF Subspan, t

\* The remainders of header and payload are what follows the first n bytes.
LEMMA RemaindersJoin ==
    ASSUME NEW S, NEW h \in Seq(S), NEW p \in Seq(S), NEW n \in Nat, n <= Len(h) + Len(p)
    PROVE  /\ n >= Len(h) => <<>> \o Subspan(p, n - Len(h)) = Subspan(h \o p, n)
           /\ n < Len(h) => Subspan(h, n) \o Subspan(p, 0) = Subspan(h \o p, n)
  <1>1. Len(h) \in Nat /\ Len(p) \in Nat
    OBVIOUS
  <1> DEFINE w == h \o p
  <1>2. /\ w \in Seq(S) /\ Len(w) = Len(h) + Len(p)
        /\ \A i \in 1 .. Len(h) + Len(p) : w[i] = IF i <= Len(h) THEN h[i] ELSE p[i - Len(h)]
    BY ConcatProperties, Zenon
  <1> HIDE DEF w
  <1> DEFINE d == Subspan(w, n)
  <1>3. d \in Seq(S) /\ Len(d) = Len(w) - n /\ \A i \in 1 .. Len(w) - n : d[i] = w[n + i]
    <2>1. w \in Seq(S) /\ n <= Len(w)
      BY <1>1, <1>2
    <2> QED
      BY <2>1, SubspanIs, Zenon
  <1> HIDE DEF d
  <1>4. ASSUME n >= Len(h) PROVE <<>> \o Subspan(p, n - Len(h)) = d
    <2> DEFINE b == Subspan(p, n - Len(h))
    <2>1. n - Len(h) \in Nat /\ n - Len(h) <= Len(p)
      BY <1>1, <1>4
    <2>2. /\ b \in Seq(S) /\ Len(b) = Len(p) - (n - Len(h))
          /\ \A i \in 1 .. Len(p) - (n - Len(h)) : b[i] = p[n - Len(h) + i]
      BY <2>1, SubspanIs, Zenon
    <2> HIDE DEF b
    <2>3. Len(b) = Len(d)
      BY <1>1, <1>2, <1>3, <2>2
    <2>4. ASSUME NEW i \in 1 .. Len(b) PROVE b[i] = d[i]
      <3>1. /\ i \in 1 .. Len(p) - (n - Len(h)) /\ i \in 1 .. Len(w) - n
            /\ n + i \in 1 .. Len(h) + Len(p) /\ ~(n + i <= Len(h))
            /\ n - Len(h) + i = n + i - Len(h)
        BY <1>1, <1>2, <1>4, <2>2
      <3>2. b[i] = p[n - Len(h) + i]
        BY <2>2, <3>1, Zenon
      <3>3. d[i] = w[n + i]
        BY <1>3, <3>1, Zenon
      <3>4. w[n + i] = IF n + i <= Len(h) THEN h[n + i] ELSE p[n + i - Len(h)]
        BY <1>2, <3>1
      <3> QED
        BY <3>1, <3>2, <3>3, <3>4, Zenon
    <2>5. b = d
      BY <1>3, <2>2, <2>3, <2>4, SeqEqual, Zenon
    <2>6. <<>> \o b = b
      BY <2>2, ConcatEmptySeq
    <2> QED
      BY <2>5, <2>6, Zenon DEF b
  <1>5. ASSUME n < Len(h) PROVE Subspan(h, n) \o Subspan(p, 0) = d
    <2> DEFINE a == Subspan(h, n)
               b == Subspan(p, 0)
               c == a \o b
    <2>1. n <= Len(h) /\ 0 \in Nat /\ 0 <= Len(p)
      BY <1>1, <1>5
    <2>2. a \in Seq(S) /\ Len(a) = Len(h) - n /\ \A i \in 1 .. Len(h) - n : a[i] = h[n + i]
      BY <2>1, SubspanIs, Zenon
    <2>3. b \in Seq(S) /\ Len(b) = Len(p) - 0 /\ \A i \in 1 .. Len(p) - 0 : b[i] = p[0 + i]
      BY <2>1, SubspanIs, Zenon
    <2> HIDE DEF a, b
    <2>4. /\ c \in Seq(S) /\ Len(c) = Len(a) + Len(b)
          /\ \A i \in 1 .. Len(a) + Len(b) : c[i] = IF i <= Len(a) THEN a[i] ELSE b[i - Len(a)]
      BY <2>2, <2>3, ConcatProperties, Zenon
    <2> HIDE DEF c
    <2>5. Len(c) = Len(d) /\ Len(a) \in Nat /\ Len(b) = Len(p)
      BY <1>1, <1>2, <1>3, <1>5, <2>2, <2>3, <2>4
    <2>6. ASSUME NEW i \in 1 .. Len(c) PROVE c[i] = d[i]
      <3>1. /\ i \in 1 .. Len(a) + Len(b) /\ i \in 1 .. Len(w) - n
            /\ n + i \in 1 .. Len(h) + Len(p)
        BY <1>1, <1>2, <1>3, <2>4, <2>5
      <3>2. /\ c[i] = IF i <= Len(a) THEN a[i] ELSE b[i - Len(a)]
            /\ d[i] = w[n + i]
            /\ w[n + i] = IF n + i <= Len(h) THEN h[n + i] ELSE p[n + i - Len(h)]
        <4>1. c[i] = IF i <= Len(a) THEN a[i] ELSE b[i - Len(a)]
          BY <2>4, <3>1, Zenon
        <4>2. d[i] = w[n + i]
          BY <1>3, <3>1, Zenon
        <4>3. w[n + i] = IF n + i <= Len(h) THEN h[n + i] ELSE p[n + i - Len(h)]
          BY <1>2, <3>1
        <4> QED
          BY <4>1, <4>2, <4>3, Zenon
      <3>3. CASE i <= Len(a)
        <4>1. i \in 1 .. Len(h) - n /\ n + i <= Len(h)
          BY <1>1, <2>2, <3>1, <3>3
        <4> QED
          BY <2>2, <3>2, <3>3, <4>1, Zenon
      <3>4. CASE ~(i <= Len(a))
        <4>1. /\ i - Len(a) \in 1 .. Len(p) - 0 /\ ~(n + i <= Len(h))
              /\ 0 + (i - Len(a)) = n + i - Len(h)
          BY <1>1, <1>5, <2>2, <2>5, <3>1, <3>4
        <4>2. b[i - Len(a)] = p[0 + (i - Len(a))]
          BY <2>3, <4>1, Zenon
        <4> QED
          BY <3>2, <3>4, <4>1, <4>2, Zenon
      <3> QED
        BY <3>3, <3>4, Zenon
    <2>7. c = d
      BY <1>3, <2>4, <2>5, <2>6, SeqEqual, Zenon
    <2> QED
      BY <2>7, Zenon DEF a, b, c
  <1> QED
    BY <1>4, <1>5, Zenon DEF d, w

\* What WSASend is given is both parts, one after the other.
LEMMA GatheredBuffers ==
    ASSUME NEW S, NEW h \in Seq(S), NEW p \in Seq(S)
    PROVE  /\ Gathered(Buffers(h, p)) = h \o p
           /\ Buffers(h, p) = <<>> <=> h \o p = <<>>
  <1>1. /\ h \o <<>> = h /\ <<>> \o p = p /\ <<>> \o <<>> = <<>>
        /\ h \o p = <<>> <=> h = <<>> /\ p = <<>>
    <2>1. <<>> \in Seq(S)
      OBVIOUS
    <2>2. h \o <<>> = h /\ <<>> \o p = p /\ <<>> \o <<>> = <<>>
      BY <2>1, ConcatEmptySeq
    <2>3. h \o p = <<>> <=> h = <<>> /\ p = <<>>
      BY ConcatEqualIffEmpty
    <2> QED
      BY <2>2, <2>3, Zenon
  <1>2. CASE h # <<>> /\ p # <<>>
    <2>1. Buffers(h, p) = <<h, p>>
      BY <1>2, Zenon DEF Buffers
    <2>2. Gathered(<<h, p>>) = h \o p /\ <<h, p>> # <<>>
      BY DEF Gathered
    <2> QED
      BY <1>1, <1>2, <2>1, <2>2, Zenon
  <1>3. CASE h # <<>> /\ p = <<>>
    <2>1. Buffers(h, p) = <<h>>
      BY <1>3, Zenon DEF Buffers
    <2>2. Gathered(<<h>>) = h /\ <<h>> # <<>>
      BY DEF Gathered
    <2> QED
      BY <1>1, <1>3, <2>1, <2>2, Zenon
  <1>4. CASE h = <<>> /\ p # <<>>
    <2>1. Buffers(h, p) = <<p>>
      BY <1>4, Zenon DEF Buffers
    <2>2. Gathered(<<p>>) = p /\ <<p>> # <<>>
      BY DEF Gathered
    <2> QED
      BY <1>1, <1>4, <2>1, <2>2, Zenon
  <1>5. CASE h = <<>> /\ p = <<>>
    <2>1. Buffers(h, p) = <<>>
      BY <1>5, Zenon DEF Buffers
    <2>2. Gathered(<<>>) = <<>>
      BY DEF Gathered
    <2> QED
      BY <1>1, <1>5, <2>1, <2>2, Zenon
  <1> QED
    BY <1>2, <1>3, <1>4, <1>5, Zenon


\* What holds of the cursor between two steps: the wire has the first sent bytes,
\* the write under way the others.
CursorInv ==
    /\ header \in Seq(Nat) /\ payload \in Seq(Nat)
    /\ sent \in Nat /\ sent <= TotalSize
    /\ wire = SubSeq(Whole, 1, sent)
    /\ posted # <<>> => Gathered(posted) = Subspan(Whole, sent) /\ outcome = "none"
    /\ outcome \in {"none", "written", "failed"}
    /\ outcome = "written" <=> sent = TotalSize

\* The parts and the whole.
LEMMA CursorFacts ==
    ASSUME CursorInv
    PROVE  /\ Whole \in Seq(Nat) /\ Len(Whole) = TotalSize /\ TotalSize \in Nat
           /\ sent \in Nat /\ sent <= TotalSize
           /\ HeaderRemainder \in Seq(Nat) /\ PayloadRemainder \in Seq(Nat)
           /\ HeaderRemainder \o PayloadRemainder = Subspan(Whole, sent)
           /\ Subspan(Whole, sent) \in Seq(Nat) /\ Len(Subspan(Whole, sent)) = Remaining
           /\ SubSeq(Whole, 1, sent) \in Seq(Nat) /\ Len(SubSeq(Whole, 1, sent)) = sent
  <1>1. header \in Seq(Nat) /\ payload \in Seq(Nat) /\ sent \in Nat /\ sent <= TotalSize
    BY Zenon DEF CursorInv
  <1>2. Whole \in Seq(Nat) /\ Len(Whole) = TotalSize
    BY <1>1, ConcatProperties, Zenon DEF Whole, TotalSize
  <1>3. Len(header) \in Nat /\ Len(payload) \in Nat /\ TotalSize \in Nat
    BY <1>1 DEF TotalSize
  <1>4. /\ Subspan(Whole, sent) \in Seq(Nat) /\ Len(Subspan(Whole, sent)) = Remaining
    BY <1>1, <1>2, SubspanIs, Zenon DEF Remaining
  <1>5. /\ SubSeq(Whole, 1, sent) \in Seq(Nat) /\ Len(SubSeq(Whole, 1, sent)) = sent
    <2>1. \A i \in 1 .. sent : Whole[i] \in Nat
      BY <1>1, <1>2
    <2>2. /\ SubSeq(Whole, 1, sent) \in Seq(Nat)
          /\ Len(SubSeq(Whole, 1, sent)) = IF 1 <= sent THEN sent - 1 + 1 ELSE 0
      BY <1>1, <2>1, SubSeqProperties
    <2> QED
      BY <1>1, <2>2
  <1>6. CASE sent >= Len(header)
    <2>1. sent - Len(header) \in Nat /\ sent - Len(header) <= Len(payload)
      BY <1>1, <1>3, <1>6 DEF TotalSize
    <2>2. Subspan(payload, sent - Len(header)) \in Seq(Nat)
      BY <1>1, <2>1, SubspanIs, Zenon
    <2>3. (IF sent > Len(header) THEN sent - Len(header) ELSE 0) = sent - Len(header)
      BY <1>1, <1>3, <1>6
    <2>4. HeaderRemainder = <<>> /\ PayloadRemainder = Subspan(payload, sent - Len(header))
      BY <1>6, <2>3, Zenon DEF HeaderRemainder, PayloadRemainder
    <2>5. <<>> \o Subspan(payload, sent - Len(header)) = Subspan(Whole, sent)
      BY <1>1, <1>6, RemaindersJoin, Zenon DEF Whole, TotalSize
    <2>6. <<>> \in Seq(Nat)
      OBVIOUS
    <2> QED
      BY <1>1, <1>2, <1>3, <1>4, <1>5, <2>2, <2>4, <2>5, <2>6, Zenon
  <1>7. CASE ~(sent >= Len(header))
    <2>1. sent <= Len(header) /\ 0 \in Nat /\ 0 <= Len(payload) /\ sent < Len(header)
          /\ ~(sent > Len(header))
      BY <1>1, <1>3, <1>7
    <2>2. Subspan(header, sent) \in Seq(Nat) /\ Subspan(payload, 0) \in Seq(Nat)
      BY <1>1, <2>1, SubspanIs, Zenon
    <2>3. HeaderRemainder = Subspan(header, sent) /\ PayloadRemainder = Subspan(payload, 0)
      BY <1>7, <2>1, Zenon DEF HeaderRemainder, PayloadRemainder
    <2>4. Subspan(header, sent) \o Subspan(payload, 0) = Subspan(Whole, sent)
      BY <1>1, <2>1, RemaindersJoin, Zenon DEF Whole, TotalSize
    <2> QED
      BY <1>1, <1>2, <1>3, <1>4, <1>5, <2>2, <2>3, <2>4, Zenon
  <1> QED
    BY <1>6, <1>7, Zenon

\* A new item is not empty and none of it is sent.
LEMMA CursorInitInv ==
    ASSUME CursorInit
    PROVE  CursorInv
  <1>1. PICK h \in 0 .. MaxHeader : header = [i \in 1 .. h |-> i]
    BY Zenon DEF CursorInit
  <1>2. PICK p \in 0 .. MaxPayload : payload = [i \in 1 .. p |-> MaxHeader + i]
    BY Zenon DEF CursorInit
  <1>3. h \in Nat /\ p \in Nat /\ MaxHeader \in Nat
    BY CursorAssumption
  <1>4. header \in Seq(Nat) /\ payload \in Seq(Nat)
    BY <1>1, <1>2, <1>3
  <1>5. /\ header \o payload # <<>> /\ sent = 0 /\ posted = <<>> /\ outcome = "none"
        /\ wire = <<>>
    BY Zenon DEF CursorInit
  <1>6. TotalSize \in Nat /\ TotalSize # 0
    <2>1. Whole \in Seq(Nat) /\ Len(Whole) = TotalSize /\ Whole # <<>>
      BY <1>4, <1>5, ConcatProperties, Zenon DEF Whole, TotalSize
    <2> QED
      BY <2>1
  <1>7. SubSeq(Whole, 1, 0) = <<>>
    BY SubSeqEmpty
  <1> QED
    BY <1>4, <1>5, <1>6, <1>7 DEF CursorInv

\* Every step keeps the invariant.
LEMMA CursorStep ==
    ASSUME CursorInv, [CursorNext]_cursorVars
    PROVE  CursorInv'
  <1>1. ASSUME PostWrite PROVE CursorInv'
    <2>1. UNCHANGED <<header, payload, sent, wire>> /\ posted = <<>> /\ outcome = "none"
      BY <1>1, Zenon DEF PostWrite
    <2>2. TotalSize' = TotalSize /\ Whole' = Whole
      BY <2>1, Zenon DEF TotalSize, Whole
    <2>3. CASE posted' = Buffers(HeaderRemainder, PayloadRemainder) /\ outcome' = outcome
      <3>1. Gathered(posted') = Subspan(Whole, sent)
        BY <2>3, CursorFacts, GatheredBuffers, Zenon
      <3>2. Gathered(posted)' = Subspan(Whole, sent)'
        BY <2>1, <2>2, <3>1, Zenon DEF Gathered, Subspan
      <3> QED
        BY <2>1, <2>2, <2>3, <3>2, Zenon DEF CursorInv
    <2>4. CASE outcome' = "failed" /\ posted' = posted
      BY <2>1, <2>2, <2>4, Zenon DEF CursorInv
    <2> QED
      BY <1>1, <2>3, <2>4, Zenon DEF PostWrite
  <1>2. ASSUME NEW bytes \in 1 .. MaxHeader + MaxPayload, HandleWrite(bytes)
        PROVE  CursorInv'
    <2>1. /\ posted # <<>> /\ bytes <= Len(Gathered(posted)) /\ posted' = <<>>
          /\ wire' = wire \o SubSeq(Gathered(posted), 1, bytes)
          /\ UNCHANGED <<header, payload>>
          /\ sent' = sent + (IF bytes > Remaining THEN Remaining ELSE bytes)
          /\ outcome' = IF bytes >= Remaining THEN "written" ELSE "none"
      BY <1>2, Zenon DEF HandleWrite, Consume, OutcomeOf
    <2>2. TotalSize' = TotalSize /\ Whole' = Whole
      BY <2>1, Zenon DEF TotalSize, Whole
    <2>3. /\ wire = SubSeq(Whole, 1, sent) /\ Gathered(posted) = Subspan(Whole, sent)
          /\ sent \in Nat
      BY <2>1, Zenon DEF CursorInv
    <2>4. bytes \in Nat /\ bytes <= Remaining /\ TotalSize \in Nat /\ Remaining = TotalSize - sent
      BY <2>1, <2>3, CursorAssumption, CursorFacts DEF Remaining
    <2>5. sent' = sent + bytes /\ sent' \in Nat /\ sent' <= TotalSize
      BY <2>1, <2>3, <2>4
    <2>6. outcome' = "written" <=> sent' = TotalSize
      BY <2>1, <2>3, <2>4, <2>5
    <2>7. wire' = SubSeq(Whole, 1, sent')
      <3> DEFINE w == Whole
                 n == Len(w)
      <3>1. w \in Seq(Nat) /\ n = TotalSize
        BY CursorFacts, Zenon
      <3> HIDE DEF w
      <3>2. SubSeq(Subspan(w, sent), 1, bytes) = SubSeq(w, sent + 1, sent + bytes)
        <4>1. /\ sent + 1 \in 1 .. Len(w) /\ Len(w) \in 1 .. Len(w)
              /\ 1 \in 1 .. Len(w) - (sent + 1) + 1 /\ bytes \in 1 .. Len(w) - (sent + 1) + 1
          BY <2>3, <2>4, <3>1
        <4>2. SubSeq(SubSeq(w, sent + 1, Len(w)), 1, bytes)
                  = SubSeq(w, (sent + 1) + 1 - 1, (sent + 1) + bytes - 1)
          BY <3>1, <4>1, SubSeqOfSubSeq
        <4>3. (sent + 1) + 1 - 1 = sent + 1 /\ (sent + 1) + bytes - 1 = sent + bytes
          BY <2>3, <2>4
        <4> QED
          BY <4>2, <4>3, Zenon DEF Subspan
      <3>3. SubSeq(w, 1, sent) \o SubSeq(w, sent + 1, sent + bytes) = SubSeq(w, 1, sent + bytes)
        <4>1. /\ 1 \in 1 .. Len(w) + 1 /\ sent \in 1 - 1 .. Len(w)
              /\ sent + bytes \in sent .. Len(w)
          BY <2>3, <2>4, <3>1
        <4> QED
          BY <3>1, <4>1, ConcatAdjacentSubSeq, Zenon
      <3> QED
        BY <2>1, <2>3, <2>5, <3>2, <3>3, Zenon DEF w
    <2> QED
      BY <2>1, <2>2, <2>5, <2>6, <2>7, Zenon DEF CursorInv
  <1>3. ASSUME WriteFails PROVE CursorInv'
    <2>1. /\ posted # <<>> /\ posted' = <<>> /\ outcome' = "failed"
          /\ UNCHANGED <<header, payload, sent, wire>>
      BY <1>3, Zenon DEF WriteFails
    <2>2. TotalSize' = TotalSize /\ Whole' = Whole
      BY <2>1, Zenon DEF TotalSize, Whole
    <2> QED
      BY <2>1, <2>2, Zenon DEF CursorInv
  <1>4. ASSUME UNCHANGED cursorVars PROVE CursorInv'
    BY <1>4, Zenon DEF cursorVars, CursorInv, TotalSize, Whole, Gathered, Subspan
  <1> QED
    BY <1>1, <1>2, <1>3, <1>4, Zenon DEF CursorNext

\* It says what is promised.
LEMMA CursorInvExact ==
    ASSUME CursorInv
    PROVE  WireExact
  <1>1. wire = SubSeq(Whole, 1, sent)
    BY Zenon DEF CursorInv
  <1>2. ASSUME posted # <<>> PROVE wire \o Gathered(posted) = Whole
    <2>1. Gathered(posted) = SubSeq(Whole, sent + 1, Len(Whole))
      BY <1>2, Zenon DEF CursorInv, Subspan
    <2>2. Whole \in Seq(Nat) /\ Len(Whole) = TotalSize /\ sent <= TotalSize /\ sent \in Nat
          /\ TotalSize \in Nat
      BY CursorFacts, Zenon
    <2>3. /\ 1 \in 1 .. Len(Whole) + 1 /\ sent \in 1 - 1 .. Len(Whole)
          /\ Len(Whole) \in sent .. Len(Whole)
      BY <2>2
    <2>4. SubSeq(Whole, 1, sent) \o SubSeq(Whole, sent + 1, Len(Whole))
              = SubSeq(Whole, 1, Len(Whole))
      BY <2>2, <2>3, ConcatAdjacentSubSeq, Zenon
    <2>5. SubSeq(Whole, 1, Len(Whole)) = Whole
      BY <2>2, SubSeqFull, Zenon
    <2> QED
      BY <1>1, <2>1, <2>4, <2>5, Zenon
  <1>3. wire = Whole <=> sent = TotalSize
    <2>1. sent = TotalSize => wire = Whole
      BY <1>1, CursorFacts, SubSeqFull, Zenon
    <2>2. wire = Whole => sent = TotalSize
      BY <1>1, CursorFacts, Zenon
    <2> QED
      BY <2>1, <2>2, Zenon
  <1>4. ASSUME outcome = "none" PROVE HeaderRemainder \o PayloadRemainder # <<>>
    <2>1. sent # TotalSize
      BY <1>4, Zenon DEF CursorInv
    <2>2. /\ sent \in Nat /\ TotalSize \in Nat
          /\ Len(HeaderRemainder \o PayloadRemainder) = TotalSize - sent
      BY CursorFacts, Zenon DEF Remaining
    <2>3. Len(<<>>) = 0
      OBVIOUS
    <2>4. TotalSize - sent # 0
      BY <2>1, <2>2
    <2> QED
      BY <2>2, <2>3, <2>4, Zenon
  <1> QED
    BY <1>1, <1>2, <1>3, <1>4, Zenon DEF WireExact, InOrder, WrittenWhole, CursorInv

\* Whatever the sizes of header and payload, and however the writes are cut.
THEOREM CursorExact == CursorSpec => []WireExact
  BY CursorInitInv, CursorStep, CursorInvExact, PTL DEF CursorSpec

-----------------------------------------------------------------------------
(* Framing.                                                                *)

\* Where in the peer's bytes the cursor stands.
Position == peer.ends[Len(delivered)]

\* The buffer holds, from the cursor on, the bytes read after that.
FramingInv ==
    /\ peer \in Inputs /\ max_buffered \in Limits
    /\ buffer \in Seq(Byte) /\ delivered \in Seq(Seq(Byte))
    /\ BuffersFit /\ ChunkingIrrelevant
    /\ received = Position + BufferedBytes
    /\ \A i \in 1 .. BufferedBytes : buffer[cursor + i] = peer.bytes[Position + i]

\* A header is read as the length it was made from.
LEMMA LengthReadsBack ==
    ASSUME NEW n \in Nat, FourBytes(n)
    PROVE  DecodeLength(EncodeLength(n)) = n
  <1> DEFINE a == n \div 256
             b == n \div 65536
             c == n \div 16777216
  <1>1. /\ a \in Nat /\ b \in Nat /\ c \in Nat /\ c < 256
        /\ n = a * 256 + (n % 256) /\ a = b * 256 + (a % 256) /\ b = c * 256 + (b % 256)
    <2>1. c < 256
      BY DEF FourBytes
    <2>2. a \in Nat /\ b \in Nat /\ c \in Nat
      OBVIOUS
    <2>3. n = a * 256 + (n % 256)
      OBVIOUS
    <2>4. b = a \div 256
      OBVIOUS
    <2>5. c = b \div 256
      OBVIOUS
    <2> HIDE DEF a, b, c
    <2> QED
      BY <2>1, <2>2, <2>3, <2>4, <2>5
  <1>2. DecodeLength(EncodeLength(n))
            = (c % 256) * 16777216 + (b % 256) * 65536 + (a % 256) * 256 + (n % 256)
    <2> DEFINE h == EncodeLength(n)
    <2>1. h[1] = c % 256 /\ h[2] = b % 256 /\ h[3] = a % 256 /\ h[4] = n % 256
      BY DEF EncodeLength
    <2> HIDE DEF a, b, c, h
    <2>2. DecodeLength(h) = h[1] * 16777216 + h[2] * 65536 + h[3] * 256 + h[4]
      BY DEF DecodeLength
    <2> QED
      BY <1>1, <2>1, <2>2 DEF h
  <1> HIDE DEF a, b, c
  <1>3. c % 256 = c
    BY <1>1
  <1>4. (c * 16777216) + (b % 256) * 65536 = b * 65536
    BY <1>1
  <1> QED
    BY <1>1, <1>2, <1>3, <1>4

\* What a peer sends.
LEMMA PeerFacts ==
    ASSUME peer \in Inputs
    PROVE  /\ frames \in Seq([length : Nat, payload : Seq(Byte)]) /\ Len(frames) \in Nat
           /\ peer.bytes \in Seq(Byte) /\ Len(peer.bytes) \in Nat
           /\ peer.ends \in [0 .. Len(frames) -> Nat]
           /\ peer.ends[Len(frames)] = Len(peer.bytes)
  <1>1. /\ frames \in Seq([length : Nat, payload : Seq(Byte)]) /\ peer.bytes \in Seq(Byte)
        /\ peer.ends \in [0 .. Len(frames) -> Nat]
        /\ peer.ends[Len(frames)] = Len(peer.bytes)
    BY FramingAssumption, Zenon DEF frames, Byte
  <1>2. Len(frames) \in Nat /\ Len(peer.bytes) \in Nat
    BY <1>1
  <1> QED
    BY <1>1, <1>2, Zenon

\* One of its frames.
LEMMA FrameFacts ==
    ASSUME peer \in Inputs, NEW k \in Nat, k < Len(frames)
    PROVE  /\ frames[k + 1].length \in Nat /\ frames[k + 1].payload \in Seq(Byte)
           /\ peer.ends[k] \in Nat /\ peer.ends[k + 1] \in Nat
           /\ peer.ends[k + 1] = peer.ends[k] + 4 + Len(frames[k + 1].payload)
           /\ \A j \in 1 .. 4 :
                  peer.bytes[peer.ends[k] + j] = EncodeLength(frames[k + 1].length)[j]
           /\ \A j \in 1 .. Len(frames[k + 1].payload) :
                  peer.bytes[peer.ends[k] + 4 + j] = frames[k + 1].payload[j]
           /\ Legal(frames[k + 1]) => Len(frames[k + 1].payload) = frames[k + 1].length
           /\ FourBytes(frames[k + 1].length)
  <1>1. k + 1 \in 1 .. Len(frames) /\ k \in 0 .. Len(frames) /\ k + 1 \in 0 .. Len(frames)
        /\ (k + 1) - 1 = k
    BY PeerFacts
  <1>2. frames[k + 1] \in [length : Nat, payload : Seq(Byte)]
    <2> DEFINE F == [length : Nat, payload : Seq(Byte)]
    <2>1. frames \in Seq(F)
      BY PeerFacts, Zenon
    <2> HIDE DEF F
    <2>2. frames[k + 1] \in F
      BY <1>1, <2>1, ElementOfSeq, Zenon
    <2> QED
      BY <2>2, Zenon DEF F
  <1>3. Carries(peer, k + 1) /\ FourBytes(frames[k + 1].length)
    BY <1>1, FramingAssumption, Zenon DEF frames
  <1>4. peer.ends[k] \in Nat /\ peer.ends[k + 1] \in Nat
    BY <1>1, PeerFacts, Zenon
  <1>5. frames[k + 1].length \in Nat /\ frames[k + 1].payload \in Seq(Byte)
    BY <1>2
  <1> DEFINE start == peer.ends[k]
             f == frames[k + 1]
  <1>6. /\ peer.ends[k + 1] = start + HeaderSize + Len(f.payload)
        /\ \A j \in 1 .. HeaderSize : peer.bytes[start + j] = EncodeLength(f.length)[j]
        /\ \A j \in 1 .. Len(f.payload) : peer.bytes[start + HeaderSize + j] = f.payload[j]
        /\ Legal(f) => Len(f.payload) = f.length
    BY <1>1, <1>3, Zenon DEF Carries, frames
  <1> QED
    BY <1>3, <1>4, <1>5, <1>6, Zenon DEF HeaderSize

\* The numbers the invariant relates.
LEMMA FramingNumbers ==
    ASSUME FramingInv
    PROVE  /\ received \in Nat /\ received <= Len(peer.bytes) /\ cursor \in Nat
           /\ Len(buffer) \in Nat /\ cursor <= Len(buffer) /\ BufferedBytes \in Nat
           /\ BufferedBytes <= max_buffered /\ max_buffered \in Nat
           /\ BufferedBytes = Len(buffer) - cursor /\ received = Position + BufferedBytes
           /\ Len(delivered) \in Nat /\ Len(delivered) <= Len(frames) /\ Position \in Nat
           /\ CompactAt \in Nat /\ CompactAt # 0 /\ MaxMessage \in Nat
  <1>1. /\ peer \in Inputs /\ max_buffered \in Limits /\ buffer \in Seq(Byte)
        /\ delivered \in Seq(Seq(Byte)) /\ received = Position + BufferedBytes
        /\ received \in 0 .. Len(peer.bytes) /\ cursor \in 0 .. Len(buffer)
        /\ BufferedBytes <= max_buffered /\ Len(delivered) <= Len(frames)
    BY Zenon DEF FramingInv, BuffersFit, FramingTypeOK, ChunkingIrrelevant
  <1>2. /\ max_buffered \in Nat /\ CompactAt \in Nat /\ CompactAt # 0 /\ MaxMessage \in Nat
    BY <1>1, FramingAssumption
  <1>3. Len(buffer) \in Nat /\ Len(delivered) \in Nat
    BY <1>1
  <1>4. Len(frames) \in Nat /\ Len(peer.bytes) \in Nat /\ peer.ends \in [0 .. Len(frames) -> Nat]
    BY <1>1, PeerFacts, Zenon
  <1>5. Position \in Nat
    <2>1. Len(delivered) \in 0 .. Len(frames)
      BY <1>1, <1>3, <1>4
    <2> QED
      BY <1>4, <2>1, Zenon DEF Position
  <1>6. /\ received \in Nat /\ received <= Len(peer.bytes) /\ cursor \in Nat
        /\ cursor <= Len(buffer)
    BY <1>1, <1>3, <1>4
  <1>7. BufferedBytes = Len(buffer) - cursor
    BY Zenon DEF BufferedBytes
  <1>8. BufferedBytes \in Nat
    BY <1>3, <1>6, <1>7
  <1> QED
    BY <1>1, <1>2, <1>3, <1>5, <1>6, <1>7, <1>8, Zenon

\* CompactIfUseful keeps what is not consumed, and leaves little of what is.
LEMMA CompactKeeps ==
    ASSUME FramingInv
    PROVE  \E b \in Seq(Byte) : \E c \in Nat :
               /\ CompactIfUseful.buffer = b /\ CompactIfUseful.cursor = c
               /\ c <= Len(b) /\ Len(b) - c = BufferedBytes
               /\ c = 0 \/ c < CompactAt \/ c < BufferedBytes
               /\ \A i \in 1 .. BufferedBytes : b[c + i] = buffer[cursor + i]
  <1>1. buffer \in Seq(Byte)
    BY Zenon DEF FramingInv
  <1> DEFINE useful == cursor = Len(buffer) \/ (cursor >= CompactAt /\ cursor * 2 >= Len(buffer))
  <1>2. CASE useful
    <2> DEFINE b == SubSeq(buffer, cursor + 1, Len(buffer))
    <2>1. CompactIfUseful.buffer = b /\ CompactIfUseful.cursor = 0
      <3>1. CompactIfUseful = [buffer |-> b, cursor |-> 0]
        BY <1>2, Zenon DEF CompactIfUseful
      <3> HIDE DEF b
      <3> QED
        BY <3>1
    <2>2. \A i \in cursor + 1 .. Len(buffer) : buffer[i] \in Byte
      BY <1>1, FramingNumbers
    <2>3. /\ b \in Seq(Byte) /\ Len(b) = IF cursor + 1 <= Len(buffer) THEN Len(buffer) - (cursor + 1) + 1 ELSE 0
          /\ \A i \in 1 .. Len(buffer) - (cursor + 1) + 1 : b[i] = buffer[cursor + 1 + i - 1]
      <3>1. cursor + 1 \in Int /\ Len(buffer) \in Int
        BY FramingNumbers
      <3> QED
        BY <2>2, <3>1, SubSeqProperties
    <2> HIDE DEF b
    <2>4. Len(b) = BufferedBytes
      BY <2>3, FramingNumbers
    <2>5. ASSUME NEW i \in 1 .. BufferedBytes PROVE b[0 + i] = buffer[cursor + i]
      <3>1. i \in 1 .. Len(buffer) - (cursor + 1) + 1 /\ cursor + 1 + i - 1 = cursor + i /\ 0 + i = i
        BY FramingNumbers
      <3>2. b[i] = buffer[cursor + 1 + i - 1]
        BY <2>3, <3>1, Zenon
      <3> QED
        BY <3>1, <3>2, Zenon
    <2>6. 0 \in Nat /\ 0 <= Len(b) /\ Len(b) - 0 = BufferedBytes
      BY <2>4, FramingNumbers
    <2> QED
      BY <2>1, <2>3, <2>5, <2>6, Zenon
  <1>3. CASE ~useful
    <2>1. CompactIfUseful.buffer = buffer /\ CompactIfUseful.cursor = cursor
      BY <1>3 DEF CompactIfUseful
    <2>2. cursor < CompactAt \/ cursor < BufferedBytes
      BY <1>3, FramingNumbers
    <2>3. cursor \in Nat /\ cursor <= Len(buffer) /\ Len(buffer) - cursor = BufferedBytes
      BY FramingNumbers, Zenon
    <2> QED
      BY <1>1, <2>1, <2>2, <2>3, Zenon
  <1> QED
    BY <1>2, <1>3, Zenon

\* What Append finds while Next asks for more: less than a frame.
LEMMA LessThanAFrame ==
    ASSUME FramingInv, status = "NeedMoreData"
    PROVE  BufferedBytes < 4 + MaxMessage \/ BufferedBytes = 0
  <1> DEFINE k == Len(delivered)
  <1>1. \/ k = Len(frames)
        \/ received < peer.ends[k] + 4
        \/ Legal(frames[k + 1]) /\ received < peer.ends[k + 1]
    BY Zenon DEF FramingInv, ChunkingIrrelevant, HeaderSize
  <1>2. peer \in Inputs
    BY Zenon DEF FramingInv
  <1>3. CASE k = Len(frames)
    <2>1. Position = Len(peer.bytes)
      BY <1>2, <1>3, PeerFacts, Zenon DEF Position
    <2> QED
      BY <2>1, FramingNumbers
  <1>4. CASE received < peer.ends[k] + 4
    <2>1. received < Position + 4
      BY <1>4, Zenon DEF Position
    <2> QED
      BY <2>1, FramingNumbers
  <1>5. CASE k # Len(frames) /\ Legal(frames[k + 1]) /\ received < peer.ends[k + 1]
    <2>1. k \in Nat /\ k < Len(frames)
      BY <1>2, <1>5, FramingNumbers, PeerFacts
    <2> DEFINE f == frames[k + 1]
    <2>2. peer.ends[k + 1] = Position + 4 + f.length
      BY <1>2, <1>5, <2>1, FrameFacts, Zenon DEF Position
    <2>3. f.length \in Nat /\ f.length <= MaxMessage
      <3>1. f.length \in 1 .. MaxMessage
        BY <1>5, Zenon DEF Legal
      <3> QED
        BY <3>1, FramingNumbers
    <2>4. received < Position + 4 + f.length
      BY <1>5, <2>2, Zenon
    <2> HIDE DEF f
    <2> QED
      BY <2>3, <2>4, FramingNumbers
  <1> QED
    BY <1>1, <1>3, <1>4, <1>5, Zenon

\* Append keeps the invariant.
LEMMA AppendStep ==
    ASSUME FramingInv, NEW n \in Chunks, AppendBytes(n)
    PROVE  FramingInv'
  <1>1. /\ peer' = peer /\ max_buffered' = max_buffered /\ delivered' = delivered
        /\ frames' = frames /\ Position' = Position
    BY Zenon DEF AppendBytes, frames, Position
  <1>2. n \in Nat
    BY FramingAssumption
  <1>3. PICK b \in Seq(Byte), c \in Nat :
               /\ CompactIfUseful.buffer = b /\ CompactIfUseful.cursor = c
               /\ c <= Len(b) /\ Len(b) - c = BufferedBytes
               /\ c = 0 \/ c < CompactAt \/ c < BufferedBytes
               /\ \A i \in 1 .. BufferedBytes : b[c + i] = buffer[cursor + i]
    BY CompactKeeps, Zenon
  <1>4. cursor' = c
    BY <1>3, Zenon DEF AppendBytes
  <1>5. Len(b) \in Nat
    BY <1>3
  <1>6. \A i \in 1 .. BufferedBytes : b[c + i] = peer.bytes[Position + i]
    BY <1>3, Zenon DEF FramingInv
  <1>7. /\ peer \in Inputs /\ max_buffered \in Limits /\ delivered \in Seq(Seq(Byte))
        /\ ChunkingIrrelevant /\ FramingTypeOK
    BY Zenon DEF FramingInv, BuffersFit
  <1>8. status = "NeedMoreData"
    BY Zenon DEF AppendBytes
  <1>17. ~limit_exceeded /\ limit_exceeded = FALSE
    <2>1. limit_exceeded = (status = "BufferLimitExceeded")
      BY <1>7, Zenon DEF FramingTypeOK
    <2>2. status # "BufferLimitExceeded"
      BY <1>8
    <2> QED
      BY <2>1, <2>2, Zenon
  <1>9. BufferedBytes' = Len(buffer') - cursor'
    BY Zenon DEF BufferedBytes
  <1> DEFINE Bound == IF CompactAt > max_buffered THEN CompactAt ELSE max_buffered
  <1>10. c < Bound /\ Bound \in Nat
    BY <1>3, FramingNumbers
  <1>11. BufferBound' <=> Len(buffer') < max_buffered + Bound
    BY <1>1, Zenon DEF BufferBound
  <1> HIDE DEF Bound
  <1>12. /\ Len(delivered) <= Len(frames)
         /\ \A i \in 1 .. Len(delivered) : Legal(frames[i]) /\ delivered[i] = frames[i].payload
    BY <1>7, Zenon DEF ChunkingIrrelevant
  <1>13. \A f : Legal(f)' <=> Legal(f)
    BY Zenon DEF Legal
  <1>14. status' \notin {"NeedMoreData", "InvalidLength"} => ChunkingIrrelevant'
    BY <1>1, <1>12, <1>13, Zenon DEF ChunkingIrrelevant
  <1>15. CASE ~Fits(n)
    <2>1. /\ limit_exceeded' = TRUE /\ status' = "BufferLimitExceeded"
          /\ buffer' = b /\ received' = received
      BY <1>3, <1>15, Zenon DEF AppendBytes
    <2>2. BufferedBytes' = BufferedBytes
      BY <1>3, <1>4, <1>9, <2>1, Zenon
    <2>3. FramingTypeOK'
      <3>1. cursor' \in 0 .. Len(buffer')
        BY <1>3, <1>4, <1>5, <2>1
      <3> QED
        BY <1>1, <1>7, <2>1, <2>2, <3>1, Zenon DEF FramingTypeOK
    <2>4. BufferBound'
      <3>1. Len(b) < max_buffered + Bound
        BY <1>3, <1>5, <1>10, FramingNumbers
      <3> QED
        BY <1>11, <2>1, <3>1, Zenon
    <2>5. RoomForLegalFrames'
      <3>1. ~(HeaderSize + MaxMessage - 1 + n <= max_buffered)
        <4>1. ~(BufferedBytes + n <= max_buffered)
          BY <1>15, Zenon DEF Fits
        <4> QED
          BY <1>2, <1>8, <4>1, LessThanAFrame, FramingNumbers DEF HeaderSize
      <3> QED
        BY <1>1, <3>1, Zenon DEF RoomForLegalFrames
    <2>6. ChunkingIrrelevant'
      <3>1. status' \notin {"NeedMoreData", "InvalidLength"}
        BY <2>1
      <3> QED
        BY <1>14, <3>1, Zenon
    <2>7. received' = Position' + BufferedBytes'
      BY <1>1, <2>1, <2>2, FramingNumbers, Zenon
    <2>8. \A i \in 1 .. BufferedBytes' : buffer'[cursor' + i] = peer'.bytes[Position' + i]
      BY <1>1, <1>4, <1>6, <2>1, <2>2, Zenon
    <2> QED
      BY <1>1, <1>7, <2>1, <2>3, <2>4, <2>5, <2>6, <2>7, <2>8, Zenon DEF FramingInv, BuffersFit
  <1>16. CASE Fits(n)
    <2> DEFINE s == SubSeq(peer.bytes, received + 1, received + n)
    <2>1. /\ limit_exceeded' = limit_exceeded /\ status' = "MessageReady"
          /\ buffer' = b \o s /\ received' = received + n
      BY <1>3, <1>16, Zenon DEF AppendBytes
    <2>2. received + n <= Len(peer.bytes) /\ BufferedBytes + n <= max_buffered
      BY <1>16, Zenon DEF AppendBytes, Fits
    <2>3. s \in Seq(Byte) /\ Len(s) = n /\ \A i \in 1 .. n : s[i] = peer.bytes[received + i]
      <3>1. peer.bytes \in Seq(Byte)
        BY <1>7, PeerFacts, Zenon
      <3>2. ASSUME NEW i \in received + 1 .. received + n PROVE peer.bytes[i] \in Byte
        <4>1. i \in 1 .. Len(peer.bytes)
          BY <1>2, <2>2, FramingNumbers
        <4> QED
          BY <3>1, <4>1, ElementOfSeq, Zenon
      <3>3. received + 1 \in Int /\ received + n \in Int
        BY <1>2, FramingNumbers
      <3>4. /\ s \in Seq(Byte)
            /\ Len(s) = IF received + 1 <= received + n
                        THEN (received + n) - (received + 1) + 1 ELSE 0
            /\ \A i \in 1 .. (received + n) - (received + 1) + 1 :
                   s[i] = peer.bytes[received + 1 + i - 1]
        BY <3>2, <3>3, SubSeqProperties
      <3> HIDE DEF s
      <3>5. Len(s) = n
        BY <1>2, <3>4, FramingNumbers
      <3>6. ASSUME NEW i \in 1 .. n PROVE s[i] = peer.bytes[received + i]
        <4>1. (received + n) - (received + 1) + 1 = n /\ received \in Nat
          BY <1>2, FramingNumbers
        <4>2. i \in Int
          OBVIOUS
        <4>3. received + 1 + i - 1 = received + i
          BY <4>1, <4>2
        <4> QED
          BY <3>4, <4>1, <4>3, Zenon
      <3> QED
        BY <3>4, <3>5, <3>6, Zenon
    <2> HIDE DEF s
    <2>4. /\ buffer' \in Seq(Byte) /\ Len(buffer') = Len(b) + n
          /\ \A i \in 1 .. Len(b) + n : buffer'[i] = IF i <= Len(b) THEN b[i] ELSE s[i - Len(b)]
      <3>1. /\ b \o s \in Seq(Byte) /\ Len(b \o s) = Len(b) + Len(s)
            /\ \A i \in 1 .. Len(b) + Len(s) :
                   (b \o s)[i] = IF i <= Len(b) THEN b[i] ELSE s[i - Len(b)]
        <4>1. b \in Seq(Byte) /\ s \in Seq(Byte)
          BY <1>3, <2>3, Zenon
        <4> QED
          BY <4>1, ConcatProperties, Zenon
      <3>2. /\ b \o s \in Seq(Byte) /\ Len(b \o s) = Len(b) + n
            /\ \A i \in 1 .. Len(b) + n :
                   (b \o s)[i] = IF i <= Len(b) THEN b[i] ELSE s[i - Len(b)]
        BY <2>3, <3>1, Zenon
      <3> QED
        BY <2>1, <3>2, Zenon
    <2>5. BufferedBytes' = BufferedBytes + n
      BY <1>2, <1>3, <1>4, <1>5, <1>9, <2>4, FramingNumbers
    <2>6. FramingTypeOK'
      <3>1. cursor' \in 0 .. Len(buffer')
        BY <1>2, <1>3, <1>4, <1>5, <2>4
      <3>2. received' \in 0 .. Len(peer'.bytes)
        BY <1>1, <1>2, <2>1, <2>2, FramingNumbers
      <3>3. limit_exceeded' = FALSE
        BY <1>17, <2>1, Zenon
      <3>4. limit_exceeded' = (status' = "BufferLimitExceeded")
        <4>1. status' # "BufferLimitExceeded"
          BY <2>1
        <4> QED
          BY <3>3, <4>1, Zenon
      <3>5. status' \in {"NeedMoreData", "MessageReady", "InvalidLength", "BufferLimitExceeded"}
        BY <2>1, Zenon
      <3>6. BufferedBytes' <= max_buffered'
        BY <1>1, <2>2, <2>5, Zenon
      <3> QED
        BY <3>1, <3>2, <3>4, <3>5, <3>6, Zenon DEF FramingTypeOK
    <2>7. BufferBound'
      <3>1. Len(b) + n < max_buffered + Bound
        BY <1>2, <1>3, <1>5, <1>10, <2>2, FramingNumbers
      <3> QED
        BY <1>11, <2>4, <3>1, Zenon
    <2>8. RoomForLegalFrames'
      BY <1>17, <2>1, Zenon DEF RoomForLegalFrames
    <2>9. ChunkingIrrelevant'
      <3>1. status' \notin {"NeedMoreData", "InvalidLength"}
        BY <2>1
      <3> QED
        BY <1>14, <3>1, Zenon
    <2>10. received' = Position' + BufferedBytes'
      BY <1>1, <1>2, <2>1, <2>5, FramingNumbers
    <2>11. ASSUME NEW i \in 1 .. BufferedBytes'
           PROVE  buffer'[cursor' + i] = peer'.bytes[Position' + i]
      <3>1. /\ i \in Nat /\ 1 <= i /\ i <= BufferedBytes + n
            /\ BufferedBytes \in Nat /\ Len(b) = c + BufferedBytes
        BY <1>2, <1>3, <1>5, <2>5, FramingNumbers
      <3>4. c + i \in 1 .. Len(b) + n
        BY <1>2, <3>1
      <3>2. CASE i <= BufferedBytes
        <4>1. c + i <= Len(b) /\ i \in 1 .. BufferedBytes
          BY <3>1, <3>2
        <4>2. buffer'[c + i] = b[c + i]
          BY <2>4, <3>4, <4>1, Zenon
        <4> QED
          BY <1>1, <1>4, <1>6, <4>1, <4>2, Zenon
      <3>3. CASE ~(i <= BufferedBytes)
        <4>1. ~(c + i <= Len(b)) /\ (c + i) - Len(b) \in 1 .. n
          BY <1>2, <3>1, <3>3
        <4>2. received + ((c + i) - Len(b)) = Position + i
          BY <3>1, FramingNumbers
        <4>3. buffer'[c + i] = s[(c + i) - Len(b)]
          BY <2>4, <3>4, <4>1, Zenon
        <4> QED
          BY <1>1, <1>4, <2>3, <4>1, <4>2, <4>3, Zenon
      <3> QED
        BY <3>2, <3>3, Zenon
    <2> QED
      BY <1>1, <1>7, <2>4, <2>6, <2>7, <2>8, <2>9, <2>10, <2>11, Zenon DEF FramingInv, BuffersFit
  <1> QED
    BY <1>15, <1>16, Zenon

\* A header that is there whole is that of the next frame, and says its length.
LEMMA HeaderRead ==
    ASSUME FramingInv, 4 <= BufferedBytes
    PROVE  /\ Len(delivered) < Len(frames)
           /\ Length = frames[Len(delivered) + 1].length
  <1> DEFINE k == Len(delivered)
             f == frames[k + 1]
             h == SubSeq(buffer, cursor + 1, cursor + 4)
             e == EncodeLength(f.length)
  <1>1. peer \in Inputs /\ buffer \in Seq(Byte)
    BY Zenon DEF FramingInv
  <1>2. k \in Nat /\ k < Len(frames)
    <2>1. CASE k = Len(frames)
      <3>1. Position = Len(peer.bytes)
        BY <1>1, <2>1, PeerFacts, Zenon DEF Position
      <3> QED
        BY <3>1, FramingNumbers
    <2>2. CASE k # Len(frames)
      BY <1>1, <2>2, FramingNumbers, PeerFacts
    <2> QED
      BY <2>1, <2>2, Zenon
  <1>3. \A j \in 1 .. 4 : h[j] = e[j]
    <2>1. \A i \in cursor + 1 .. cursor + 4 : buffer[i] \in Byte
      BY <1>1, FramingNumbers, ElementOfSeq
    <2>2. cursor + 1 \in Int /\ cursor + 4 \in Int
      BY FramingNumbers
    <2>3. \A i \in 1 .. (cursor + 4) - (cursor + 1) + 1 : h[i] = buffer[cursor + 1 + i - 1]
      BY <2>1, <2>2, SubSeqProperties
    <2> SUFFICES ASSUME NEW j \in 1 .. 4 PROVE h[j] = e[j]
      BY Zenon
    <2> HIDE DEF h, e, f
    <2>4. (cursor + 4) - (cursor + 1) + 1 = 4 /\ cursor + 1 + j - 1 = cursor + j
      BY FramingNumbers
    <2>5. h[j] = buffer[cursor + j]
      BY <2>3, <2>4, Zenon
    <2>6. j \in 1 .. BufferedBytes
      BY FramingNumbers
    <2>7. buffer[cursor + j] = peer.bytes[Position + j]
      BY <2>6, Zenon DEF FramingInv
    <2>8. peer.bytes[Position + j] = e[j]
      BY <1>1, <1>2, FrameFacts, Zenon DEF Position, e, f
    <2> QED
      BY <2>5, <2>7, <2>8, Zenon
  <1>4. f.length \in Nat /\ FourBytes(f.length)
    BY <1>1, <1>2, FrameFacts, Zenon
  <1>5. DecodeLength(e) = f.length
    BY <1>4, LengthReadsBack, Zenon
  <1>6. DecodeLength(h) = DecodeLength(e)
    <2> HIDE DEF h, e
    <2>1. h[1] = e[1] /\ h[2] = e[2] /\ h[3] = e[3] /\ h[4] = e[4]
      BY <1>3
    <2> QED
      BY <2>1 DEF DecodeLength
  <1>7. Length = DecodeLength(h)
    BY Zenon DEF Length, HeaderSize
  <1> QED
    BY <1>2, <1>5, <1>6, <1>7, Zenon

\* Next keeps the invariant.
LEMMA NextStep ==
    ASSUME FramingInv, NextFrame
    PROVE  FramingInv'
  <1> DEFINE k == Len(delivered)
             f == frames[k + 1]
  <1>1. /\ peer' = peer /\ received' = received /\ max_buffered' = max_buffered
        /\ buffer' = buffer /\ limit_exceeded' = limit_exceeded /\ frames' = frames
        /\ status' = NextStatus
    BY Zenon DEF NextFrame, frames
  <1>2. /\ peer \in Inputs /\ max_buffered \in Limits /\ buffer \in Seq(Byte)
        /\ delivered \in Seq(Seq(Byte)) /\ FramingTypeOK /\ BufferBound /\ RoomForLegalFrames
        /\ ChunkingIrrelevant
        /\ \A i \in 1 .. BufferedBytes : buffer[cursor + i] = peer.bytes[Position + i]
    BY Zenon DEF FramingInv, BuffersFit
  <1>3. /\ k <= Len(frames)
        /\ \A i \in 1 .. k : Legal(frames[i]) /\ delivered[i] = frames[i].payload
    BY <1>2, Zenon DEF ChunkingIrrelevant
  <1>4. BufferBound' /\ RoomForLegalFrames'
    BY <1>1, <1>2, Zenon DEF BufferBound, RoomForLegalFrames, Legal
  <1>5. limit_exceeded = FALSE
    <2>1. limit_exceeded = (status = "BufferLimitExceeded")
      BY <1>2, Zenon DEF FramingTypeOK
    <2>2. status = "MessageReady"
      BY Zenon DEF NextFrame
    <2>3. status # "BufferLimitExceeded"
      BY <2>2
    <2> QED
      BY <2>1, <2>3, Zenon
  <1>6. NextStatus \in {"NeedMoreData", "InvalidLength", "MessageReady"}
    BY Zenon DEF NextStatus
  <1>7. limit_exceeded' = (status' = "BufferLimitExceeded")
    <2>1. status' # "BufferLimitExceeded"
      BY <1>1, <1>6
    <2> QED
      BY <1>1, <1>5, <2>1, Zenon
  <1>8. ASSUME BufferedBytes' <= max_buffered, cursor' \in 0 .. Len(buffer)
        PROVE  FramingTypeOK'
    <2>1. status' \in {"NeedMoreData", "MessageReady", "InvalidLength", "BufferLimitExceeded"}
      BY <1>1, <1>6, Zenon
    <2>2. received' \in 0 .. Len(peer'.bytes)
      BY <1>1, <1>2, Zenon DEF FramingTypeOK
    <2> QED
      BY <1>1, <1>7, <1>8, <2>1, <2>2, Zenon DEF FramingTypeOK
  <1>9. ASSUME NextStatus # "MessageReady",
               NextStatus = "NeedMoreData" =>
                   \/ received < peer.ends[k] + 4
                   \/ Legal(f) /\ received < peer.ends[k + 1],
               NextStatus = "InvalidLength" =>
                   k < Len(frames) /\ ~Legal(f) /\ received >= peer.ends[k] + 4
        PROVE  FramingInv'
    <2>1. delivered' = delivered /\ cursor' = cursor
      BY <1>9, Zenon DEF NextFrame
    <2>2. BufferedBytes' = BufferedBytes /\ Position' = Position
      BY <1>1, <2>1, Zenon DEF BufferedBytes, Position
    <2>3. FramingTypeOK'
      BY <1>2, <1>8, <2>1, <2>2, Zenon DEF FramingTypeOK
    <2>4. ChunkingIrrelevant'
      BY <1>1, <1>3, <1>9, <2>1, Zenon DEF ChunkingIrrelevant, Legal, HeaderSize
    <2>5. received' = Position' + BufferedBytes'
      BY <1>1, <2>2, FramingNumbers, Zenon
    <2> QED
      BY <1>1, <1>2, <1>4, <2>1, <2>2, <2>3, <2>4, <2>5, Zenon DEF FramingInv, BuffersFit
  <1>10. CASE BufferedBytes < 4
    <2>1. NextStatus = "NeedMoreData"
      BY <1>10, Zenon DEF NextStatus, HeaderSize
    <2>2. NextStatus # "MessageReady" /\ NextStatus # "InvalidLength"
      BY <2>1
    <2>3. received < Position + 4
      BY <1>10, FramingNumbers
    <2> QED
      BY <1>9, <2>2, <2>3, Zenon DEF Position
  <1>11. CASE ~(BufferedBytes < 4)
    <2>1. k < Len(frames) /\ Length = f.length /\ k \in Nat
      <3>1. 4 <= BufferedBytes
        BY <1>11, FramingNumbers
      <3> QED
        BY <3>1, HeaderRead, FramingNumbers, Zenon
    <2>2. /\ f.length \in Nat /\ f.payload \in Seq(Byte)
          /\ peer.ends[k + 1] = Position + 4 + Len(f.payload)
          /\ \A j \in 1 .. Len(f.payload) : peer.bytes[Position + 4 + j] = f.payload[j]
          /\ Legal(f) => Len(f.payload) = f.length
      BY <1>2, <2>1, FrameFacts, Zenon DEF Position
    <2>3. Position = peer.ends[k]
      BY Zenon DEF Position
    <2>4. NextStatus = IF f.length = 0 \/ f.length > MaxMessage THEN "InvalidLength"
                       ELSE IF BufferedBytes - 4 < f.length THEN "NeedMoreData"
                       ELSE "MessageReady"
      BY <1>11, <2>1, Zenon DEF NextStatus, HeaderSize
    <2>5. Legal(f) <=> ~(f.length = 0 \/ f.length > MaxMessage)
      <3>1. Legal(f) <=> f.length \in 1 .. MaxMessage
        BY Zenon DEF Legal
      <3> HIDE DEF f
      <3> QED
        BY <2>2, <3>1, FramingNumbers
    <2>6. CASE ~Legal(f)
      <3>1. NextStatus = "InvalidLength"
        BY <2>4, <2>5, <2>6, Zenon
      <3>2. NextStatus # "MessageReady" /\ NextStatus # "NeedMoreData"
        BY <3>1
      <3>3. received >= Position + 4
        BY <1>11, FramingNumbers
      <3> QED
        BY <1>9, <2>1, <2>3, <2>6, <3>2, <3>3, Zenon
    <2>7. CASE Legal(f) /\ BufferedBytes - 4 < f.length
      <3>1. NextStatus = "NeedMoreData"
        BY <2>4, <2>5, <2>7, Zenon
      <3>2. NextStatus # "MessageReady" /\ NextStatus # "InvalidLength"
        BY <3>1
      <3>3. received < peer.ends[k + 1]
        <4>1. peer.ends[k + 1] = Position + 4 + f.length
          BY <2>2, <2>7, Zenon
        <4> HIDE DEF f
        <4> QED
          BY <2>2, <2>7, <4>1, FramingNumbers
      <3> QED
        BY <1>9, <2>7, <3>2, <3>3, Zenon
    <2>8. CASE Legal(f) /\ ~(BufferedBytes - 4 < f.length)
      <3> DEFINE n == f.length
                 p == SubSeq(buffer, cursor + 4 + 1, cursor + 4 + n)
      <3>1. NextStatus = "MessageReady"
        BY <2>4, <2>5, <2>8, Zenon
      <3>2. delivered' = Append(delivered, p) /\ cursor' = cursor + 4 + n
        BY <2>1, <3>1, Zenon DEF NextFrame, HeaderSize
      <3>3. n \in Nat /\ Len(f.payload) = n /\ 4 + n <= BufferedBytes
        <4>1. n \in Nat /\ Len(f.payload) = n /\ ~(BufferedBytes - 4 < n)
          BY <2>2, <2>8, Zenon
        <4> HIDE DEF n, f
        <4>2. 4 + n <= BufferedBytes
          BY <4>1, FramingNumbers
        <4> QED
          BY <4>1, <4>2, Zenon
      <3>4. p \in Seq(Byte) /\ Len(p) = n /\ \A j \in 1 .. n : p[j] = buffer[cursor + 4 + j]
        <4> HIDE DEF n
        <4>1. \A i \in cursor + 4 + 1 .. cursor + 4 + n : buffer[i] \in Byte
          BY <1>2, <3>3, FramingNumbers, ElementOfSeq
        <4>2. cursor + 4 + 1 \in Int /\ cursor + 4 + n \in Int
          BY <3>3, FramingNumbers
        <4>3. /\ p \in Seq(Byte)
              /\ Len(p) = IF cursor + 4 + 1 <= cursor + 4 + n
                          THEN (cursor + 4 + n) - (cursor + 4 + 1) + 1 ELSE 0
              /\ \A i \in 1 .. (cursor + 4 + n) - (cursor + 4 + 1) + 1 :
                     p[i] = buffer[cursor + 4 + 1 + i - 1]
          BY <4>1, <4>2, SubSeqProperties
        <4> HIDE DEF p
        <4>4. Len(p) = n
          BY <3>3, <4>3, FramingNumbers
        <4>5. ASSUME NEW j \in 1 .. n PROVE p[j] = buffer[cursor + 4 + j]
          <5>1. (cursor + 4 + n) - (cursor + 4 + 1) + 1 = n /\ cursor \in Nat
            BY <3>3, FramingNumbers
          <5>2. j \in Int
            BY <3>3
          <5>3. cursor + 4 + 1 + j - 1 = cursor + 4 + j
            BY <5>1, <5>2
          <5> QED
            BY <4>3, <5>1, <5>3, Zenon
        <4> QED
          BY <4>3, <4>4, <4>5, Zenon
      <3>5. p = f.payload
        <4> HIDE DEF n, p, f
        <4>1. ASSUME NEW j \in 1 .. Len(p) PROVE p[j] = f.payload[j]
          <5>1. 4 + j \in 1 .. BufferedBytes /\ cursor + 4 + j = cursor + (4 + j)
                /\ Position + 4 + j = Position + (4 + j)
            <6>1. Len(p) = n /\ n \in Nat /\ 4 + n <= BufferedBytes
              BY <3>3, <3>4, Zenon
            <6>2. j \in Nat /\ 1 <= j /\ j <= n
              BY <6>1
            <6>3. cursor \in Nat /\ Position \in Nat /\ BufferedBytes \in Nat
              BY FramingNumbers, Zenon
            <6>4. 4 + j \in 1 .. BufferedBytes
              BY <6>1, <6>2, <6>3
            <6>5. cursor + 4 + j = cursor + (4 + j) /\ Position + 4 + j = Position + (4 + j)
              BY <6>2, <6>3
            <6> QED
              BY <6>4, <6>5, Zenon
          <5>2. buffer[cursor + (4 + j)] = peer.bytes[Position + (4 + j)]
            BY <1>2, <5>1, Zenon
          <5>3. p[j] = buffer[cursor + 4 + j] /\ peer.bytes[Position + 4 + j] = f.payload[j]
            BY <2>2, <3>3, <3>4, Zenon
          <5> QED
            BY <5>1, <5>2, <5>3, Zenon
        <4>2. f.payload \in Seq(Byte) /\ p \in Seq(Byte) /\ Len(p) = Len(f.payload)
          BY <2>2, <3>3, <3>4, Zenon
        <4> QED
          BY <4>1, <4>2, SeqEqual, Zenon
      <3>6. /\ delivered' \in Seq(Seq(Byte)) /\ Len(delivered') = k + 1
            /\ \A i \in 1 .. k : delivered'[i] = delivered[i]
            /\ delivered'[k + 1] = p
        <4> HIDE DEF n, p
        <4>1. p \in Seq(Byte)
          BY <3>4, Zenon
        <4>2. /\ Append(delivered, p) \in Seq(Seq(Byte)) /\ Len(Append(delivered, p)) = k + 1
              /\ \A i \in 1 .. k : Append(delivered, p)[i] = delivered[i]
              /\ Append(delivered, p)[k + 1] = p
          <5> DEFINE S == Seq(Byte)
          <5>1. delivered \in Seq(S) /\ p \in S
            BY <1>2, <4>1, Zenon
          <5> HIDE DEF S
          <5>2. /\ Append(delivered, p) \in Seq(S) /\ Len(Append(delivered, p)) = Len(delivered) + 1
                /\ \A i \in 1 .. Len(delivered) : Append(delivered, p)[i] = delivered[i]
                /\ Append(delivered, p)[Len(delivered) + 1] = p
            BY <5>1, AppendProperties
          <5> QED
            BY <5>2, Zenon DEF S
        <4> QED
          BY <3>2, <4>2, Zenon
      <3> HIDE DEF n, p
      <3>7. Position' = Position + 4 + n
        BY <1>1, <2>2, <3>3, <3>6, Zenon DEF Position
      <3>8. BufferedBytes' = BufferedBytes - (4 + n)
        <4>1. BufferedBytes' = Len(buffer) - cursor'
          BY <1>1, Zenon DEF BufferedBytes
        <4> QED
          BY <3>2, <3>3, <4>1, FramingNumbers
      <3>9. FramingTypeOK'
        <4>1. BufferedBytes' <= max_buffered /\ cursor' \in 0 .. Len(buffer)
          BY <3>2, <3>3, <3>8, FramingNumbers
        <4> QED
          BY <1>8, <4>1, Zenon
      <3>10. ChunkingIrrelevant'
        <4>1. k + 1 <= Len(frames)
          BY <1>2, <2>1, PeerFacts
        <4>2. ASSUME NEW i \in 1 .. k + 1
              PROVE  Legal(frames[i]) /\ delivered'[i] = frames[i].payload
          <5>1. i = k + 1 \/ i \in 1 .. k
            BY <2>1
          <5>2. CASE i = k + 1
            BY <2>8, <3>5, <3>6, <5>2, Zenon
          <5>3. CASE i \in 1 .. k
            BY <1>3, <3>6, <5>3, Zenon
          <5> QED
            BY <5>1, <5>2, <5>3, Zenon
        <4>3. status' # "NeedMoreData" /\ status' # "InvalidLength"
          BY <1>1, <3>1
        <4> QED
          BY <1>1, <3>6, <4>1, <4>2, <4>3, Zenon DEF ChunkingIrrelevant, Legal
      <3>11. received' = Position' + BufferedBytes'
        BY <1>1, <3>3, <3>7, <3>8, FramingNumbers
      <3>12. ASSUME NEW i \in 1 .. BufferedBytes'
             PROVE  buffer'[cursor' + i] = peer'.bytes[Position' + i]
        <4>1. (4 + n) + i \in 1 .. BufferedBytes
          BY <3>3, <3>8, FramingNumbers
        <4>2. i \in Int
          BY <3>3, <3>8, FramingNumbers
        <4>3. cursor + 4 + n + i = cursor + ((4 + n) + i)
              /\ Position + 4 + n + i = Position + ((4 + n) + i)
          BY <3>3, <4>2, FramingNumbers
        <4>4. buffer[cursor + ((4 + n) + i)] = peer.bytes[Position + ((4 + n) + i)]
          BY <1>2, <4>1, Zenon
        <4> QED
          BY <1>1, <3>2, <3>7, <4>3, <4>4, Zenon
      <3> QED
        BY <1>1, <1>2, <1>4, <3>6, <3>9, <3>10, <3>11, <3>12, Zenon DEF FramingInv, BuffersFit
    <2> QED
      BY <2>6, <2>7, <2>8, Zenon
  <1> QED
    BY <1>10, <1>11, Zenon

\* A connection starts with nothing read and nothing buffered.
LEMMA FramingInitInv == FramingInit => FramingInv
  <1> SUFFICES ASSUME FramingInit PROVE FramingInv
    OBVIOUS
  <1>1. /\ peer \in Inputs /\ max_buffered \in Limits /\ received = 0 /\ buffer = <<>>
        /\ cursor = 0 /\ limit_exceeded = FALSE /\ status = "NeedMoreData" /\ delivered = <<>>
    BY Zenon DEF FramingInit
  <1>2. /\ Len(buffer) = 0 /\ Len(delivered) = 0
        /\ buffer \in Seq(Byte) /\ delivered \in Seq(Seq(Byte))
    BY <1>1
  <1>3. max_buffered \in Nat /\ CompactAt \in Nat /\ CompactAt # 0
    BY <1>1, FramingAssumption
  <1>4. BufferedBytes = 0
    BY <1>1, <1>2 DEF BufferedBytes
  <1>5. Len(frames) \in Nat /\ Len(peer.bytes) \in Nat
    BY <1>1, PeerFacts, Zenon
  <1>6. peer.ends[0] = 0
    BY <1>1, FramingAssumption, Zenon
  <1>7. FramingTypeOK
    <2>1. received \in 0 .. Len(peer.bytes) /\ cursor \in 0 .. Len(buffer)
      BY <1>1, <1>2, <1>5
    <2>2. BufferedBytes <= max_buffered
      BY <1>3, <1>4
    <2>3. limit_exceeded = (status = "BufferLimitExceeded")
      <3>1. status # "BufferLimitExceeded"
        BY <1>1
      <3> QED
        BY <1>1, <3>1, Zenon
    <2> QED
      BY <1>1, <2>1, <2>2, <2>3, Zenon DEF FramingTypeOK
  <1>8. BufferBound /\ RoomForLegalFrames
    <2>1. BufferBound
      BY <1>2, <1>3 DEF BufferBound
    <2> QED
      BY <1>1, <2>1, Zenon DEF RoomForLegalFrames
  <1>9. ChunkingIrrelevant
    <2>1. 0 <= Len(frames) /\ 0 < 0 + 4 /\ \A i \in 1 .. 0 : FALSE
      BY <1>5
    <2>2. status # "InvalidLength"
      BY <1>1
    <2> QED
      BY <1>1, <1>2, <1>6, <2>1, <2>2, Zenon DEF ChunkingIrrelevant, HeaderSize
  <1>10. received = Position + BufferedBytes
    BY <1>1, <1>2, <1>4, <1>6 DEF Position
  <1>11. \A i \in 1 .. BufferedBytes : buffer[cursor + i] = peer.bytes[Position + i]
    BY <1>4
  <1> QED
    BY <1>1, <1>2, <1>7, <1>8, <1>9, <1>10, <1>11, Zenon DEF FramingInv, BuffersFit

\* Every step keeps the invariant.
LEMMA FramingStep == FramingInv /\ [FramingNext]_framingVars => FramingInv'
  <1> SUFFICES ASSUME FramingInv, [FramingNext]_framingVars PROVE FramingInv'
    OBVIOUS
  <1>1. CASE NextFrame
    BY <1>1, NextStep, Zenon
  <1>2. CASE \E n \in Chunks : AppendBytes(n)
    BY <1>2, AppendStep, Zenon
  <1>3. CASE UNCHANGED framingVars
    BY <1>3, Zenon
        DEF framingVars, FramingInv, BuffersFit, FramingTypeOK, BufferBound, RoomForLegalFrames,
            ChunkingIrrelevant, Position, BufferedBytes, frames, Legal
  <1> QED
    BY <1>1, <1>2, <1>3, Zenon DEF FramingNext

\* However the reads cut the stream, LengthPrefixedAccumulator delivers the frames
\* the peer sent, whole and in order, and ends the stream at an illegal length: for
\* every stream, read size, message limit, buffer limit and compacting threshold.
THEOREM FramingDelivers == FramingSpec => []ChunkingIrrelevant
  <1>1. FramingInv => ChunkingIrrelevant
    BY Zenon DEF FramingInv
  <1> QED
    BY <1>1, FramingInitInv, FramingStep, PTL DEF FramingSpec

\* The buffer keeps within its limit and, compacted late, within its bound; and
\* Append refuses no legal frame where the limit holds the longest frame but for a
\* byte, and one read.
THEOREM FramingFits == FramingSpec => []BuffersFit
  <1>1. FramingInv => BuffersFit
    BY Zenon DEF FramingInv
  <1> QED
    BY <1>1, FramingInitInv, FramingStep, PTL DEF FramingSpec

-----------------------------------------------------------------------------
(* WebSocketDecoder.                                                       *)

\* A frame's header and where it lies in the client's bytes.
LEMMA ClientFrame ==
    ASSUME NEW c \in Clients, NEW i \in 1 .. Len(c.frames)
    PROVE  /\ c.frames[i] \in Headers
           /\ c.ends[i - 1] \in Nat /\ c.ends[i] \in Nat
           /\ c.data[i - 1] \in Nat /\ c.data[i] \in Nat
           /\ c.ends[i] = c.ends[i - 1] + Size(c.frames[i])
           /\ IsControlOpcode(c.frames[i]) => c.data[i] = c.data[i - 1]
           /\ ~IsControlOpcode(c.frames[i]) => c.data[i] = c.data[i - 1] + c.frames[i].length
  <1>1. /\ c.frames \in Seq(Headers)
        /\ c.ends \in [0 .. Len(c.frames) -> Nat]
        /\ c.data \in [0 .. Len(c.frames) -> Nat]
        /\ c.ends[i] = c.ends[i - 1] + Size(c.frames[i])
        /\ c.data[i] = c.data[i - 1]
                           + (IF IsControlOpcode(c.frames[i]) THEN 0 ELSE c.frames[i].length)
    BY DecoderAssumption, Zenon
  <1>2. c.frames[i] \in Headers /\ Len(c.frames) \in Nat
    BY <1>1, ElementOfSeq, LenProperties, Zenon
  <1>3. i - 1 \in 0 .. Len(c.frames) /\ i \in 0 .. Len(c.frames)
    BY <1>2
  <1>4. /\ c.ends[i - 1] \in Nat /\ c.ends[i] \in Nat
        /\ c.data[i - 1] \in Nat /\ c.data[i] \in Nat
    BY <1>1, <1>3, Zenon
  <1>5. ASSUME IsControlOpcode(c.frames[i]) PROVE c.data[i] = c.data[i - 1]
    <2>1. c.data[i] = c.data[i - 1] + 0
      BY <1>1, <1>5, Zenon
    <2> QED
      BY <2>1, <1>4
  <1>6. ~IsControlOpcode(c.frames[i]) => c.data[i] = c.data[i - 1] + c.frames[i].length
    BY <1>1, Zenon
  <1> QED
    BY <1>1, <1>2, <1>4, <1>5, <1>6, Zenon

\* The fields of a header, and its sizes.
LEMMA HeaderFields ==
    ASSUME NEW f \in Headers
    PROVE  /\ f.fin \in BOOLEAN /\ f.rsv \in BOOLEAN /\ f.masked \in BOOLEAN
           /\ f.high \in BOOLEAN /\ f.valid \in BOOLEAN /\ f.opcode \in STRING
           /\ f.form \in {7, 16, 64} /\ f.length \in Nat
           /\ f.form = 7 => f.length <= 125
           /\ f.form = 16 => f.length <= 65535
           /\ f.high => f.form = 64
           /\ LengthEnd(f) \in Nat /\ 2 <= LengthEnd(f)
           /\ Size(f) \in Nat /\ LengthEnd(f) <= Size(f)
  <1>1. /\ f.fin \in BOOLEAN /\ f.rsv \in BOOLEAN /\ f.masked \in BOOLEAN
        /\ f.high \in BOOLEAN /\ f.valid \in BOOLEAN /\ f.opcode \in STRING
        /\ f.form \in {7, 16, 64} /\ f.length \in Nat
        /\ f.form = 7 => f.length <= 125
        /\ f.form = 16 => f.length <= 65535
        /\ f.high => f.form = 64
    BY DEF Headers
  <1>2. LengthEnd(f) \in Nat /\ 2 <= LengthEnd(f)
    BY <1>1 DEF LengthEnd
  <1>3. (IF f.masked THEN 4 ELSE 0) \in Nat
    OBVIOUS
  <1>4. Size(f) \in Nat /\ LengthEnd(f) <= Size(f)
    <2> DEFINE m == IF f.masked THEN 4 ELSE 0
    <2> HIDE DEF m
    <2>1. LengthEnd(f) + m + f.length \in Nat /\ LengthEnd(f) <= LengthEnd(f) + m + f.length
      BY <1>1, <1>2, <1>3 DEF m
    <2> QED
      BY <2>1 DEF Size, m
  <1> QED
    BY <1>1, <1>2, <1>4

-----------------------------------------------------------------------------
\* A control frame changes nothing about the message it interrupts.
LEMMA ControlKeeps ==
    ASSUME NEW c \in Clients, NEW i \in 1 .. Len(c.frames), IsControlOpcode(c.frames[i])
    PROVE  /\ i \notin Data(c)
           /\ Message(c, i) = Message(c, i - 1)
           /\ Open(c, i + 1) <=> Open(c, i)
  <1>1. c.frames \in Seq(Headers)
    BY DecoderAssumption, Zenon
  <1>2. Len(c.frames) \in Nat /\ DOMAIN c.frames = 1 .. Len(c.frames)
    BY <1>1, LenProperties, Zenon
  <1>3. i \notin Data(c) /\ Data(c) \subseteq 1 .. Len(c.frames)
    BY <1>2, Zenon DEF Data
  <1>4. c.frames[i].opcode # "Binary"
    BY DEF IsControlOpcode
  <1> DEFINE D == Data(c)
  <1>5. D \subseteq 1 .. Len(c.frames) /\ i \notin D
    BY <1>3
  <1> HIDE DEF D
  <1>6. ASSUME NEW j \in D
        PROVE  (j <= i /\ \A k \in j + 1 .. i : c.frames[k].opcode # "Binary")
                 <=> (j <= i - 1 /\ \A k \in j + 1 .. i - 1 : c.frames[k].opcode # "Binary")
    BY <1>2, <1>4, <1>5
  <1>7. Message(c, i) = Message(c, i - 1)
    BY <1>6, Zenon DEF Message, D
  <1>8. ASSUME NEW j \in D
        PROVE  (j < i + 1 /\ \A k \in j + 1 .. (i + 1) - 1 : k \notin D)
                 <=> (j < i /\ \A k \in j + 1 .. i - 1 : k \notin D)
    BY <1>2, <1>5
  <1>9. Open(c, i + 1) <=> Open(c, i)
    BY <1>8, Zenon DEF Open, D
  <1> QED
    BY <1>3, <1>7, <1>9, Zenon

\* A binary frame starts a message.
LEMMA BinaryStarts ==
    ASSUME NEW c \in Clients, NEW i \in 1 .. Len(c.frames), c.frames[i].opcode = "Binary"
    PROVE  /\ i \in Data(c) /\ ~IsControlOpcode(c.frames[i])
           /\ Message(c, i) = {i}
           /\ Open(c, i + 1) <=> ~c.frames[i].fin
  <1>1. c.frames \in Seq(Headers)
    BY DecoderAssumption, Zenon
  <1>2. Len(c.frames) \in Nat /\ DOMAIN c.frames = 1 .. Len(c.frames)
    BY <1>1, LenProperties, Zenon
  <1>3. ~IsControlOpcode(c.frames[i])
    BY DEF IsControlOpcode
  <1>4. i \in Data(c) /\ Data(c) \subseteq 1 .. Len(c.frames)
    BY <1>2, <1>3, Zenon DEF Data
  <1> DEFINE D == Data(c)
  <1>5. D \subseteq 1 .. Len(c.frames) /\ i \in D
    BY <1>4
  <1> HIDE DEF D
  <1>6. ASSUME NEW j \in D
        PROVE  (j <= i /\ \A k \in j + 1 .. i : c.frames[k].opcode # "Binary") <=> j = i
    BY <1>2, <1>5
  <1>7. Message(c, i) = {i}
    BY <1>5, <1>6, Zenon DEF Message, D
  <1>8. ASSUME NEW j \in D
        PROVE  (j < i + 1 /\ \A k \in j + 1 .. (i + 1) - 1 : k \notin D) <=> j = i
    BY <1>2, <1>5
  <1>9. Open(c, i + 1) <=> ~c.frames[i].fin
    BY <1>5, <1>8, Zenon DEF Open, D
  <1> QED
    BY <1>3, <1>4, <1>7, <1>9, Zenon

\* A continuation joins the message before it.
LEMMA ContinuationJoins ==
    ASSUME NEW c \in Clients, NEW i \in 1 .. Len(c.frames), c.frames[i].opcode = "Continuation"
    PROVE  /\ i \in Data(c) /\ ~IsControlOpcode(c.frames[i])
           /\ Message(c, i) = Message(c, i - 1) \cup {i}
           /\ Open(c, i + 1) <=> ~c.frames[i].fin
  <1>1. c.frames \in Seq(Headers)
    BY DecoderAssumption, Zenon
  <1>2. Len(c.frames) \in Nat /\ DOMAIN c.frames = 1 .. Len(c.frames)
    BY <1>1, LenProperties, Zenon
  <1>3. ~IsControlOpcode(c.frames[i]) /\ c.frames[i].opcode # "Binary"
    BY DEF IsControlOpcode
  <1>4. i \in Data(c) /\ Data(c) \subseteq 1 .. Len(c.frames)
    BY <1>2, <1>3, Zenon DEF Data
  <1> DEFINE D == Data(c)
  <1>5. D \subseteq 1 .. Len(c.frames) /\ i \in D
    BY <1>4
  <1> HIDE DEF D
  <1>6. ASSUME NEW j \in D
        PROVE  (j <= i /\ \A k \in j + 1 .. i : c.frames[k].opcode # "Binary")
                 <=> \/ j = i
                     \/ j <= i - 1 /\ \A k \in j + 1 .. i - 1 : c.frames[k].opcode # "Binary"
    BY <1>2, <1>3, <1>5
  <1>7. Message(c, i) = Message(c, i - 1) \cup {i}
    BY <1>5, <1>6, Zenon DEF Message, D
  <1>8. ASSUME NEW j \in D
        PROVE  (j < i + 1 /\ \A k \in j + 1 .. (i + 1) - 1 : k \notin D) <=> j = i
    BY <1>2, <1>5
  <1>9. Open(c, i + 1) <=> ~c.frames[i].fin
    BY <1>5, <1>8, Zenon DEF Open, D
  <1> QED
    BY <1>3, <1>4, <1>7, <1>9, Zenon

-----------------------------------------------------------------------------
\* What Good asks of a header.
GoodHeader(f) ==
    /\ ~f.rsv /\ f.masked = RequireMasking /\ ~f.high
    /\ f.form = (IF f.length <= 125 THEN 7 ELSE IF f.length <= 65535 THEN 16 ELSE 64)
    /\ f.length <= MessageLimit
    /\ IsControlOpcode(f) => f.fin /\ f.length <= 125

\* A frame that Next takes has a good header, and is there as a whole.
LEMMA TakenHeader ==
    ASSUME NEW f \in Headers, got \in Nat, consumed \in Nat, Parse(f) = "EventReady"
    PROVE  GoodHeader(f) /\ Available >= Size(f)
  <1>1. Available \in Int
    BY DEF Available
  <1>2. /\ LengthEnd(f) \in Nat /\ Size(f) \in Nat /\ LengthEnd(f) <= Size(f)
        /\ f.length \in Nat
    BY HeaderFields
  <1>3. MessageLimit \in Nat
    BY DecoderAssumption, Zenon
  <1>4. ~BadHeader(f) /\ f.length <= MessageLimit /\ Available >= Size(f)
    <2>1. ~BadHeader(f) /\ ~(f.length > MessageLimit) /\ ~(Available < Size(f))
      BY Zenon DEF Parse
    <2> QED
      BY <2>1, <1>1, <1>2, <1>3
  <1>5. Available >= LengthEnd(f)
    BY <1>1, <1>2, <1>4
  <1>6. /\ ~f.rsv /\ f.masked = RequireMasking
        /\ ~(f.form = 16 /\ f.length < 126)
        /\ ~(f.form = 64 /\ (f.high \/ f.length < 65536))
        /\ ~(IsControlOpcode(f) /\ (~f.fin \/ f.length > 125))
    BY <1>4, <1>5 DEF BadHeader
  <1> QED
    BY <1>4, <1>6, HeaderFields DEF GoodHeader

\* Where Next stops, the frame is bad or not whole.
LEMMA StoppedHeader ==
    ASSUME NEW f \in Headers, got \in Nat, consumed \in Nat
    PROVE  /\ Parse(f) \in {"ProtocolError", "MessageTooLarge"} => ~IsKnownOpcode(f) \/ ~GoodHeader(f)
           /\ Parse(f) = "NeedMoreData" => Available < Size(f)
           /\ Parse(f) \in {"NeedMoreData", "EventReady", "ProtocolError", "MessageTooLarge"}
  <1>1. Available \in Int
    BY DEF Available
  <1>2. /\ LengthEnd(f) \in Nat /\ Size(f) \in Nat /\ LengthEnd(f) <= Size(f)
        /\ 2 <= LengthEnd(f) /\ f.length \in Nat
    BY HeaderFields
  <1>3. MessageLimit \in Nat
    BY DecoderAssumption, Zenon
  <1>4. BadHeader(f) => ~IsKnownOpcode(f) \/ ~GoodHeader(f)
    BY <1>2, HeaderFields DEF BadHeader, GoodHeader
  <1>5. f.length > MessageLimit => ~GoodHeader(f)
    <2>1. f.length > MessageLimit => ~(f.length <= MessageLimit)
      BY <1>2, <1>3
    <2> QED
      BY <2>1 DEF GoodHeader
  <1>6. (Available < 2 \/ Available < LengthEnd(f)) => Available < Size(f)
    BY <1>1, <1>2
  <1> QED
    BY <1>4, <1>5, <1>6, Zenon DEF Parse

\* A control frame with a good header is good.
LEMMA GoodControl ==
    ASSUME NEW c \in Clients, NEW i \in 1 .. Len(c.frames),
           c.frames[i].opcode \in {"Ping", "Pong", "Close"},
           GoodHeader(c.frames[i]),
           c.frames[i].opcode = "Close" => c.frames[i].valid /\ c.frames[i].length # 1
    PROVE  Good(c, i)
  <1>1. IsControlOpcode(c.frames[i])
    BY Zenon DEF IsControlOpcode
  <1>2. i \notin Data(c)
    BY <1>1, ControlKeeps, Zenon
  <1>3. c.frames[i].opcode \in {"Continuation", "Binary", "Close", "Ping", "Pong"}
    OBVIOUS
  <1> QED
    BY <1>2, <1>3, SMT DEF Good, GoodHeader

\* A data frame with a good header is good if it may follow what came before, and
\* the message that starts at frame j is not too large.
LEMMA GoodData ==
    ASSUME NEW c \in Clients, NEW i \in 1 .. Len(c.frames),
           c.frames[i].opcode \in {"Continuation", "Binary"},
           GoodHeader(c.frames[i]),
           Open(c, i) <=> c.frames[i].opcode = "Continuation",
           \A j \in Message(c, i) :
               c.frames[j].opcode = "Binary" => c.data[i] - c.data[j - 1] <= MessageLimit
    PROVE  Good(c, i)
  <1>3. c.frames[i].opcode \in {"Continuation", "Binary", "Close", "Ping", "Pong"}
    OBVIOUS
  <1>4. c.frames[i].opcode # "Close"
    OBVIOUS
  <1> QED
    BY <1>3, <1>4, SMT DEF Good, GoodHeader

\* What a good frame is.
LEMMA GoodParts ==
    ASSUME NEW c, NEW i, Good(c, i)
    PROVE  /\ GoodHeader(c.frames[i]) /\ IsKnownOpcode(c.frames[i])
           /\ i \in Data(c) =>
                  /\ Open(c, i) <=> c.frames[i].opcode = "Continuation"
                  /\ \A j \in Message(c, i) :
                         c.frames[j].opcode = "Binary" => c.data[i] - c.data[j - 1] <= MessageLimit
  <1>1. /\ GoodHeader(c.frames[i])
        /\ i \in Data(c) =>
               /\ Open(c, i) <=> c.frames[i].opcode = "Continuation"
               /\ \A j \in Message(c, i) :
                      c.frames[j].opcode = "Binary" => c.data[i] - c.data[j - 1] <= MessageLimit
    BY SMT DEF Good, GoodHeader
  <1>2. c.frames[i].opcode \in {"Continuation", "Binary", "Close", "Ping", "Pong"}
    BY SMT DEF Good
  <1> QED
    BY <1>1, <1>2, SMT DEF IsKnownOpcode, IsControlOpcode

-----------------------------------------------------------------------------
\* What Next returns of an event.
Event == [type : {"Binary", "Close", "Ping", "Pong"}, frames : Seq(Nat)]

\* Every frame is reported: the next one, if it is final, by the next event.
LEMMA ReportsFinal ==
    ASSUME NEW c, NEW k \in Nat, NEW es \in Seq(Event), NEW e \in Event,
           AllReported(c, k, es), Final(e) = k + 1, c.frames[k + 1].fin
    PROVE  AllReported(c, k + 1, Append(es, e))
  <1> DEFINE t == Append(es, e)
  <1>1. Len(es) \in Nat /\ DOMAIN es = 1 .. Len(es)
    BY LenProperties, Zenon
  <1>2. /\ t \in Seq(Event) /\ Len(t) = Len(es) + 1
        /\ \A n \in 1 .. Len(es) : t[n] = es[n]
        /\ t[Len(es) + 1] = e
    BY AppendProperties, ZenonT(30)
  <1>3. DOMAIN t = 1 .. Len(es) + 1
    BY <1>2, LenProperties, Zenon
  <1> HIDE DEF t
  <1> DEFINE L(n) == Final(t[n])
  <1> DEFINE final(i) == c.frames[i].fin
  <1>4. {Final(es[n]) : n \in DOMAIN es} = {i \in 1 .. k : final(i)}
    BY Zenon DEF AllReported
  <1>5. \A n \in 1 .. Len(es) : L(n) = Final(es[n])
    BY <1>2, Zenon
  <1>6. L(Len(es) + 1) = k + 1 /\ final(k + 1)
    BY <1>2, Zenon
  <1>7. \A m, n \in 1 .. Len(es) : m < n => L(m) < L(n)
    <2>1. \A m, n \in DOMAIN es : m < n => Final(es[m]) < Final(es[n])
      BY Zenon DEF AllReported, Increasing
    <2> QED
      BY <2>1, <1>1, <1>5, Zenon
  <1>8. \A n \in 1 .. Len(es) : L(n) \in 1 .. k /\ final(L(n))
    BY <1>1, <1>4, <1>5, Zenon
  <1>9. \A i \in 1 .. k : final(i) => \E n \in 1 .. Len(es) : L(n) = i
    BY <1>1, <1>4, <1>5, Zenon
  <1> HIDE DEF L, final
  <1>10. \A m, n \in 1 .. Len(es) + 1 : m < n => L(m) < L(n)
    BY <1>1, <1>6, <1>7, <1>8
  <1>11. \A n \in 1 .. Len(es) + 1 : L(n) \in 1 .. k + 1 /\ final(L(n))
    BY <1>1, <1>6, <1>8
  <1>12. \A i \in 1 .. k + 1 : final(i) => \E n \in 1 .. Len(es) + 1 : L(n) = i
    BY <1>1, <1>6, <1>9
  <1>13. {L(n) : n \in DOMAIN t} = {i \in 1 .. k + 1 : final(i)}
    BY <1>3, <1>11, <1>12, Zenon
  <1>14. Increasing([n \in DOMAIN t |-> L(n)])
    BY <1>3, <1>10, Zenon DEF Increasing
  <1> QED
    BY <1>13, <1>14, Zenon DEF AllReported, L, final, t

\* A frame that is not final is no event.
LEMMA ReportsNothing ==
    ASSUME NEW c, NEW k \in Nat, NEW es, AllReported(c, k, es), ~c.frames[k + 1].fin
    PROVE  AllReported(c, k + 1, es)
  <1> DEFINE final(i) == c.frames[i].fin
  <1>1. ~final(k + 1)
    BY Zenon
  <1> HIDE DEF final
  <1>2. {i \in 1 .. k + 1 : final(i)} = {i \in 1 .. k : final(i)}
    <2>1. \A i : i \in 1 .. k + 1 <=> i \in 1 .. k \/ i = k + 1
      OBVIOUS
    <2> QED
      BY <2>1, <1>1, Zenon
  <1> QED
    BY <1>2, Zenon DEF AllReported, final

\* An event of one frame.
LEMMA SingleFaithful ==
    ASSUME NEW c, NEW i \in Nat, NEW type \in {"Binary", "Close", "Ping", "Pong"},
           \/ i \in Data(c) /\ Message(c, i) = {i} /\ type = "Binary"
           \/ i \notin Data(c) /\ type = c.frames[i].opcode
    PROVE  LET e == [type |-> type, frames |-> <<i>>]
           IN  e \in Event /\ Faithful(c, e) /\ Final(e) = i
  <1> DEFINE e == [type |-> type, frames |-> <<i>>]
  <1>1. /\ e \in Event /\ e.type = type /\ e.frames = <<i>>
    BY DEF Event
  <1>2. Len(<<i>>) = 1 /\ <<i>>[1] = i /\ DOMAIN <<i>> = {1} /\ <<i>> # <<>>
    OBVIOUS
  <1> HIDE DEF e
  <1>3. Final(e) = i
    BY <1>1, <1>2, Zenon DEF Final
  <1>4. Increasing(<<i>>)
    <2>1. ~(1 < 1)
      OBVIOUS
    <2> QED
      BY <2>1, <1>2, Zenon DEF Increasing
  <1>5. {<<i>>[n] : n \in DOMAIN <<i>>} = {i}
    BY <1>2, Zenon
  <1>6. Faithful(c, e)
    BY <1>1, <1>2, <1>3, <1>4, <1>5, Zenon DEF Faithful
  <1> QED
    BY <1>1, <1>3, <1>6, Zenon DEF e

\* A sequence in order, and a larger number behind it.
LEMMA IncreasingAppend ==
    ASSUME NEW s \in Seq(Nat), NEW i \in Nat, Increasing(s), \A n \in DOMAIN s : s[n] < i
    PROVE  /\ Append(s, i) \in Seq(Nat) /\ Append(s, i) # <<>>
           /\ Increasing(Append(s, i))
           /\ {Append(s, i)[n] : n \in DOMAIN Append(s, i)} = {s[n] : n \in DOMAIN s} \cup {i}
           /\ Append(s, i)[Len(Append(s, i))] = i
           /\ s # <<>> => Append(s, i)[1] = s[1]
  <1> DEFINE t == Append(s, i)
  <1>1. Len(s) \in Nat /\ DOMAIN s = 1 .. Len(s)
    BY LenProperties, Zenon
  <1>2. /\ t \in Seq(Nat) /\ Len(t) = Len(s) + 1 /\ t # <<>>
        /\ \A n \in 1 .. Len(s) : t[n] = s[n]
        /\ t[Len(s) + 1] = i
    OBVIOUS
  <1>3. DOMAIN t = 1 .. Len(s) + 1
    BY <1>2, LenProperties, Zenon
  <1> HIDE DEF t
  <1>4. \A n \in 1 .. Len(s) : s[n] < i /\ s[n] \in Nat
    BY <1>1, ElementOfSeq
  <1>5. \A m, n \in 1 .. Len(s) : m < n => t[m] < t[n]
    BY <1>1, <1>2, Zenon DEF Increasing
  <1>6. \A m, n \in 1 .. Len(s) + 1 : m < n => t[m] < t[n]
    BY <1>1, <1>2, <1>4, <1>5
  <1>7. \A n : n \in 1 .. Len(s) + 1 <=> n \in 1 .. Len(s) \/ n = Len(s) + 1
    BY <1>1
  <1>8. {t[n] : n \in DOMAIN t} = {s[n] : n \in DOMAIN s} \cup {i}
    BY <1>1, <1>2, <1>3, <1>7, Zenon
  <1>9. ASSUME s # <<>> PROVE t[1] = s[1]
    <2>1. Len(s) # 0
      BY <1>9, EmptySeq
    <2>2. 1 \in 1 .. Len(s)
      BY <2>1, <1>1
    <2> QED
      BY <2>2, <1>2, Zenon
  <1> QED
    BY <1>2, <1>3, <1>6, <1>8, <1>9, Zenon DEF Increasing, t

\* The frames of a message that is whole are an event.
LEMMA WholeFaithful ==
    ASSUME NEW c \in Clients, NEW i \in 1 .. Len(c.frames), NEW s \in Seq(Nat),
           c.frames[i].opcode = "Continuation", Increasing(s),
           {s[n] : n \in DOMAIN s} = Message(c, i - 1)
    PROVE  LET whole == Append(s, i)
               e == [type |-> "Binary", frames |-> whole]
           IN  /\ whole \in Seq(Nat) /\ whole # <<>> /\ Increasing(whole)
               /\ {whole[n] : n \in DOMAIN whole} = Message(c, i)
               /\ s # <<>> => whole[1] = s[1]
               /\ e \in Event /\ Faithful(c, e) /\ Final(e) = i
  <1> DEFINE whole == Append(s, i)
             e == [type |-> "Binary", frames |-> whole]
  <1>1. \A n \in DOMAIN s : s[n] < i
    <2>1. \A j \in Message(c, i - 1) : j <= i - 1
      BY Zenon DEF Message
    <2>2. \A n \in DOMAIN s : s[n] \in Nat
      OBVIOUS
    <2>3. \A n \in DOMAIN s : s[n] <= i - 1
      BY <2>1, Zenon
    <2> QED
      BY <2>2, <2>3
  <1>2. i \in Nat
    OBVIOUS
  <1>3. /\ whole \in Seq(Nat) /\ whole # <<>> /\ Increasing(whole)
        /\ {whole[n] : n \in DOMAIN whole} = Message(c, i - 1) \cup {i}
        /\ whole[Len(whole)] = i /\ (s # <<>> => whole[1] = s[1])
    BY <1>1, <1>2, IncreasingAppend, Zenon
  <1> HIDE DEF whole
  <1>4. Message(c, i) = Message(c, i - 1) \cup {i} /\ i \in Data(c)
    BY ContinuationJoins, Zenon
  <1>5. e \in Event /\ e.type = "Binary" /\ e.frames = whole
    BY <1>3 DEF Event
  <1> HIDE DEF e
  <1>6. Final(e) = i
    BY <1>3, <1>5, Zenon DEF Final
  <1>7. Faithful(c, e)
    BY <1>3, <1>4, <1>5, <1>6, ZenonT(30) DEF Faithful
  <1> QED
    BY <1>3, <1>4, <1>5, <1>6, <1>7, Zenon DEF e, whole

-----------------------------------------------------------------------------
\* What Next and Append return.
Verdicts == {"NeedMoreData", "EventReady", "ProtocolError", "MessageTooLarge",
             "BufferLimitExceeded", "Closing"}

\* What the fragments are after k frames: if a message is open, all its frames, in
\* order, from its binary frame on, and held the bytes of their payload.
Assembled(c, k, s, n) ==
    /\ s = <<>> => n = 0 /\ ~Open(c, k + 1)
    /\ s # <<>> =>
           /\ Open(c, k + 1) /\ Increasing(s)
           /\ {s[m] : m \in DOMAIN s} = Message(c, k)
           /\ c.frames[s[1]].opcode = "Binary"
           /\ n = c.data[k] - c.data[s[1] - 1] /\ n <= MessageLimit

\* The inductive invariant of the decoder.
DecoderInv ==
    /\ client \in Clients /\ got \in Nat /\ consumed \in Nat /\ taken \in Nat
    /\ held \in Nat /\ fragments \in Seq(Nat) /\ events \in Seq(Event)
    /\ verdict \in Verdicts
    /\ taken <= Len(client.frames) /\ consumed <= got /\ Available <= BufferLimit
    /\ verdict \in {"NeedMoreData", "EventReady"} => consumed = client.ends[taken]
    /\ Assembled(client, taken, fragments, held)
    /\ FramesDecoded

\* What is known of a frame that Next takes.
LEMMA Taken ==
    ASSUME DecoderInv, NEW opcodes, Take(opcodes)
    PROVE  /\ taken + 1 \in 1 .. Len(client.frames) /\ taken + 1 \in Nat
           /\ Frame = client.frames[taken + 1] /\ Frame \in Headers
           /\ Frame.opcode \in opcodes /\ GoodHeader(Frame)
           /\ consumed' = client.ends[taken + 1]
           /\ consumed' \in Nat /\ consumed' <= got /\ Available' <= BufferLimit
           /\ client' = client /\ got' = got
           /\ (taken + 1) - 1 = taken
  <1>1. /\ client \in Clients /\ got \in Nat /\ consumed \in Nat /\ taken \in Nat
        /\ consumed <= got /\ Available <= BufferLimit
    BY Zenon DEF DecoderInv
  <1>2. /\ verdict = "EventReady" /\ taken < Len(client.frames) /\ Frame.opcode \in opcodes
        /\ Parse(Frame) = "EventReady" /\ consumed' = consumed + Size(Frame)
        /\ client' = client /\ got' = got
    BY Zenon DEF Take
  <1>3. consumed = client.ends[taken]
    BY <1>2 DEF DecoderInv
  <1>4. client.frames \in Seq(Headers) /\ BufferLimit \in Nat
    BY <1>1, DecoderAssumption, Zenon
  <1>5. Len(client.frames) \in Nat
    BY <1>4, LenProperties, Zenon
  <1>6. taken + 1 \in 1 .. Len(client.frames) /\ (taken + 1) - 1 = taken /\ taken + 1 \in Nat
    BY <1>1, <1>2, <1>5
  <1>7. Frame = client.frames[taken + 1]
    BY Zenon DEF Frame
  <1>8. Frame \in Headers /\ client.ends[taken + 1] = client.ends[taken] + Size(Frame)
    BY <1>1, <1>6, <1>7, ClientFrame, Zenon
  <1>9. GoodHeader(Frame) /\ Available >= Size(Frame)
    BY <1>1, <1>2, <1>8, TakenHeader, Zenon
  <1>10. Size(Frame) \in Nat
    BY <1>8, HeaderFields
  <1>11. consumed' \in Nat /\ consumed' <= got /\ Available' <= BufferLimit
    BY <1>1, <1>2, <1>4, <1>9, <1>10 DEF Available
  <1> QED
    BY <1>2, <1>3, <1>6, <1>7, <1>8, <1>9, <1>11, Zenon

\* A frame that is refused.
LEMMA Refused ==
    ASSUME DecoderInv, NEW opcodes, Take(opcodes), NEW error \in {"ProtocolError", "MessageTooLarge"},
           Fail(error), ~Good(client, taken + 1)
    PROVE  DecoderInv'
  <1>1. /\ taken + 1 \in 1 .. Len(client.frames)
        /\ consumed' \in Nat /\ consumed' <= got /\ Available' <= BufferLimit
        /\ client' = client /\ got' = got
    BY Taken, Zenon
  <1>2. /\ verdict' = error /\ taken' = taken /\ fragments' = fragments /\ held' = held
        /\ events' = events
    BY Zenon DEF Fail
  <1>3. /\ verdict' \in Verdicts /\ verdict' # "NeedMoreData" /\ verdict' # "EventReady"
    BY <1>2 DEF Verdicts
  <1>4. taken < Len(client.frames)
    <2>1. client.frames \in Seq(Headers) /\ taken \in Nat
      BY DecoderAssumption, Zenon DEF DecoderInv
    <2> QED
      BY <1>1, <2>1
  <1>5. FramesDecoded'
    BY <1>1, <1>2, <1>3, <1>4, Zenon DEF DecoderInv, FramesDecoded
  <1> QED
    BY <1>1, <1>2, <1>3, <1>5, Zenon DEF DecoderInv

\* A frame that is accepted.
LEMMA Accepted ==
    ASSUME DecoderInv, NEW opcodes, Take(opcodes),
           taken' = taken + 1, verdict' \in {"EventReady", "Closing"},
           Good(client, taken + 1),
           held' \in Nat, fragments' \in Seq(Nat),
           Assembled(client, taken + 1, fragments', held'),
           events' \in Seq(Event),
           \A n \in DOMAIN events' : Faithful(client, events'[n]),
           AllReported(client, taken + 1, events')
    PROVE  DecoderInv'
  <1>1. /\ taken + 1 \in 1 .. Len(client.frames) /\ taken + 1 \in Nat
        /\ consumed' = client.ends[taken + 1]
        /\ consumed' \in Nat /\ consumed' <= got /\ Available' <= BufferLimit
        /\ client' = client /\ got' = got
    BY Taken, Zenon
  <1>2. /\ verdict' \in Verdicts /\ verdict' # "NeedMoreData"
        /\ verdict' \notin {"ProtocolError", "MessageTooLarge"}
    BY DEF Verdicts
  <1>3. taken' <= Len(client'.frames)
    <2>1. client.frames \in Seq(Headers)
      BY DecoderAssumption, Zenon DEF DecoderInv
    <2> QED
      BY <1>1, <2>1
  <1>4. \A i \in 1 .. taken' : Good(client, i)
    <2>1. taken \in Nat /\ \A i \in 1 .. taken : Good(client, i)
      BY Zenon DEF DecoderInv, FramesDecoded
    <2>2. \A i \in 1 .. taken + 1 : i \in 1 .. taken \/ i = taken + 1
      BY <2>1
    <2> QED
      BY <2>1, <2>2, Zenon
  <1>5. FramesDecoded'
    BY <1>1, <1>2, <1>4, Zenon DEF FramesDecoded
  <1> QED
    BY <1>1, <1>2, <1>3, <1>5, Zenon DEF DecoderInv

\* A final frame becomes an event.
LEMMA Emitted ==
    ASSUME DecoderInv, NEW e, events' = Append(events, e), e \in Event,
           Faithful(client, e), Final(e) = taken + 1, client.frames[taken + 1].fin
    PROVE  /\ events' \in Seq(Event)
           /\ \A n \in DOMAIN events' : Faithful(client, events'[n])
           /\ AllReported(client, taken + 1, events')
  <1>1. /\ events \in Seq(Event) /\ taken \in Nat /\ AllReported(client, taken, events)
        /\ \A n \in DOMAIN events : Faithful(client, events[n])
    BY Zenon DEF DecoderInv, FramesDecoded
  <1>2. AllReported(client, taken + 1, events')
    BY <1>1, ReportsFinal, Zenon
  <1>3. /\ events' \in Seq(Event) /\ Len(events') = Len(events) + 1
        /\ \A n \in 1 .. Len(events) : events'[n] = events[n]
        /\ events'[Len(events) + 1] = e
    <2> DEFINE t == Append(events, e)
    <2>1. /\ t \in Seq(Event) /\ Len(t) = Len(events) + 1
          /\ \A n \in 1 .. Len(events) : t[n] = events[n]
          /\ t[Len(events) + 1] = e
      BY <1>1, AppendProperties, ZenonT(30)
    <2> HIDE DEF t
    <2>2. events' = t
      BY Zenon DEF t
    <2> QED
      BY <2>1, <2>2, Zenon
  <1>4. /\ Len(events) \in Nat /\ DOMAIN events = 1 .. Len(events)
        /\ DOMAIN events' = 1 .. Len(events')
    BY <1>1, <1>3, LenProperties, Zenon
  <1>5. \A n \in 1 .. Len(events) + 1 : n \in 1 .. Len(events) \/ n = Len(events) + 1
    BY <1>4
  <1> QED
    BY <1>1, <1>2, <1>3, <1>4, <1>5, Zenon

\* A frame that is not final becomes none.
LEMMA NotEmitted ==
    ASSUME DecoderInv, events' = events, ~client.frames[taken + 1].fin
    PROVE  /\ events' \in Seq(Event)
           /\ \A n \in DOMAIN events' : Faithful(client, events'[n])
           /\ AllReported(client, taken + 1, events')
  <1>1. /\ events \in Seq(Event) /\ taken \in Nat /\ AllReported(client, taken, events)
        /\ \A n \in DOMAIN events : Faithful(client, events[n])
    BY Zenon DEF DecoderInv, FramesDecoded
  <1>2. AllReported(client, taken + 1, events)
    BY <1>1, ReportsNothing, Zenon
  <1> QED
    BY <1>1, <1>2, Zenon

\* A control frame that is good: an event of its own.
LEMMA ControlStep ==
    ASSUME DecoderInv, Take({"Ping", "Pong", "Close"}), Good(client, taken + 1),
           taken' = taken + 1, verdict' \in {"EventReady", "Closing"},
           Emit(Frame.opcode, <<taken + 1>>), UNCHANGED <<fragments, held>>
    PROVE  DecoderInv'
  <1> DEFINE i == taken + 1
             e == [type |-> Frame.opcode, frames |-> <<i>>]
  <1>1. /\ i \in 1 .. Len(client.frames) /\ i \in Nat /\ i - 1 = taken
        /\ Frame = client.frames[i] /\ Frame \in Headers
        /\ Frame.opcode \in {"Ping", "Pong", "Close"} /\ GoodHeader(Frame)
    BY Taken, Zenon
  <1>2. client \in Clients /\ taken \in Nat
    BY Zenon DEF DecoderInv
  <1>3. IsControlOpcode(Frame) /\ Frame.fin
    BY <1>1 DEF IsControlOpcode, GoodHeader
  <1>4. Frame.opcode \in {"Binary", "Close", "Ping", "Pong"}
    BY <1>1
  <1>5. /\ i \notin Data(client) /\ Message(client, i) = Message(client, i - 1)
        /\ Open(client, i + 1) <=> Open(client, i)
    BY <1>1, <1>2, <1>3, ControlKeeps, Zenon
  <1>6. client.data[i] = client.data[i - 1]
    BY <1>1, <1>2, <1>3, ClientFrame, Zenon
  <1>7. e \in Event /\ Faithful(client, e) /\ Final(e) = i
    BY <1>1, <1>4, <1>5, SingleFaithful, Zenon
  <1>8. events' = Append(events, e)
    BY Zenon DEF Emit
  <1>9. /\ events' \in Seq(Event)
        /\ \A n \in DOMAIN events' : Faithful(client, events'[n])
        /\ AllReported(client, i, events')
    <2> HIDE DEF e
    <2> QED
      BY <1>1, <1>3, <1>7, <1>8, Emitted, Zenon
  <1>10. fragments' = fragments /\ held' = held /\ held \in Nat /\ fragments \in Seq(Nat)
    BY Zenon DEF DecoderInv
  <1>11. Assembled(client, i, fragments', held')
    <2>1. Assembled(client, taken, fragments, held)
      BY Zenon DEF DecoderInv
    <2> HIDE DEF e
    <2> QED
      BY <2>1, <1>1, <1>5, <1>6, <1>10, Zenon DEF Assembled
  <1> QED
    BY <1>9, <1>10, <1>11, Accepted, Zenon

\* A ping or pong is reported and leaves the message it interrupts alone.
LEMMA PingPongStep == DecoderInv /\ TakePingPong => DecoderInv'
  <1> SUFFICES ASSUME DecoderInv, TakePingPong PROVE DecoderInv'
    OBVIOUS
  <1>1. /\ Take({"Ping", "Pong"}) /\ taken' = taken + 1 /\ verdict' = verdict
        /\ Emit(Frame.opcode, <<taken + 1>>) /\ UNCHANGED <<fragments, held>>
    BY Zenon DEF TakePingPong, Accept
  <1>2. Take({"Ping", "Pong", "Close"}) /\ verdict = "EventReady"
    BY <1>1, Zenon DEF Take
  <1>3. /\ taken + 1 \in 1 .. Len(client.frames) /\ Frame = client.frames[taken + 1]
        /\ Frame.opcode \in {"Ping", "Pong"} /\ GoodHeader(Frame)
    BY <1>1, Taken, Zenon
  <1>4. Frame.opcode \in {"Ping", "Pong", "Close"} /\ Frame.opcode # "Close"
    BY <1>3
  <1>5. Good(client, taken + 1)
    <2>1. client \in Clients
      BY Zenon DEF DecoderInv
    <2> QED
      BY <2>1, <1>3, <1>4, GoodControl, Zenon
  <1> QED
    BY <1>1, <1>2, <1>5, ControlStep, Zenon

\* A close frame is refused or reported, and nothing after it is read.
LEMMA CloseStep == DecoderInv /\ TakeClose => DecoderInv'
  <1> SUFFICES ASSUME DecoderInv, TakeClose PROVE DecoderInv'
    OBVIOUS
  <1>1. Take({"Close"})
    BY Zenon DEF TakeClose
  <1>2. /\ taken + 1 \in 1 .. Len(client.frames) /\ Frame = client.frames[taken + 1]
        /\ Frame.opcode \in {"Close"} /\ GoodHeader(Frame) /\ client \in Clients
    BY <1>1, Taken, Zenon DEF DecoderInv
  <1>3. CASE (Frame.length = 1 \/ ~Frame.valid) /\ Fail("ProtocolError")
    <2>1. Frame.opcode = "Close" /\ (Frame.length = 1 \/ ~Frame.valid)
      BY <1>2, <1>3, Zenon
    <2>2. ~Good(client, taken + 1)
      BY <2>1, <1>2, SMT DEF Good
    <2> QED
      BY <2>2, <1>1, <1>3, Refused, Zenon
  <1>4. CASE /\ Frame.length # 1 /\ Frame.valid
             /\ taken' = taken + 1 /\ verdict' = "Closing"
             /\ Emit("Close", <<taken + 1>>)
             /\ UNCHANGED <<fragments, held>>
    <2>1. Take({"Ping", "Pong", "Close"})
      BY <1>1, Zenon DEF Take
    <2>2. Frame.opcode = "Close" /\ Frame.opcode \in {"Ping", "Pong", "Close"}
      BY <1>2, Zenon
    <2>3. Good(client, taken + 1)
      BY <1>2, <1>4, <2>2, GoodControl, Zenon
    <2> QED
      BY <1>4, <2>1, <2>2, <2>3, ControlStep, Zenon
  <1> QED
    BY <1>3, <1>4, Zenon DEF TakeClose

\* A text frame is refused, and is never good.
LEMMA TextStep == DecoderInv /\ TakeText => DecoderInv'
  <1> SUFFICES ASSUME DecoderInv, TakeText PROVE DecoderInv'
    OBVIOUS
  <1>1. Take({"Text"}) /\ Fail("ProtocolError")
    BY Zenon DEF TakeText
  <1>2. Frame = client.frames[taken + 1] /\ Frame.opcode \in {"Text"}
    BY <1>1, Taken, Zenon
  <1>3. ~Good(client, taken + 1)
    BY <1>2, SMT DEF Good
  <1> QED
    BY <1>1, <1>3, Refused, Zenon

\* The binary frame of the message that is open is the first of the fragments.
LEMMA OneStart ==
    ASSUME NEW c \in Clients, NEW i \in Nat, NEW j \in Message(c, i), NEW k \in Message(c, i),
           c.frames[j].opcode = "Binary", c.frames[k].opcode = "Binary"
    PROVE  j = k
  <1>1. c.frames \in Seq(Headers)
    BY DecoderAssumption, Zenon
  <1>2. Len(c.frames) \in Nat /\ DOMAIN c.frames = 1 .. Len(c.frames)
    BY <1>1, LenProperties, Zenon
  <1>3. /\ j \in DOMAIN c.frames /\ j <= i /\ \A m \in j + 1 .. i : c.frames[m].opcode # "Binary"
        /\ k \in DOMAIN c.frames /\ k <= i /\ \A m \in k + 1 .. i : c.frames[m].opcode # "Binary"
    BY Zenon DEF Message, Data
  <1> QED
    BY <1>2, <1>3

\* The fragments of an open message.
LEMMA OpenMessage ==
    ASSUME DecoderInv, fragments # <<>>
    PROVE  /\ Open(client, taken + 1) /\ Increasing(fragments)
           /\ {fragments[m] : m \in DOMAIN fragments} = Message(client, taken)
           /\ fragments[1] \in Message(client, taken) /\ fragments[1] \in 1 .. Len(client.frames)
           /\ client.frames[fragments[1]].opcode = "Binary"
           /\ held = client.data[taken] - client.data[fragments[1] - 1] /\ held <= MessageLimit
           /\ client.data[fragments[1] - 1] \in Nat
  <1>1. fragments \in Seq(Nat) /\ Assembled(client, taken, fragments, held) /\ client \in Clients
    BY Zenon DEF DecoderInv
  <1>2. 1 \in DOMAIN fragments
    <2>1. Len(fragments) # 0 /\ Len(fragments) \in Nat /\ DOMAIN fragments = 1 .. Len(fragments)
      BY <1>1, EmptySeq, LenProperties
    <2> QED
      BY <2>1
  <1>3. fragments[1] \in Message(client, taken)
    BY <1>1, <1>2, Zenon DEF Assembled
  <1>4. fragments[1] \in 1 .. Len(client.frames)
    <2>1. client.frames \in Seq(Headers)
      BY <1>1, DecoderAssumption, Zenon
    <2>2. DOMAIN client.frames = 1 .. Len(client.frames)
      BY <2>1, LenProperties, Zenon
    <2> QED
      BY <2>2, <1>3, Zenon DEF Message, Data
  <1>5. client.data[fragments[1] - 1] \in Nat
    BY <1>1, <1>4, ClientFrame, Zenon
  <1> QED
    BY <1>1, <1>3, <1>4, <1>5, Zenon DEF Assembled

\* A binary frame is a message, starts one, or is refused inside one.
LEMMA BinaryStep == DecoderInv /\ TakeBinary => DecoderInv'
  <1> SUFFICES ASSUME DecoderInv, TakeBinary PROVE DecoderInv'
    OBVIOUS
  <1> DEFINE i == taken + 1
  <1>1. Take({"Binary"}) /\ client \in Clients
    BY Zenon DEF TakeBinary, DecoderInv
  <1>2. /\ i \in 1 .. Len(client.frames) /\ i \in Nat /\ i - 1 = taken
        /\ Frame = client.frames[i] /\ Frame \in Headers
        /\ Frame.opcode \in {"Binary"} /\ GoodHeader(Frame)
    BY <1>1, Taken, Zenon
  <1>3. Frame.opcode = "Binary" /\ verdict = "EventReady"
    BY <1>1, <1>2, Zenon DEF Take
  <1>4. /\ i \in Data(client) /\ ~IsControlOpcode(Frame) /\ Message(client, i) = {i}
        /\ Open(client, i + 1) <=> ~Frame.fin
    BY <1>1, <1>2, <1>3, BinaryStarts, Zenon
  <1>5. CASE fragments # <<>> /\ Fail("ProtocolError")
    <2>1. Open(client, i)
      BY <1>5, OpenMessage, Zenon
    <2>2. Frame.opcode # "Continuation"
      BY <1>3
    <2>3. ~Good(client, i)
      BY <2>1, <2>2, <1>2, <1>4, GoodParts, Zenon
    <2> QED
      BY <2>3, <1>1, <1>5, Refused, Zenon
  <1>6. ASSUME fragments = <<>>, Accept
        PROVE  /\ Good(client, i) /\ held = 0
               /\ taken' = i /\ verdict' \in {"EventReady", "Closing"}
               /\ client.data[i] - client.data[i - 1] = Frame.length /\ Frame.length \in Nat
               /\ Frame.length <= MessageLimit
    <2>1. taken' = i /\ verdict' \in {"EventReady", "Closing"}
      BY <1>3, <1>6, Zenon DEF Accept
    <2>2. ~Open(client, i) /\ held = 0
      BY <1>6, Zenon DEF DecoderInv, Assembled
    <2>3. Frame.length \in Nat /\ Frame.length <= MessageLimit
      BY <1>2, HeaderFields DEF GoodHeader
    <2>4. /\ client.data[i] \in Nat /\ client.data[i - 1] \in Nat
          /\ client.data[i] = client.data[i - 1] + Frame.length
      BY <1>1, <1>2, <1>4, ClientFrame, Zenon
    <2>5. client.data[i] - client.data[i - 1] = Frame.length
      BY <2>3, <2>4
    <2>6. \A j \in Message(client, i) :
              client.frames[j].opcode = "Binary" => client.data[i] - client.data[j - 1] <= MessageLimit
      BY <1>4, <2>3, <2>5, Zenon
    <2>7. Open(client, i) <=> Frame.opcode = "Continuation"
      BY <1>3, <2>2
    <2>8. Frame.opcode \in {"Continuation", "Binary"}
      BY <1>3
    <2>9. Good(client, i)
      BY <1>1, <1>2, <2>6, <2>7, <2>8, GoodData, Zenon
    <2> QED
      BY <2>1, <2>2, <2>3, <2>5, <2>9, Zenon
  <1>7. CASE /\ fragments = <<>> /\ Frame.fin
             /\ Accept /\ Emit("Binary", <<taken + 1>>) /\ UNCHANGED <<fragments, held>>
    <2> DEFINE e == [type |-> "Binary", frames |-> <<i>>]
    <2>1. e \in Event /\ Faithful(client, e) /\ Final(e) = i
      BY <1>2, <1>4, SingleFaithful, Zenon
    <2>2. events' = Append(events, e)
      BY <1>7, Zenon DEF Emit
    <2>3. Frame.fin /\ client.frames[i].fin
      BY <1>2, <1>7, Zenon
    <2>4. /\ events' \in Seq(Event)
          /\ \A n \in DOMAIN events' : Faithful(client, events'[n])
          /\ AllReported(client, i, events')
      <3> HIDE DEF e
      <3> QED
        BY <2>1, <2>2, <2>3, Emitted, Zenon
    <2>5. /\ fragments' = <<>> /\ fragments' \in Seq(Nat) /\ held' = 0 /\ held' \in Nat
      BY <1>6, <1>7, Zenon DEF DecoderInv
    <2>6. Assembled(client, i, fragments', held')
      BY <2>3, <2>5, <1>4, Zenon DEF Assembled
    <2> QED
      BY <1>1, <1>6, <1>7, <2>4, <2>5, <2>6, Accepted, Zenon
  <1>8. CASE /\ fragments = <<>> /\ ~Frame.fin
             /\ Accept /\ fragments' = <<taken + 1>> /\ held' = Frame.length
             /\ UNCHANGED events
    <2>1. ~client.frames[i].fin
      BY <1>2, <1>8, Zenon
    <2>2. /\ events' \in Seq(Event)
          /\ \A n \in DOMAIN events' : Faithful(client, events'[n])
          /\ AllReported(client, i, events')
      BY <2>1, <1>8, NotEmitted, Zenon
    <2>3. /\ <<i>> \in Seq(Nat) /\ <<i>> # <<>> /\ <<i>>[1] = i /\ DOMAIN <<i>> = {1}
      BY <1>2
    <2>4. Increasing(<<i>>) /\ {<<i>>[m] : m \in DOMAIN <<i>>} = {i}
      <3>1. ~(1 < 1)
        OBVIOUS
      <3> QED
        BY <3>1, <2>3, Zenon DEF Increasing
    <2>5. fragments' = <<i>> /\ held' = Frame.length
      BY <1>8, Zenon
    <2>6. Assembled(client, i, <<i>>, Frame.length)
      BY <2>1, <2>3, <2>4, <1>2, <1>3, <1>4, <1>6, <1>8, Zenon DEF Assembled
    <2> QED
      BY <1>1, <1>6, <1>8, <2>2, <2>3, <2>5, <2>6, Accepted, Zenon
  <1> QED
    BY <1>5, <1>7, <1>8, Zenon DEF TakeBinary

\* A continuation adds to the open message, ends it, or is refused: there is none,
\* or it would grow too large.
LEMMA ContinuationStep == DecoderInv /\ TakeContinuation => DecoderInv'
  <1> SUFFICES ASSUME DecoderInv, TakeContinuation PROVE DecoderInv'
    OBVIOUS
  <1> DEFINE i == taken + 1
             whole == Append(fragments, i)
  <1>1. Take({"Continuation"}) /\ client \in Clients /\ held \in Nat /\ fragments \in Seq(Nat)
    BY Zenon DEF TakeContinuation, DecoderInv
  <1>2. /\ i \in 1 .. Len(client.frames) /\ i \in Nat /\ i - 1 = taken
        /\ Frame = client.frames[i] /\ Frame \in Headers
        /\ Frame.opcode \in {"Continuation"} /\ GoodHeader(Frame)
    BY <1>1, Taken, Zenon
  <1>3. Frame.opcode = "Continuation" /\ verdict = "EventReady"
    BY <1>1, <1>2, Zenon DEF Take
  <1>4. /\ i \in Data(client) /\ ~IsControlOpcode(Frame)
        /\ Message(client, i) = Message(client, i - 1) \cup {i}
        /\ Open(client, i + 1) <=> ~Frame.fin
    BY <1>1, <1>2, <1>3, ContinuationJoins, Zenon
  <1>5. MessageLimit \in Nat /\ Frame.length \in Nat
    BY <1>2, DecoderAssumption, HeaderFields
  <1>6. /\ client.data[i] \in Nat /\ client.data[i - 1] \in Nat
        /\ client.data[i] = client.data[i - 1] + Frame.length
    BY <1>1, <1>2, <1>4, ClientFrame, Zenon
  <1>7. CASE fragments = <<>> /\ Fail("ProtocolError")
    <2>1. ~Open(client, i)
      BY <1>7, Zenon DEF DecoderInv, Assembled
    <2>2. ~Good(client, i)
      BY <2>1, <1>2, <1>3, <1>4, GoodParts, Zenon
    <2> QED
      BY <2>2, <1>1, <1>7, Refused, Zenon
  <1>8. ASSUME fragments # <<>>
        PROVE  /\ Open(client, i) /\ Increasing(fragments)
               /\ {fragments[m] : m \in DOMAIN fragments} = Message(client, i - 1)
               /\ fragments[1] \in Message(client, i)
               /\ client.frames[fragments[1]].opcode = "Binary"
               /\ client.data[i] - client.data[fragments[1] - 1] = held + Frame.length
    <2>1. client.data[fragments[1] - 1] \in Nat /\ held = client.data[taken] - client.data[fragments[1] - 1]
      BY <1>8, OpenMessage, Zenon
    <2>2. client.data[i] - client.data[fragments[1] - 1] = held + Frame.length
      BY <2>1, <1>2, <1>5, <1>6
    <2> QED
      BY <2>2, <1>2, <1>4, <1>8, OpenMessage, Zenon
  <1>9. CASE fragments # <<>> /\ Frame.length > MessageLimit - held /\ Fail("MessageTooLarge")
    <2>1. ~(client.data[i] - client.data[fragments[1] - 1] <= MessageLimit)
      BY <1>1, <1>5, <1>8, <1>9
    <2>2. ~Good(client, i)
      BY <2>1, <1>4, <1>8, <1>9, GoodParts, Zenon
    <2> QED
      BY <2>2, <1>1, <1>9, Refused, Zenon
  <1>10. CASE /\ fragments # <<>> /\ Frame.length <= MessageLimit - held
              /\ Accept
              /\ \/ Frame.fin /\ Emit("Binary", whole) /\ fragments' = <<>> /\ held' = 0
                 \/ /\ ~Frame.fin /\ fragments' = whole /\ held' = held + Frame.length
                    /\ UNCHANGED events
    <2>1. taken' = i /\ verdict' \in {"EventReady", "Closing"}
      BY <1>3, <1>10, Zenon DEF Accept
    <2>2. client.data[i] - client.data[fragments[1] - 1] <= MessageLimit
      BY <1>1, <1>5, <1>8, <1>10
    <2>3. ASSUME NEW j \in Message(client, i), client.frames[j].opcode = "Binary"
          PROVE  client.data[i] - client.data[j - 1] <= MessageLimit
      <3>1. j = fragments[1]
        BY <2>3, <1>1, <1>2, <1>8, <1>10, OneStart, Zenon
      <3> QED
        BY <3>1, <2>2, Zenon
    <2>4. Good(client, i)
      <3>1. Open(client, i) <=> Frame.opcode = "Continuation"
        BY <1>3, <1>8, <1>10, Zenon
      <3>2. Frame.opcode \in {"Continuation", "Binary"}
        BY <1>3
      <3> QED
        BY <3>1, <3>2, <2>3, <1>1, <1>2, GoodData, Zenon
    <2> DEFINE e == [type |-> "Binary", frames |-> whole]
    <2>5. /\ whole \in Seq(Nat) /\ whole # <<>> /\ Increasing(whole)
          /\ {whole[n] : n \in DOMAIN whole} = Message(client, i)
          /\ whole[1] = fragments[1]
          /\ e \in Event /\ Faithful(client, e) /\ Final(e) = i
      BY <1>1, <1>2, <1>3, <1>8, <1>10, WholeFaithful, Zenon
    <2>6. CASE Frame.fin /\ Emit("Binary", whole) /\ fragments' = <<>> /\ held' = 0
      <3>1. events' = Append(events, e)
        BY <2>6, Zenon DEF Emit
      <3>2. Frame.fin /\ client.frames[i].fin
        BY <1>2, <2>6, Zenon
      <3>3. /\ events' \in Seq(Event)
            /\ \A n \in DOMAIN events' : Faithful(client, events'[n])
            /\ AllReported(client, i, events')
        <4> HIDE DEF e
        <4> QED
          BY <2>5, <3>1, <3>2, Emitted, Zenon
      <3>4. /\ fragments' = <<>> /\ fragments' \in Seq(Nat) /\ held' = 0 /\ held' \in Nat
        BY <2>6
      <3>5. Assembled(client, i, fragments', held')
        BY <3>2, <3>4, <1>4, Zenon DEF Assembled
      <3> QED
        BY <1>1, <2>1, <2>4, <3>3, <3>4, <3>5, Accepted, Zenon
    <2>7. CASE ~Frame.fin /\ fragments' = whole /\ held' = held + Frame.length /\ UNCHANGED events
      <3>1. ~client.frames[i].fin
        BY <1>2, <2>7, Zenon
      <3>2. /\ events' \in Seq(Event)
            /\ \A n \in DOMAIN events' : Faithful(client, events'[n])
            /\ AllReported(client, i, events')
        BY <3>1, <2>7, NotEmitted, Zenon
      <3>3. held + Frame.length \in Nat
        BY <1>1, <1>5
      <3>4. Assembled(client, i, whole, held + Frame.length)
        <4> HIDE DEF e, whole
        <4> QED
          BY <2>2, <2>5, <2>7, <1>4, <1>8, <1>10, Zenon DEF Assembled
      <3> QED
        <4> HIDE DEF e, whole
        <4> QED
          BY <1>1, <2>1, <2>4, <2>5, <2>7, <3>2, <3>3, <3>4, Accepted, Zenon
    <2> QED
      BY <1>10, <2>6, <2>7, Zenon
  <1> QED
    BY <1>7, <1>9, <1>10, Zenon DEF TakeContinuation

\* Next returns without a frame.
LEMMA StopStep == DecoderInv /\ NextStops => DecoderInv'
  <1> SUFFICES ASSUME DecoderInv, NextStops PROVE DecoderInv'
    OBVIOUS
  <1>1. /\ verdict = "EventReady" /\ verdict' # "EventReady"
        /\ verdict' = IF taken = Len(client.frames) THEN "NeedMoreData" ELSE Parse(Frame)
        /\ client' = client /\ got' = got /\ consumed' = consumed /\ taken' = taken
        /\ fragments' = fragments /\ held' = held /\ events' = events
    BY Zenon DEF NextStops
  <1>2. /\ client \in Clients /\ got \in Nat /\ consumed \in Nat /\ taken \in Nat
        /\ taken <= Len(client.frames)
    BY Zenon DEF DecoderInv
  <1>3. consumed = client.ends[taken]
    BY <1>1 DEF DecoderInv
  <1>4. client.frames \in Seq(Headers) /\ Len(client.frames) \in Nat
    BY <1>2, DecoderAssumption, LenProperties, Zenon
  <1>5. ASSUME taken # Len(client.frames)
        PROVE  /\ taken < Len(client.frames)
               /\ verdict' \in {"ProtocolError", "MessageTooLarge"} => ~Good(client, taken + 1)
               /\ verdict' = "NeedMoreData" => got < client.ends[taken + 1]
               /\ verdict' \in {"NeedMoreData", "EventReady", "ProtocolError", "MessageTooLarge"}
    <2>1. taken + 1 \in 1 .. Len(client.frames) /\ taken < Len(client.frames) /\ (taken + 1) - 1 = taken
      BY <1>2, <1>4, <1>5
    <2>2. Frame = client.frames[taken + 1] /\ verdict' = Parse(Frame)
      BY <1>1, <1>5, Zenon DEF Frame
    <2>3. Frame \in Headers /\ client.ends[taken + 1] = client.ends[taken] + Size(Frame)
      BY <2>1, <2>2, <1>2, ClientFrame, Zenon
    <2>4. /\ Parse(Frame) \in {"ProtocolError", "MessageTooLarge"} =>
                 ~IsKnownOpcode(Frame) \/ ~GoodHeader(Frame)
          /\ Parse(Frame) = "NeedMoreData" => Available < Size(Frame)
          /\ Parse(Frame) \in {"NeedMoreData", "EventReady", "ProtocolError", "MessageTooLarge"}
      BY <2>3, <1>2, StoppedHeader, Zenon
    <2>5. Parse(Frame) = "NeedMoreData" => got < client.ends[taken + 1]
      <3>1. Size(Frame) \in Nat
        BY <2>3, HeaderFields
      <3>2. Available < Size(Frame) => got < client.ends[taken + 1]
        BY <3>1, <2>3, <1>2, <1>3 DEF Available
      <3> QED
        BY <3>2, <2>4, Zenon
    <2>6. Parse(Frame) \in {"ProtocolError", "MessageTooLarge"} => ~Good(client, taken + 1)
      BY <2>2, <2>4, GoodParts, Zenon
    <2> QED
      BY <2>1, <2>2, <2>4, <2>5, <2>6, Zenon
  <1>6. /\ verdict' \in {"ProtocolError", "MessageTooLarge"} =>
               taken < Len(client.frames) /\ ~Good(client, taken + 1)
        /\ verdict' = "NeedMoreData" /\ taken < Len(client.frames) => got < client.ends[taken + 1]
        /\ verdict' \in Verdicts
    <2>1. CASE taken = Len(client.frames)
      <3>1. verdict' = "NeedMoreData" /\ ~(taken < Len(client.frames))
        BY <2>1, <1>1, <1>4
      <3> QED
        BY <3>1 DEF Verdicts
    <2>2. CASE taken # Len(client.frames)
      <3>1. verdict' \in Verdicts
        BY <2>2, <1>5 DEF Verdicts
      <3> QED
        BY <2>2, <3>1, <1>5, Zenon
    <2> QED
      BY <2>1, <2>2, Zenon
  <1>7. FramesDecoded'
    BY <1>1, <1>6, Zenon DEF DecoderInv, FramesDecoded
  <1>8. Available' = Available
    BY <1>1, Zenon DEF Available
  <1> QED
    BY <1>1, <1>3, <1>6, <1>7, <1>8, Zenon DEF DecoderInv

\* Append accepts or refuses a read.
LEMMA ReadStep == ASSUME DecoderInv, NEW offset \in client.cuts, AppendRead(offset) PROVE DecoderInv'
  <1>1. /\ verdict = "NeedMoreData" /\ offset > got
        /\ client' = client /\ consumed' = consumed /\ taken' = taken
        /\ fragments' = fragments /\ held' = held /\ events' = events
    BY Zenon DEF AppendRead
  <1>2. client \in Clients /\ got \in Nat /\ consumed \in Nat /\ consumed <= got
        /\ Available <= BufferLimit
    BY Zenon DEF DecoderInv
  <1>3. offset \in Nat /\ BufferLimit \in Nat
    <2>1. client.cuts \subseteq 1 .. client.ends[Len(client.frames)] /\ BufferLimit \in Nat
      BY <1>2, DecoderAssumption, Zenon
    <2> QED
      BY <2>1
  <1>4. CASE Available + (offset - got) > BufferLimit
    <2>1. verdict' = "BufferLimitExceeded" /\ got' = got
      BY <1>4, Zenon DEF AppendRead
    <2>2. verdict' \in Verdicts /\ verdict' \notin {"NeedMoreData", "EventReady", "ProtocolError", "MessageTooLarge"}
      BY <2>1 DEF Verdicts
    <2>3. FramesDecoded'
      BY <1>1, <2>1, <2>2, Zenon DEF DecoderInv, FramesDecoded
    <2>4. Available' = Available
      BY <1>1, <2>1, Zenon DEF Available
    <2> QED
      BY <1>1, <2>1, <2>2, <2>3, <2>4, Zenon DEF DecoderInv
  <1>5. CASE ~(Available + (offset - got) > BufferLimit)
    <2>1. verdict' = "EventReady" /\ got' = offset
      BY <1>5, Zenon DEF AppendRead
    <2>2. verdict' \in Verdicts /\ verdict' \notin {"NeedMoreData", "ProtocolError", "MessageTooLarge"}
      BY <2>1 DEF Verdicts
    <2>3. FramesDecoded'
      BY <1>1, <2>1, <2>2, Zenon DEF DecoderInv, FramesDecoded
    <2>4. Available' <= BufferLimit /\ consumed' <= got' /\ got' \in Nat
      BY <1>1, <1>2, <1>3, <1>5, <2>1 DEF Available
    <2>5. consumed = client.ends[taken]
      BY <1>1 DEF DecoderInv
    <2> QED
      BY <1>1, <2>1, <2>2, <2>3, <2>4, <2>5, Zenon DEF DecoderInv
  <1> QED
    BY <1>4, <1>5, Zenon

\* A new decoder satisfies the invariant.
LEMMA DecoderInitInv == DecoderInit => DecoderInv
  <1> SUFFICES ASSUME DecoderInit PROVE DecoderInv
    OBVIOUS
  <1>1. /\ client \in Clients /\ got = 0 /\ consumed = 0 /\ taken = 0
        /\ fragments = <<>> /\ held = 0 /\ verdict = "NeedMoreData" /\ events = <<>>
    BY Zenon DEF DecoderInit, DecoderEmpty
  <1>2. /\ client.frames \in Seq(Headers) /\ client.ends[0] = 0 /\ BufferLimit \in Nat
    BY <1>1, DecoderAssumption, Zenon
  <1>3. Len(client.frames) \in Nat /\ DOMAIN client.frames = 1 .. Len(client.frames)
    BY <1>2, LenProperties, Zenon
  <1>4. /\ got \in Nat /\ consumed \in Nat /\ taken \in Nat /\ held \in Nat
        /\ taken <= Len(client.frames) /\ consumed <= got /\ Available <= BufferLimit
        /\ verdict \in Verdicts /\ consumed = client.ends[taken]
    BY <1>1, <1>2, <1>3 DEF Available, Verdicts
  <1>5. fragments \in Seq(Nat) /\ events \in Seq(Event)
    BY <1>1
  <1>6. Assembled(client, taken, fragments, held)
    <2>1. \A j \in Data(client) : ~(j < taken + 1)
      <3>1. \A j \in 1 .. Len(client.frames) : ~(j < taken + 1)
        BY <1>1, <1>3
      <3> QED
        BY <3>1, <1>3, Zenon DEF Data
    <2> QED
      BY <1>1, <2>1, Zenon DEF Assembled, Open
  <1>7. FramesDecoded
    <2>1. \A i : i \notin 1 .. taken
      BY <1>1
    <2>2. \A n : n \notin DOMAIN events
      BY <1>1
    <2>3. AllReported(client, taken, events)
      BY <2>1, <2>2, Zenon DEF AllReported, Increasing
    <2>4. taken < Len(client.frames) => got < client.ends[taken + 1]
      <3> SUFFICES ASSUME taken < Len(client.frames) PROVE got < client.ends[taken + 1]
        OBVIOUS
      <3>1. 1 \in 1 .. Len(client.frames) /\ taken + 1 = 1 /\ 1 - 1 = 0
        BY <1>1, <1>3
      <3>2. client.frames[1] \in Headers /\ client.ends[1] = client.ends[0] + Size(client.frames[1])
        BY <3>1, <1>1, ClientFrame, Zenon
      <3>3. Size(client.frames[1]) \in Nat /\ 2 <= Size(client.frames[1])
        BY <3>2, HeaderFields
      <3>4. got < client.ends[1]
        BY <3>2, <3>3, <1>1, <1>2
      <3> QED
        BY <3>1, <3>4, Zenon
    <2>5. verdict \notin {"ProtocolError", "MessageTooLarge"}
      BY <1>1
    <2> QED
      BY <2>1, <2>2, <2>3, <2>4, <2>5, Zenon DEF FramesDecoded
  <1> QED
    BY <1>1, <1>4, <1>5, <1>6, <1>7, Zenon DEF DecoderInv

\* Every call of Append and Next preserves the invariant.
LEMMA DecoderStep == DecoderInv /\ [DecoderNext]_decoderVars => DecoderInv'
  <1> SUFFICES ASSUME DecoderInv, [DecoderNext]_decoderVars PROVE DecoderInv'
    OBVIOUS
  <1>1. CASE UNCHANGED decoderVars
    <2>1. /\ client' = client /\ got' = got /\ consumed' = consumed /\ taken' = taken
          /\ fragments' = fragments /\ held' = held /\ verdict' = verdict /\ events' = events
      BY <1>1, Zenon DEF decoderVars
    <2>2. FramesDecoded' /\ Available' = Available
      BY <2>1, Zenon DEF DecoderInv, FramesDecoded, Available
    <2> QED
      BY <2>1, <2>2, Zenon DEF DecoderInv
  <1>2. CASE DecoderNext
    BY <1>2, ReadStep, StopStep, TextStep, ContinuationStep, BinaryStep, PingPongStep,
       CloseStep, Zenon DEF DecoderNext
  <1> QED
    BY <1>1, <1>2, Zenon

\* However a client's bytes are cut into reads, the events of WebSocketDecoder are
\* those of the good frames before the first bad one, each message made of exactly
\* its fragments in order, and what the decoder holds is bounded: for every sequence
\* of frames and every limit.
THEOREM DecoderExact == DecoderSpec => []EventsExact
  <1>1. DecoderInv => EventsExact
    <2> SUFFICES ASSUME DecoderInv PROVE EventsExact
      OBVIOUS
    <2>1. /\ taken \in Nat /\ consumed \in Nat /\ got \in Nat /\ client \in Clients
          /\ taken <= Len(client.frames) /\ consumed <= got /\ Available <= BufferLimit
          /\ verdict \in Verdicts /\ FramesDecoded
          /\ Assembled(client, taken, fragments, held)
      BY Zenon DEF DecoderInv
    <2>2. MessageLimit \in Nat /\ client.frames \in Seq(Headers)
      BY <2>1, DecoderAssumption, Zenon
    <2>3. Len(client.frames) \in Nat
      BY <2>2, LenProperties, Zenon
    <2>4. taken \in 0 .. Len(client.frames) /\ consumed \in 0 .. got
      BY <2>1, <2>3
    <2>5. held <= MessageLimit
      <3>1. held = 0 \/ held <= MessageLimit
        BY <2>1, Zenon DEF Assembled
      <3> QED
        BY <3>1, <2>2
    <2> QED
      BY <2>1, <2>4, <2>5, Zenon DEF EventsExact, DecoderTypeOK, HeldBytesBounded, Verdicts
  <1> QED
    BY <1>1, DecoderInitInv, DecoderStep, PTL DEF DecoderSpec
=============================================================================
