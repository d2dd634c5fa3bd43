---------------------------- MODULE SharedProofs ----------------------------
(***************************************************************************)
(* What threads share.  The server-wide count of inbound bytes, for any    *)
(* number of sessions and every limit: while no two threads update a       *)
(* session's account at once it is the sum of what the sessions have       *)
(* accounted, a session at rest has accounted what it buffers, and the     *)
(* global limit ends no session for bytes that are not there, except for   *)
(* what a session that is gone left behind.  And the object pool, for      *)
(* every capacity and any number of threads: the free list is one chain    *)
(* through the free slots, the debug checks never fail, and a slot has one *)
(* owner.                                                                  *)
(***************************************************************************)
EXTENDS Inbound, ObjectPool, FiniteSetTheorems, TLAPS

\* SMT is tried first and Zenon next, except where a leaf names Zenon.
USE SMTT(30), ZenonT(20)

-----------------------------------------------------------------------------
(* Inbound.                                                                *)

\* What a session's buffers and its account may hold.
Amounts == [Sessions -> 0 .. MaxSession]

Tokens(f, S) == {p \in S \X (1 .. MaxSession) : p[2] <= f[p[1]]}

\* A total counts its tokens: one for each byte of each session.
LEMMA TotalTokens == \A f, S : Total(f, S) = Cardinality(Tokens(f, S))
  BY Zenon DEF Total, Tokens

\* The interval 1 .. n has n elements.
LEMMA IntervalSize ==
    ASSUME NEW n \in Nat
    PROVE  IsFiniteSet(1 .. n) /\ Cardinality(1 .. n) = n
  <1>1. IsFiniteSet(1 .. n) /\ Cardinality(1 .. n) = IF 1 > n THEN 0 ELSE n - 1 + 1
    BY FS_Interval, 1 \in Int, n \in Int, Zenon
  <1>2. QED
    BY <1>1

\* A total is a number, at most MaxSession for each session.
LEMMA TotalBound ==
    ASSUME NEW f \in Amounts, NEW S \in SUBSET Sessions
    PROVE  /\ IsFiniteSet(Tokens(f, S)) /\ Total(f, S) \in Nat
           /\ Total(f, S) < Width
  <1>1. IsFiniteSet(Sessions) /\ MaxSession \in Nat /\ Width \in Nat
    BY InboundAssumption, Zenon
  <1>2. IsFiniteSet(1 .. MaxSession) /\ Cardinality(1 .. MaxSession) = MaxSession
    BY <1>1, IntervalSize
  <1>3. /\ IsFiniteSet(Sessions \X (1 .. MaxSession))
        /\ Cardinality(Sessions \X (1 .. MaxSession)) = Cardinality(Sessions) * MaxSession
    BY <1>1, <1>2, FS_Product, Zenon
  <1>4. Tokens(f, S) \in SUBSET (Sessions \X (1 .. MaxSession))
    BY DEF Tokens
  <1>5. /\ IsFiniteSet(Tokens(f, S))
        /\ Cardinality(Tokens(f, S)) <= Cardinality(Sessions \X (1 .. MaxSession))
    BY <1>3, <1>4, FS_Subset, Zenon
  <1>6. Cardinality(Tokens(f, S)) \in Nat /\ Cardinality(Sessions) \in Nat
    BY <1>1, <1>5, FS_CardinalityType, Zenon
  <1>7. Cardinality(Sessions) * MaxSession \in Nat
    BY <1>1, <1>6
  <1>8. Cardinality(Sessions) * MaxSession < Width
    BY InboundAssumption, Zenon
  <1> DEFINE product == Cardinality(Sessions \X (1 .. MaxSession))
             bound == Cardinality(Sessions) * MaxSession
  <1>9. Cardinality(Tokens(f, S)) < Width
    <2>1. product = bound /\ Cardinality(Tokens(f, S)) <= product
          /\ bound \in Nat /\ bound < Width
      BY <1>3, <1>5, <1>7, <1>8, Zenon
    <2> HIDE DEF product, bound
    <2> QED
      BY <1>1, <1>6, <2>1
  <1> QED
    BY <1>5, <1>6, <1>9, TotalTokens

\* A session's share comes out of a total.
LEMMA TotalSplit ==
    ASSUME NEW f \in Amounts, NEW S \in SUBSET Sessions, NEW s \in S
    PROVE  Total(f, S) = Total(f, S \ {s}) + f[s]
  <1> DEFINE own == {s} \X (1 .. f[s])
             rest == Tokens(f, S \ {s})
  <1>1. f[s] \in Nat /\ f[s] <= MaxSession /\ MaxSession \in Nat
    BY InboundAssumption DEF Amounts
  <1>2. IsFiniteSet(1 .. f[s]) /\ Cardinality(1 .. f[s]) = f[s]
    BY <1>1, IntervalSize
  <1>3. IsFiniteSet({s}) /\ Cardinality({s}) = 1
    BY FS_Singleton, Zenon
  <1>4. IsFiniteSet(own) /\ Cardinality(own) = 1 * f[s]
    <2>1. \A T : IsFiniteSet(T) =>
              IsFiniteSet({s} \X T) /\ Cardinality({s} \X T) = Cardinality({s}) * Cardinality(T)
      BY <1>3, FS_Product, Zenon
    <2> QED
      BY <1>2, <1>3, <2>1, Zenon
  <1>5. Tokens(f, S) = rest \cup own
    <2>1. \A p \in Tokens(f, S) : p \in rest \cup own
      BY <1>1 DEF Tokens
    <2>2. \A p \in own : p \in Tokens(f, S)
      BY <1>1 DEF Tokens
    <2>3. \A p \in rest : p \in Tokens(f, S)
      BY DEF Tokens
    <2> QED
      BY <2>1, <2>2, <2>3, Zenon
  <1>6. rest \cap own = {}
    BY DEF Tokens
  <1>7. IsFiniteSet(rest) /\ Cardinality(rest) \in Nat
    BY TotalBound, TotalTokens, S \ {s} \in SUBSET Sessions, Zenon
  <1>8. IsFiniteSet(rest \cap own) /\ Cardinality(rest \cap own) = 0
    BY <1>6, FS_EmptySet, Zenon
  <1>9. Cardinality(rest \cup own)
            = Cardinality(rest) + Cardinality(own) - Cardinality(rest \cap own)
    BY <1>4, <1>7, FS_Union, Zenon
  <1>10. Total(f, S) = Cardinality(rest \cup own) /\ Total(f, S \ {s}) = Cardinality(rest)
    BY <1>5, TotalTokens, Zenon
  <1> HIDE DEF own, rest
  <1> QED
    BY <1>1, <1>4, <1>7, <1>8, <1>9, <1>10

\* A total depends on the amounts of its sessions only.
LEMMA TotalSame ==
    ASSUME NEW f, NEW g, NEW S, \A u \in S : f[u] = g[u]
    PROVE  Total(f, S) = Total(g, S)
  <1>1. \A p \in S \X (1 .. MaxSession) : f[p[1]] = g[p[1]]
    OBVIOUS
  <1>2. Tokens(f, S) = Tokens(g, S)
    BY <1>1, Zenon DEF Tokens
  <1> QED
    BY <1>2, TotalTokens, Zenon

\* Sessions without bytes add nothing to it.
LEMMA TotalDrop ==
    ASSUME NEW f \in Amounts, NEW S \in SUBSET Sessions, NEW T \in SUBSET S,
           \A u \in S \ T : f[u] = 0
    PROVE  Total(f, S) = Total(f, T)
  <1>1. Tokens(f, S) = Tokens(f, T)
    BY DEF Tokens
  <1> QED
    BY <1>1, TotalTokens, Zenon

\* The counter wraps at most once.
LEMMA WrapsOnce ==
    ASSUME NEW w \in Nat, NEW x \in Nat, x < w
    PROVE  (x + w) % w = x
  OBVIOUS

\* What fetch_add or fetch_sub does to the counter: it follows one session's change.
LEMMA CountFollows ==
    ASSUME NEW f \in Amounts, NEW g \in Amounts, NEW s \in Sessions,
           \A u \in Sessions \ {s} : g[u] = f[u]
    PROVE  (Total(f, Sessions) + g[s] + Width - f[s]) % Width = Total(g, Sessions)
  <1>1. Total(f, Sessions) = Total(f, Sessions \ {s}) + f[s]
    BY TotalSplit, Sessions \in SUBSET Sessions, Zenon
  <1>2. Total(g, Sessions) = Total(g, Sessions \ {s}) + g[s]
    BY TotalSplit, Sessions \in SUBSET Sessions, Zenon
  <1>3. Total(g, Sessions \ {s}) = Total(f, Sessions \ {s})
    BY TotalSame
  <1>4. /\ Total(f, Sessions \ {s}) \in Nat /\ Total(g, Sessions) \in Nat
        /\ Total(g, Sessions) < Width
    BY TotalBound, Sessions \in SUBSET Sessions, Sessions \ {s} \in SUBSET Sessions, Zenon
  <1>5. f[s] \in Nat /\ g[s] \in Nat /\ Width \in Nat
    BY InboundAssumption DEF Amounts
  <1>6. Total(f, Sessions) + g[s] + Width - f[s] = Total(g, Sessions) + Width
    BY <1>1, <1>2, <1>3, <1>4, <1>5
  <1> QED
    BY <1>4, <1>5, <1>6, WrapsOnce

-----------------------------------------------------------------------------
(* The inductive invariant.                                                *)

Updating(s, t) == step[s][t] \in {"compare", "count", "store"}

\* Who is where.  The other thread updates the count only as the first to call
\* Disconnect; the reader updates it to what is buffered, unless it is.
Shape(s) ==
    /\ step[s]["other"] \in {"idle", "done", "compare", "count", "store", "disconnect"}
    /\ Updating(s, "other") \/ step[s]["other"] = "disconnect" =>
           call[s]["other"].then = "done"
    /\ Updating(s, "reader") \/ step[s]["reader"] = "disconnect" =>
           call[s]["reader"].then \in {"detect", "append", "loop", "end", "done"}
    /\ Updating(s, "other") => disconnect_started[s] /\ call[s]["other"].bytes = 0
    /\ Updating(s, "reader") =>
           \/ call[s]["reader"].bytes = buffered[s]
           \/ disconnect_started[s] /\ call[s]["reader"].bytes = 0

\* Of a session no two threads updated at once, one has passed the comparison at
\* most, and what it saw there is still the session's count.
Solitary(s) ==
    /\ step[s]["reader"] \notin {"count", "store"} \/ step[s]["other"] \notin {"count", "store"}
    /\ \A t \in Roles : step[s][t] = "count" => call[s][t].seen = inbound_accounted[s]

\* What such a session has accounted, or is about to account.
Settles(s) ==
    /\ disconnect_started[s] =>
           \/ inbound_accounted[s] \in {0, buffered[s]}
           \/ Updating(s, "reader") \/ Updating(s, "other")
           \/ step[s]["reader"] = "loop"
    /\ ~disconnect_started[s] /\ ~Updating(s, "reader") =>
           inbound_accounted[s] >= buffered[s]
    /\ /\ ~disconnect_started[s] /\ ~Updating(s, "reader") /\ ~closing[s]
       /\ step[s]["reader"] \notin {"loop", "disconnect"}
       => inbound_accounted[s] = buffered[s]

SessionInv(s) == Shape(s) /\ (s \notin overlapped => Solitary(s) /\ Settles(s))

\* What the counter holds of each session: a thread that has counted and not
\* stored yet is ahead of inbound_accounted.
Credited ==
    [s \in Sessions |->
        IF step[s]["reader"] = "store" THEN call[s]["reader"].bytes
        ELSE IF step[s]["other"] = "store" THEN call[s]["other"].bytes
        ELSE inbound_accounted[s]]

CounterHolds == overlapped = {} => inbound_bytes = Total(Credited, Sessions)

\* A session that is gone, and whose bytes nothing takes back any more.
Abandoned(s) ==
    /\ disconnect_started[s] /\ inbound_accounted[s] > 0
    /\ \A t \in Roles : \/ step[s][t] \in {"idle", "done"}
                        \/ step[s][t] = "disconnect" /\ call[s][t].then = "done"

Blamed == miscounted # {} => overlapped # {} \/ \E s \in Sessions : Abandoned(s)

InboundInv ==
    InboundTypeOK /\ (\A s \in Sessions : SessionInv(s)) /\ CounterHolds /\ Blamed

-----------------------------------------------------------------------------
(* Steps of one thread of one session.                                     *)

\* Nothing but thread t of session s moves.
Moves(s, t) ==
    /\ \A u \in Sessions \ {s} : step'[u] = step[u] /\ call'[u] = call[u]
    /\ \A o \in Roles \ {t} : step'[s][o] = step[s][o] /\ call'[s][o] = call[s][o]
    /\ step' \in [Sessions -> [Roles -> Labels]] /\ call' \in [Sessions -> [Roles -> Calls]]

\* The parameters of a call.
LEMMA CallType ==
    ASSUME NEW b \in 0 .. MaxSession, NEW l \in Labels
    PROVE  CallOf(b, l) \in Calls /\ CallOf(b, l).bytes = b /\ CallOf(b, l).then = l
  BY InboundAssumption DEF CallOf, Calls

\* A thread that is not in a call.
LEMMA NoCallType == NoCall \in Calls /\ 0 \in 0 .. MaxSession
  BY InboundAssumption, CallType DEF NoCall, Labels

\* A jump.
LEMMA GotoMoves ==
    ASSUME InboundTypeOK, NEW s \in Sessions, NEW t \in Roles, NEW l \in Labels,
           Goto(s, t, l)
    PROVE  Moves(s, t) /\ step'[s][t] = l
  BY Zenon DEF InboundTypeOK, Moves, Goto

\* A call of UpdateInboundAccounting.
LEMMA UpdateMoves ==
    ASSUME InboundTypeOK, NEW s \in Sessions, NEW t \in Roles, NEW l \in Labels,
           NEW b \in 0 .. MaxSession, Update(s, t, b, l)
    PROVE  /\ Moves(s, t) /\ step'[s][t] = "compare"
           /\ call'[s][t].bytes = b /\ call'[s][t].then = l
  <1> DEFINE c == CallOf(b, l)
  <1>1. c \in Calls /\ c.bytes = b /\ c.then = l
    BY CallType
  <1>2. "compare" \in Labels
    BY DEF Labels
  <1>3. step' = [step EXCEPT ![s][t] = "compare"] /\ call' = [call EXCEPT ![s][t] = c]
    BY DEF Update
  <1> HIDE DEF c
  <1> QED
    BY <1>1, <1>2, <1>3, Zenon DEF InboundTypeOK, Moves

\* A call of Disconnect.
LEMMA DisconnectMoves ==
    ASSUME InboundTypeOK, NEW s \in Sessions, NEW t \in Roles, NEW l \in Labels,
           CallDisconnect(s, t, l)
    PROVE  Moves(s, t) /\ step'[s][t] = "disconnect" /\ call'[s][t].then = l
  <1> DEFINE c == CallOf(0, l)
  <1>1. c \in Calls /\ c.then = l
    BY CallType, NoCallType
  <1>2. "disconnect" \in Labels
    BY DEF Labels
  <1>3. step' = [step EXCEPT ![s][t] = "disconnect"] /\ call' = [call EXCEPT ![s][t] = c]
    BY DEF CallDisconnect
  <1> HIDE DEF c
  <1> QED
    BY <1>1, <1>2, <1>3, Zenon DEF InboundTypeOK, Moves

\* A return from either.
LEMMA ReturnMoves ==
    ASSUME InboundTypeOK, NEW s \in Sessions, NEW t \in Roles, Return(s, t)
    PROVE  Moves(s, t) /\ step'[s][t] = call[s][t].then
  <1>1. call[s][t].then \in Labels
    BY DEF InboundTypeOK, Calls
  <1> QED
    BY <1>1, NoCallType, Zenon DEF InboundTypeOK, Moves, Return

\* The steps of one session leave the others' invariant alone.
Elsewhere(s) ==
    \A u \in Sessions \ {s} :
        /\ buffered'[u] = buffered[u] /\ closing'[u] = closing[u]
        /\ disconnect_started'[u] = disconnect_started[u]
        /\ inbound_accounted'[u] = inbound_accounted[u]
        /\ u \in overlapped' <=> u \in overlapped

\* A step of one thread keeps the invariant if it keeps its session's, and
\* brings the counter to what it should hold.
LEMMA LocalStep ==
    ASSUME InboundInv, NEW s \in Sessions, NEW t \in Roles, Moves(s, t), Elsewhere(s),
           InboundTypeOK', SessionInv(s)', CounterHolds',
           overlapped \subseteq overlapped', miscounted' = miscounted,
           Abandoned(s) => Abandoned(s)'
    PROVE  InboundInv'
  <1>1. ASSUME NEW u \in Sessions \ {s} PROVE SessionInv(u)' /\ (Abandoned(u) => Abandoned(u)')
    <2>1. /\ step'[u] = step[u] /\ call'[u] = call[u] /\ buffered'[u] = buffered[u]
          /\ closing'[u] = closing[u] /\ disconnect_started'[u] = disconnect_started[u]
          /\ inbound_accounted'[u] = inbound_accounted[u]
          /\ u \in overlapped' <=> u \in overlapped
      BY Zenon DEF Moves, Elsewhere
    <2>2. SessionInv(u)
      BY Zenon DEF InboundInv
    <2>3. SessionInv(u)'
      <3>1. Shape(u)'
        BY <2>1, <2>2
          DEF SessionInv, Shape, Updating
      <3>2. u \notin overlapped' => Solitary(u)'
        BY <2>1, <2>2
          DEF SessionInv, Solitary
      <3>3. u \notin overlapped' => Settles(u)'
        BY <2>1, <2>2
          DEF SessionInv, Settles, Updating
      <3> QED
        BY <3>1, <3>2, <3>3, Zenon DEF SessionInv
    <2> QED
      BY <2>1, <2>3, ZenonT(30) DEF Abandoned
  <1>2. \A u \in Sessions : SessionInv(u)'
    BY <1>1, Zenon
  <1>3. Blamed'
    BY <1>1, Zenon DEF InboundInv, Blamed
  <1> QED
    BY <1>2, <1>3, Zenon DEF InboundInv

\* Such a step that neither counts nor stores leaves the counter as it should be.
LEMMA CounterKept ==
    ASSUME InboundInv, NEW s \in Sessions, NEW t \in Roles, Moves(s, t),
           step[s][t] # "store", step'[s][t] # "store",
           UNCHANGED <<inbound_accounted, inbound_bytes>>, overlapped \subseteq overlapped'
    PROVE  CounterHolds'
  <1>1. \A u \in Sessions, o \in Roles :
            /\ step'[u][o] = "store" <=> step[u][o] = "store"
            /\ step[u][o] = "store" => call'[u][o] = call[u][o]
    BY Zenon DEF Moves
  <1>2. "reader" \in Roles /\ "other" \in Roles
    BY DEF Roles
  <1>3. \A u \in Sessions : Credited'[u] = Credited[u]
    BY <1>1, <1>2, Zenon DEF Credited
  <1>4. Total(Credited', Sessions) = Total(Credited, Sessions)
    BY <1>3, TotalSame, Zenon
  <1>5. overlapped' = {} => overlapped = {}
    OBVIOUS
  <1> QED
    BY <1>4, <1>5, Zenon DEF InboundInv, CounterHolds

\* What a session's invariant says of one of its threads.
LEMMA CallOfThread ==
    ASSUME InboundTypeOK, NEW s \in Sessions, NEW t \in Roles, SessionInv(s)
    PROVE  /\ call[s][t].bytes \in 0 .. MaxSession /\ call[s][t].seen \in 0 .. MaxSession
           /\ Updating(s, t) \/ step[s][t] = "disconnect" =>
                  call[s][t].then \in {"detect", "append", "loop", "end", "done"}
           /\ t = "reader" \/ t = "other"
  <1>1. call[s][t] \in Calls
    BY ZenonT(30) DEF InboundTypeOK
  <1>2. t = "reader" \/ t = "other"
    BY DEF Roles
  <1> QED
    BY <1>1, <1>2 DEF Calls, SessionInv, Shape

\* UpdateInboundAccounting returns at once, or goes on to count.
LEMMA CompareStep ==
    ASSUME InboundInv, NEW s \in Sessions, NEW t \in Roles, Compare(s, t)
    PROVE  InboundInv'
  <1>1. /\ InboundTypeOK /\ SessionInv(s) /\ step[s][t] = "compare"
        /\ UNCHANGED <<sessionVars, byteVars, inbound_accounted, inbound_bytes, miscounted>>
    BY Zenon DEF InboundInv, Compare
  <1>2. /\ UNCHANGED <<buffered, closing, disconnect_started, inbound_accounted,
                       inbound_bytes, miscounted, transport, pending>>
    BY <1>1 DEF sessionVars, byteVars
  <1>3. ~Abandoned(s)
    BY <1>1 DEF Abandoned
  <1>4. /\ call[s][t].bytes \in 0 .. MaxSession
        /\ call[s][t].then \in {"detect", "append", "loop", "end", "done"}
        /\ t = "reader" \/ t = "other"
    BY <1>1, CallOfThread DEF Updating
  <1>5. CASE inbound_accounted[s] = call[s][t].bytes /\ Return(s, t) /\ UNCHANGED overlapped
    <2>1. Moves(s, t) /\ step'[s][t] = call[s][t].then
      BY <1>1, <1>5, ReturnMoves
    <2>2. InboundTypeOK'
      BY <1>1, <1>2, <1>5, <2>1, Zenon DEF InboundTypeOK, Moves
    <2>3. Elsewhere(s)
      BY <1>2, <1>5, Zenon DEF Elsewhere
    <2>4. SessionInv(s)'
      <3>1. Shape(s)'
        BY <1>1, <1>2, <1>4, <1>5, <2>1
          DEF SessionInv, Shape, Updating, Moves, Roles, InboundTypeOK
      <3>2. s \notin overlapped' => Solitary(s)'
        BY <1>1, <1>2, <1>4, <1>5, <2>1
          DEF SessionInv, Solitary, Moves, Roles, InboundTypeOK
      <3>3. s \notin overlapped' => Settles(s)'
        BY <1>1, <1>2, <1>4, <1>5, <2>1
          DEF SessionInv, Shape, Settles, Updating, Moves, Roles, InboundTypeOK
      <3> QED
        BY <3>1, <3>2, <3>3, Zenon DEF SessionInv
    <2>5. CounterHolds'
      BY <1>1, <1>2, <1>4, <1>5, <2>1, CounterKept
    <2> QED
      BY <1>2, <1>3, <1>5, <2>1, <2>2, <2>3, <2>4, <2>5, LocalStep
  <1>6. CASE /\ inbound_accounted[s] # call[s][t].bytes
             /\ step' = [step EXCEPT ![s][t] = "count"]
             /\ call' = [call EXCEPT ![s][t].seen = inbound_accounted[s]]
             /\ overlapped' = IF \E u \in Roles : step[s][u] \in {"count", "store"}
                              THEN overlapped \cup {s} ELSE overlapped
    <2>1. /\ Moves(s, t) /\ step'[s][t] = "count"
          /\ call'[s][t].seen = inbound_accounted[s] /\ call'[s][t].bytes = call[s][t].bytes
          /\ call'[s][t].then = call[s][t].then
      <3> DEFINE c == [call[s][t] EXCEPT !.seen = inbound_accounted[s]]
      <3>1. call[s][t] \in Calls /\ inbound_accounted[s] \in 0 .. MaxSession
        BY <1>1, Zenon DEF InboundTypeOK
      <3>2. /\ c \in Calls /\ c.seen = inbound_accounted[s] /\ c.bytes = call[s][t].bytes
            /\ c.then = call[s][t].then
        BY <3>1 DEF Calls
      <3>3. call' = [call EXCEPT ![s][t] = c] /\ "count" \in Labels
        BY <1>6 DEF Labels
      <3>4. step' = [step EXCEPT ![s][t] = "count"]
        BY <1>6
      <3> HIDE DEF c
      <3>5. Moves(s, t) /\ step'[s][t] = "count" /\ call'[s][t] = c
        BY ONLY <1>1, <3>2, <3>3, <3>4, s \in Sessions, t \in Roles, Zenon
          DEF InboundTypeOK, Moves
      <3> QED
        BY <3>2, <3>5, Zenon
    <2>2. InboundTypeOK'
      BY <1>1, <1>2, <1>6, <2>1, Zenon DEF InboundTypeOK, Moves
    <2>3. Elsewhere(s)
      BY <1>2, <1>6 DEF Elsewhere
    <2>4. s \notin overlapped' => \A u \in Roles : step[s][u] \notin {"count", "store"}
      BY <1>6, Zenon
    <2>5. SessionInv(s)'
      <3>1. Shape(s)'
        BY <1>1, <1>2, <1>4, <1>6, <2>1, <2>4
          DEF SessionInv, Shape, Updating, Moves, Roles, InboundTypeOK
      <3>2. s \notin overlapped' => Solitary(s)'
        BY <1>1, <1>2, <1>4, <1>6, <2>1, <2>4
          DEF SessionInv, Solitary, Moves, Roles, InboundTypeOK
      <3>3. s \notin overlapped' => Settles(s)'
        BY <1>1, <1>2, <1>4, <1>6, <2>1, <2>4
          DEF SessionInv, Settles, Updating, Moves, Roles, InboundTypeOK
      <3> QED
        BY <3>1, <3>2, <3>3, Zenon DEF SessionInv
    <2>6. CounterHolds'
      BY <1>1, <1>2, <1>6, <2>1, CounterKept
    <2> QED
      BY <1>2, <1>3, <1>6, <2>1, <2>2, <2>3, <2>5, <2>6, LocalStep, Zenon
  <1> QED
    BY <1>5, <1>6, Zenon DEF Compare

\* A function of the sessions' amounts.
LEMMA CreditedType ==
    ASSUME InboundTypeOK
    PROVE  Credited \in Amounts
  <1>1. \A u \in Sessions, o \in Roles : call[u][o].bytes \in 0 .. MaxSession
    BY DEF InboundTypeOK, Calls
  <1>2. \A u \in Sessions : inbound_accounted[u] \in 0 .. MaxSession
    BY DEF InboundTypeOK
  <1>3. "reader" \in Roles /\ "other" \in Roles
    BY DEF Roles
  <1>4. \A u \in Sessions : Credited[u] \in 0 .. MaxSession
    BY <1>1, <1>2, <1>3, Zenon DEF Credited
  <1> QED
    BY <1>4, Zenon DEF Credited, Amounts

\* fetch_add or fetch_sub: the counter follows, unless another thread is at it; and
\* what the global limit ends a session for is there, or was left behind.
LEMMA CountStep ==
    ASSUME InboundInv, NEW s \in Sessions, NEW t \in Roles, Count(s, t)
    PROVE  InboundInv'
  <1> DEFINE bytes == call[s][t].bytes
             over == bytes > call[s][t].seen /\ inbound_bytes' > MaxGlobal
             c == [call[s][t] EXCEPT !.over = over]
  <1>1. /\ InboundTypeOK /\ SessionInv(s) /\ step[s][t] = "count"
        /\ step' = [step EXCEPT ![s][t] = "store"]
        /\ \E old \in {call[s][t].seen, inbound_accounted[s]} :
               inbound_bytes' = (inbound_bytes + bytes + Width - old) % Width
        /\ UNCHANGED <<sessionVars, byteVars, inbound_accounted, overlapped>>
    BY Zenon DEF InboundInv, Count
  <1>2. /\ UNCHANGED <<buffered, closing, disconnect_started, inbound_accounted,
                       transport, pending>>
    BY <1>1 DEF sessionVars, byteVars
  <1>3. /\ bytes \in 0 .. MaxSession /\ call[s][t].seen \in 0 .. MaxSession
        /\ inbound_accounted[s] \in 0 .. MaxSession /\ MaxSession \in Nat
        /\ inbound_bytes \in Nat /\ Width \in Nat /\ Width > 0
        /\ t = "reader" \/ t = "other"
    <2>1. Total(Credited, Sessions) \in Nat /\ Total(Credited, Sessions) < Width
      BY <1>1, CreditedType, TotalBound, Sessions \in SUBSET Sessions, Zenon
    <2> QED
      BY <1>1, <2>1, CallOfThread, InboundAssumption DEF InboundTypeOK
  <1>4. inbound_bytes' \in 0 .. Width - 1
    BY <1>1, <1>3
  <1>5. Moves(s, t) /\ step'[s][t] = "store" /\ call'[s][t] = c
    <2>1. call[s][t] \in Calls
      BY <1>1, Zenon DEF InboundTypeOK
    <2>2. c \in Calls
      BY <2>1, Zenon DEF Calls
    <2>3. call' = [call EXCEPT ![s][t] = c] /\ "store" \in Labels
      BY DEF Count, Labels
    <2> HIDE DEF c
    <2> QED
      BY ONLY <1>1, <2>2, <2>3, s \in Sessions, t \in Roles, Zenon DEF InboundTypeOK, Moves
  <1>6. c.bytes = bytes /\ c.then = call[s][t].then /\ c.over = over
    <2>1. call[s][t] \in Calls
      BY <1>1, Zenon DEF InboundTypeOK
    <2> QED
      BY <2>1 DEF Calls
  <1>7. InboundTypeOK'
    <2>1. miscounted' \in SUBSET Sessions
      BY <1>1, ZenonT(30) DEF Count, InboundTypeOK
    <2> QED
      BY <1>1, <1>2, <1>4, <1>5, <2>1, Zenon DEF InboundTypeOK, Moves
  <1>8. SessionInv(s)'
    <2> HIDE DEF c
    <2>1. Shape(s)'
      BY <1>1, <1>2, <1>3, <1>5, <1>6
        DEF SessionInv, Shape, Updating, Moves, Roles
    <2>2. s \notin overlapped' => Solitary(s)'
      BY <1>1, <1>2, <1>3, <1>5, <1>6
        DEF SessionInv, Solitary, Moves, Roles
    <2>3. s \notin overlapped' => Settles(s)'
      BY <1>1, <1>2, <1>3, <1>5, <1>6
        DEF SessionInv, Settles, Updating, Moves, Roles
    <2> QED
      BY <2>1, <2>2, <2>3, Zenon DEF SessionInv
  <1>9. \A u \in Sessions : SessionInv(u)'
    <2> SUFFICES ASSUME NEW u \in Sessions, u # s PROVE SessionInv(u)'
      BY <1>8, Zenon
    <2>1. SessionInv(u)
      BY Zenon DEF InboundInv
    <2>2. step'[u] = step[u] /\ call'[u] = call[u]
      BY <1>5, Zenon DEF Moves
    <2>3. Shape(u)'
      BY <1>1, <1>2, <2>1, <2>2
        DEF SessionInv, Shape, Updating
    <2>4. u \notin overlapped' => Solitary(u)'
      BY <1>1, <1>2, <2>1, <2>2
        DEF SessionInv, Solitary
    <2>5. u \notin overlapped' => Settles(u)'
      BY <1>1, <1>2, <2>1, <2>2
        DEF SessionInv, Settles, Updating
    <2> QED
      BY <2>3, <2>4, <2>5, Zenon DEF SessionInv
  <1>10. ASSUME overlapped = {}
         PROVE  /\ inbound_bytes' = Total(Credited', Sessions)
                /\ Credited'[s] = bytes /\ Credited' \in Amounts
                /\ \A u \in Sessions \ {s} : Credited'[u] = Credited[u]
    <2>1. /\ call[s][t].seen = inbound_accounted[s]
          /\ \A o \in Roles \ {t} : step[s][o] # "store"
      BY <1>1, <1>10 DEF SessionInv, Solitary, Roles
    <2>2. Credited[s] = inbound_accounted[s]
      BY <1>1, <1>3, <2>1 DEF Credited, Roles
    <2>3. \A u \in Sessions \ {s} : Credited'[u] = Credited[u]
      BY <1>2, <1>5, Zenon DEF Credited, Moves
    <2>4. Credited'[s] = bytes
      <3>1. \A o \in Roles \ {t} : step'[s][o] # "store"
        BY <1>5, <2>1, Zenon DEF Moves
      <3>2. step'[s][t] = "store" /\ call'[s][t].bytes = bytes
        BY <1>5, <1>6, Zenon
      <3> HIDE DEF bytes
      <3> QED
        BY <1>3, <3>1, <3>2 DEF Credited, Roles
    <2>5. Credited \in Amounts /\ Credited' \in Amounts
      <3>1. Credited \in Amounts
        BY <1>1, CreditedType
      <3>2. \A u \in Sessions : Credited'[u] \in 0 .. MaxSession
        BY <1>3, <2>3, <2>4, <3>1, Zenon DEF Amounts
      <3> QED
        BY <3>1, <3>2, Zenon DEF Credited, Amounts
    <2>6. inbound_bytes = Total(Credited, Sessions)
      BY <1>10, Zenon DEF InboundInv, CounterHolds
    <2>7. inbound_bytes' = (inbound_bytes + bytes + Width - inbound_accounted[s]) % Width
      BY <1>1, <2>1, Zenon
    <2>8. (Total(Credited, Sessions) + Credited'[s] + Width - Credited[s]) % Width
              = Total(Credited', Sessions)
      BY <2>3, <2>5, CountFollows, Zenon
    <2> QED
      BY <2>2, <2>3, <2>4, <2>5, <2>6, <2>7, <2>8, Zenon
  <1>11. CounterHolds'
    BY <1>1, <1>10, Zenon DEF CounterHolds
  <1>12. \A u \in Sessions : Abandoned(u) => Abandoned(u)'
    <2>1. ~Abandoned(s)
      BY <1>1 DEF Abandoned
    <2>2. \A u \in Sessions \ {s} : Abandoned(u) => Abandoned(u)'
      BY <1>2, <1>5, ZenonT(30) DEF Abandoned, Moves
    <2> QED
      BY <2>1, <2>2, Zenon
  <1>13. Blamed'
    <2> SUFFICES ASSUME miscounted' # {}, overlapped = {}
                 PROVE  \E u \in Sessions : Abandoned(u)
      BY <1>1, <1>12, Zenon DEF Blamed
    <2>1. CASE miscounted' = miscounted
      BY <2>1, Zenon DEF InboundInv, Blamed
    <2>2. CASE /\ call'[s][t].over /\ ~disconnect_started[s]
               /\ \A u \in Sessions \ {s} : AtRest(u)
               /\ bytes + Total(inbound_accounted, Connected \ {s}) <= MaxGlobal
      <3> DEFINE others == Sessions \ {s}
      <3>1. others \in SUBSET Sessions /\ Connected \ {s} \in SUBSET others
        BY DEF Connected
      <3>2. inbound_accounted \in Amounts /\ Credited' \in Amounts
        BY <1>1, <1>10, Zenon DEF InboundTypeOK, Amounts
      <3>3. \A u \in others : Credited'[u] = inbound_accounted[u]
        <4>1. \A u \in others, o \in Roles : step[u][o] # "store"
          BY <2>2 DEF AtRest
        <4>2. "reader" \in Roles /\ "other" \in Roles
          BY DEF Roles
        <4>3. \A u \in others : Credited[u] = inbound_accounted[u]
          BY <4>1, <4>2, Zenon DEF Credited
        <4> QED
          BY <1>10, <4>3, Zenon
      <3>4. Total(Credited', others) = Total(inbound_accounted, others)
        BY <3>3, TotalSame, Zenon
      <3>5. Total(Credited', Sessions) = Total(Credited', others) + Credited'[s]
        BY <3>2, TotalSplit, Sessions \in SUBSET Sessions, Zenon
      <3>6. inbound_bytes' = Total(inbound_accounted, others) + bytes
        BY <1>10, <3>4, <3>5, Zenon
      <3>7. inbound_bytes' > MaxGlobal
        BY <1>5, <1>6, <2>2, Zenon
      <3>8. /\ Total(inbound_accounted, others) \in Nat
            /\ Total(inbound_accounted, Connected \ {s}) \in Nat
        BY <3>1, <3>2, TotalBound, Connected \ {s} \in SUBSET Sessions, Zenon
      <3>9. Total(inbound_accounted, others) # Total(inbound_accounted, Connected \ {s})
        <4> HIDE DEF bytes, others
        <4> QED
          BY <1>3, <2>2, <3>6, <3>7, <3>8, InboundAssumption
      <3>10. PICK u \in others \ (Connected \ {s}) : inbound_accounted[u] # 0
        <4>1. ASSUME \A v \in others \ (Connected \ {s}) : inbound_accounted[v] = 0
              PROVE  FALSE
          BY <3>1, <3>2, <3>9, <4>1, TotalDrop
        <4> QED
          BY <4>1, Zenon
      <3>11. /\ u \in Sessions \ {s} /\ disconnect_started[u]
             /\ inbound_accounted[u] \in 0 .. MaxSession
        BY <3>2, <3>10 DEF Connected, Amounts
      <3>12. inbound_accounted[u] > 0
        BY <1>3, <3>10, <3>11
      <3> QED
        BY <2>2, <3>11, <3>12, Zenon DEF Abandoned, AtRest
    <2> QED
      BY <2>1, <2>2, Zenon DEF Count
  <1> QED
    BY <1>7, <1>9, <1>11, <1>13, Zenon DEF InboundInv

\* inbound_accounted catches up with the counter.
LEMMA StoreStep ==
    ASSUME InboundInv, NEW s \in Sessions, NEW t \in Roles, Store(s, t)
    PROVE  InboundInv'
  <1> DEFINE bytes == call[s][t].bytes
  <1>1. /\ InboundTypeOK /\ SessionInv(s) /\ step[s][t] = "store"
        /\ inbound_accounted' = [inbound_accounted EXCEPT ![s] = bytes]
        /\ UNCHANGED <<sessionVars, byteVars, inbound_bytes, overlapped, miscounted>>
    BY Zenon DEF InboundInv, Store
  <1>2. /\ UNCHANGED <<buffered, closing, disconnect_started, inbound_bytes, overlapped,
                       miscounted, transport, pending>>
    BY <1>1 DEF sessionVars, byteVars
  <1>3. /\ bytes \in 0 .. MaxSession
        /\ call[s][t].then \in {"detect", "append", "loop", "end", "done"}
        /\ t = "reader" \/ t = "other"
    BY <1>1, CallOfThread DEF Updating
  <1>4. /\ inbound_accounted'[s] = bytes
        /\ \A u \in Sessions \ {s} : inbound_accounted'[u] = inbound_accounted[u]
        /\ inbound_accounted' \in [Sessions -> 0 .. MaxSession]
    BY <1>1, <1>3, Zenon DEF InboundTypeOK
  <1>5. /\ Moves(s, t)
        /\ \/ step'[s][t] = "disconnect" /\ call'[s][t].then = call[s][t].then
           \/ step'[s][t] = call[s][t].then
    <2>1. call[s][t].then \in Labels
      BY <1>3 DEF Labels
    <2>2. CASE CallDisconnect(s, t, call[s][t].then)
      BY <1>1, <2>1, <2>2, DisconnectMoves
    <2>3. CASE Return(s, t)
      BY <1>1, <2>3, ReturnMoves
    <2> QED
      BY <2>2, <2>3, Zenon DEF Store
  <1>6. InboundTypeOK'
    BY <1>1, <1>2, <1>4, <1>5, Zenon DEF InboundTypeOK, Moves
  <1>7. Elsewhere(s)
    BY <1>2, <1>4, Zenon DEF Elsewhere
  <1>8. SessionInv(s)'
    <2>1. /\ buffered[s] \in 0 .. MaxSession
          /\ t = "other" => bytes = 0 /\ disconnect_started[s]
          /\ t = "reader" => bytes = buffered[s] \/ (bytes = 0 /\ disconnect_started[s])
      BY <1>1, <1>3, Zenon DEF InboundTypeOK, SessionInv, Shape, Updating
    <2>2. s \notin overlapped => \A o \in Roles \ {t} : step[s][o] \notin {"count", "store"}
      BY <1>1, <1>3 DEF SessionInv, Solitary, Roles
    <2> HIDE DEF bytes
    <2>3. Shape(s)'
      BY <1>1, <1>2, <1>3, <1>5, <2>1 DEF SessionInv, Shape, Updating, Moves, Roles
    <2>4. s \notin overlapped' => Solitary(s)'
      BY <1>1, <1>2, <1>3, <1>5, <2>2 DEF SessionInv, Solitary, Moves, Roles
    <2>5. s \notin overlapped' => Settles(s)'
      BY <1>1, <1>2, <1>3, <1>4, <1>5, <2>1 DEF SessionInv, Settles, Updating, Moves, Roles
    <2> QED
      BY <2>3, <2>4, <2>5, Zenon DEF SessionInv
  <1>9. CounterHolds'
    <2> SUFFICES ASSUME overlapped = {}
                 PROVE  inbound_bytes = Total(Credited', Sessions)
      BY <1>2, Zenon DEF CounterHolds
    <2>1. \A o \in Roles \ {t} : step[s][o] # "store"
      BY <1>1, <1>3 DEF SessionInv, Solitary, Roles
    <2>2. Credited[s] = bytes
      <3> HIDE DEF bytes
      <3> QED
        BY <1>1, <1>3, <2>1 DEF Credited, Roles, bytes
    <2>3. \A o \in Roles : step'[s][o] # "store"
      BY <1>3, <1>5, <2>1 DEF Moves
    <2>4. "reader" \in Roles /\ "other" \in Roles
      BY DEF Roles
    <2>5. Credited'[s] = bytes
      BY <1>4, <2>3, <2>4, Zenon DEF Credited
    <2>6. \A u \in Sessions \ {s} : Credited'[u] = Credited[u]
      BY <1>4, <1>5, Zenon DEF Credited, Moves
    <2>7. \A u \in Sessions : Credited'[u] = Credited[u]
      BY <2>2, <2>5, <2>6, Zenon
    <2>8. Total(Credited', Sessions) = Total(Credited, Sessions)
      BY <2>7, TotalSame, Zenon
    <2> QED
      BY <2>8, Zenon DEF InboundInv, CounterHolds
  <1>10. ~Abandoned(s)
    BY <1>1 DEF Abandoned
  <1> QED
    BY <1>2, <1>5, <1>6, <1>7, <1>8, <1>9, <1>10, LocalStep

\* The other steps leave the counter and the sessions' counts alone.
LEMMA QuietStep ==
    ASSUME InboundInv, NEW s \in Sessions, NEW t \in Roles, Moves(s, t),
           UNCHANGED accountVars,
           step[s][t] \notin {"compare", "count", "store"},
           step'[s][t] \notin {"count", "store"},
           \A u \in Sessions \ {s} : /\ buffered'[u] = buffered[u] /\ closing'[u] = closing[u]
                                     /\ disconnect_started'[u] = disconnect_started[u],
           /\ transport' \in [Sessions -> {"Detecting", "RawTcp", "WebSocket"}]
           /\ closing' \in [Sessions -> BOOLEAN]
           /\ disconnect_started' \in [Sessions -> BOOLEAN]
           /\ buffered' \in [Sessions -> 0 .. MaxSession]
           /\ pending' \in [Sessions -> 0 .. MaxSession],
           Shape(s)', s \notin overlapped => Settles(s)',
           Abandoned(s) => Abandoned(s)'
    PROVE  InboundInv'
  <1>1. InboundTypeOK /\ SessionInv(s) /\ (t = "reader" \/ t = "other")
    BY DEF InboundInv, Roles
  <1>2. UNCHANGED <<inbound_accounted, inbound_bytes, overlapped, miscounted>>
    BY DEF accountVars
  <1>3. InboundTypeOK'
    BY <1>1, <1>2, Zenon DEF InboundTypeOK, Moves
  <1>4. Elsewhere(s)
    BY <1>2, Zenon DEF Elsewhere
  <1>5. s \notin overlapped => Solitary(s)'
    BY <1>1, <1>2 DEF SessionInv, Solitary, Moves, Roles
  <1>6. SessionInv(s)'
    BY <1>2, <1>5, Zenon DEF SessionInv
  <1>7. CounterHolds'
    BY <1>2, CounterKept
  <1> QED
    BY <1>2, <1>3, <1>4, <1>6, <1>7, LocalStep

\* Unchanged variables have the types they had.
LEMMA SameTypes ==
    ASSUME InboundInv
    PROVE  /\ transport \in [Sessions -> {"Detecting", "RawTcp", "WebSocket"}]
           /\ closing \in [Sessions -> BOOLEAN] /\ disconnect_started \in [Sessions -> BOOLEAN]
           /\ buffered \in [Sessions -> 0 .. MaxSession]
           /\ pending \in [Sessions -> 0 .. MaxSession]
           /\ inbound_accounted \in [Sessions -> 0 .. MaxSession]
           /\ InboundTypeOK /\ \A s \in Sessions : SessionInv(s)
           /\ "reader" \in Roles /\ "other" \in Roles /\ MaxSession \in Nat
  BY InboundAssumption DEF InboundInv, InboundTypeOK, Roles

\* Disconnect: the first call starts the last update, another returns.
LEMMA DisconnectStep ==
    ASSUME InboundInv, NEW s \in Sessions, NEW t \in Roles, Disconnect(s, t)
    PROVE  InboundInv'
  <1>1. /\ step[s][t] = "disconnect" /\ InboundTypeOK /\ SessionInv(s)
        /\ UNCHANGED <<transport, closing, buffered, pending>> /\ UNCHANGED accountVars
    BY SameTypes DEF Disconnect, byteVars
  <1>2. UNCHANGED <<inbound_accounted, overlapped>>
    BY <1>1 DEF accountVars
  <1>3. call[s][t].then \in {"detect", "append", "loop", "end", "done"}
        /\ (t = "reader" \/ t = "other")
    BY <1>1, CallOfThread
  <1>4. CASE disconnect_started[s] /\ Return(s, t) /\ UNCHANGED disconnect_started
    <2>1. Moves(s, t) /\ step'[s][t] = call[s][t].then
      BY <1>1, <1>4, ReturnMoves
    <2>2. Shape(s)'
      BY <1>1, <1>3, <1>4, <2>1, Zenon DEF SessionInv, Shape, Updating, Moves, Roles
    <2>3. s \notin overlapped => Settles(s)'
      BY <1>1, <1>2, <1>3, <1>4, <2>1, Zenon DEF SessionInv, Settles, Updating, Moves, Roles
    <2>4. Abandoned(s) => Abandoned(s)'
      BY <1>1, <1>2, <1>4, <2>1 DEF Abandoned, Moves
    <2> QED
      BY <1>1, <1>3, <1>4, <2>1, <2>2, <2>3, <2>4, QuietStep, SameTypes, Zenon
  <1>5. CASE /\ ~disconnect_started[s]
             /\ disconnect_started' = [disconnect_started EXCEPT ![s] = TRUE]
             /\ Update(s, t, 0, call[s][t].then)
    <2>1. /\ disconnect_started' \in [Sessions -> BOOLEAN] /\ disconnect_started'[s]
          /\ \A u \in Sessions \ {s} : disconnect_started'[u] = disconnect_started[u]
      BY <1>5, SameTypes, Zenon
    <2>2. /\ Moves(s, t) /\ step'[s][t] = "compare"
          /\ call'[s][t].bytes = 0 /\ call'[s][t].then = call[s][t].then
      BY <1>1, <1>3, <1>5, UpdateMoves, NoCallType DEF Labels
    <2>3. Shape(s)'
      BY <1>1, <1>3, <2>1, <2>2 DEF SessionInv, Shape, Updating, Moves, Roles
    <2>4. s \notin overlapped => Settles(s)'
      BY <1>3, <2>1, <2>2, Zenon DEF Settles, Updating
    <2>5. ~Abandoned(s)
      BY <1>5, Zenon DEF Abandoned
    <2> QED
      BY <1>1, <2>1, <2>2, <2>3, <2>4, <2>5, QuietStep, SameTypes, Zenon
  <1> QED
    BY <1>4, <1>5, Zenon DEF Disconnect

\* Another thread disconnects or closes the session.
LEMMA OtherStep ==
    ASSUME InboundInv, NEW s \in Sessions, OtherDisconnect(s) \/ OtherCloses(s)
    PROVE  InboundInv'
  <1>1. InboundTypeOK /\ SessionInv(s) /\ "done" \in Labels
    BY SameTypes DEF Labels
  <1>2. CASE OtherDisconnect(s)
    <2>1. /\ step[s]["other"] = "idle"
          /\ UNCHANGED <<transport, closing, disconnect_started, buffered, pending>>
          /\ UNCHANGED <<inbound_accounted, overlapped>> /\ UNCHANGED accountVars
      BY <1>2 DEF OtherDisconnect, sessionVars, byteVars, accountVars
    <2>2. /\ Moves(s, "other") /\ step'[s]["other"] = "disconnect"
          /\ call'[s]["other"].then = "done"
      BY <1>1, <1>2, DisconnectMoves, SameTypes DEF OtherDisconnect
    <2>3. Shape(s)' /\ (s \notin overlapped => Settles(s)')
      BY <1>1, <2>1, <2>2, Zenon DEF SessionInv, Shape, Settles, Updating, Moves, Roles
    <2>4. Abandoned(s) => Abandoned(s)'
      BY <2>1, <2>2 DEF Abandoned, Moves
    <2> QED
      BY <2>1, <2>2, <2>3, <2>4, QuietStep, SameTypes
  <1>3. CASE OtherCloses(s)
    <2>1. /\ closing' = [closing EXCEPT ![s] = TRUE]
          /\ UNCHANGED <<transport, disconnect_started, buffered, pending, step, call>>
          /\ UNCHANGED <<inbound_accounted, overlapped>> /\ UNCHANGED accountVars
          /\ ~disconnect_started[s]
      BY <1>3 DEF OtherCloses, byteVars, accountVars
    <2>2. /\ closing' \in [Sessions -> BOOLEAN] /\ closing'[s]
          /\ \A u \in Sessions \ {s} : closing'[u] = closing[u]
      BY <2>1, SameTypes, Zenon
    <2>3. Moves(s, "reader") /\ Moves(s, "other")
      BY <1>1, <2>1 DEF Moves, InboundTypeOK
    <2>4. Shape(s)' /\ (s \notin overlapped => Settles(s)') /\ ~Abandoned(s)
      BY <1>1, <2>1, <2>2, Zenon DEF SessionInv, Shape, Settles, Updating, Abandoned
    <2>5. Elsewhere(s) /\ InboundTypeOK'
      BY <1>1, <2>1, <2>2, Zenon DEF Elsewhere, InboundTypeOK, accountVars
    <2>6. SessionInv(s)'
      BY <1>1, <2>1, <2>4, Zenon DEF SessionInv, Solitary
    <2>7. CounterHolds'
      BY <2>1 DEF InboundInv, CounterHolds, Credited, accountVars
    <2> QED
      BY <2>1, <2>3, <2>4, <2>5, <2>6, <2>7, LocalStep, SameTypes, Zenon DEF accountVars
  <1> QED
    BY <1>2, <1>3

\* What Close does to the session, and where it leaves the reader.
LEMMA CloseMoves ==
    ASSUME InboundInv, NEW s \in Sessions, Close(s)
    PROVE  /\ Moves(s, "reader") /\ closing' \in [Sessions -> BOOLEAN]
           /\ \A u \in Sessions \ {s} : closing'[u] = closing[u]
           /\ \/ step'[s]["reader"] = "end" /\ closing'[s]
              \/ step'[s]["reader"] = "disconnect" /\ call'[s]["reader"].then = "end"
  <1>1. closing' = [closing EXCEPT ![s] = (transport[s] = "WebSocket")]
    BY DEF Close
  <1>2. /\ closing' \in [Sessions -> BOOLEAN] /\ closing'[s] = (transport[s] = "WebSocket")
        /\ \A u \in Sessions \ {s} : closing'[u] = closing[u]
    BY <1>1, SameTypes
  <1>3. "end" \in Labels
    BY DEF Labels
  <1>4. CASE transport[s] = "WebSocket" /\ Goto(s, "reader", "end")
    BY <1>2, <1>3, <1>4, GotoMoves, SameTypes
  <1>5. CASE CallDisconnect(s, "reader", "end")
    BY <1>2, <1>3, <1>5, DisconnectMoves, SameTypes
  <1> QED
    BY <1>4, <1>5, Zenon DEF Close

\* A read: dropped, too much, or buffered.
LEMMA HandleReadStep ==
    ASSUME InboundInv, NEW s \in Sessions, NEW n \in Chunks, HandleRead(s, n)
    PROVE  InboundInv'
  <1>1. /\ step[s]["reader"] = "idle" /\ ~disconnect_started[s]
        /\ UNCHANGED <<transport, disconnect_started, pending>> /\ UNCHANGED accountVars
        /\ UNCHANGED <<inbound_accounted, overlapped>>
        /\ InboundTypeOK /\ SessionInv(s) /\ ~Abandoned(s)
    BY SameTypes DEF HandleRead, At, accountVars, Abandoned
  <1>2. n \in Nat /\ buffered[s] \in 0 .. MaxSession
    BY SameTypes, InboundAssumption
  <1>3. CASE closing[s] /\ UNCHANGED <<closing, buffered, step, call>>
    <2>1. Moves(s, "reader")
      BY <1>1, <1>3 DEF Moves, InboundTypeOK
    <2>2. Shape(s)' /\ (s \notin overlapped => Settles(s)')
      BY <1>1, <1>3, Zenon DEF SessionInv, Shape, Settles, Updating
    <2> QED
      BY <1>1, <1>3, <2>1, <2>2, QuietStep, SameTypes
  <1>4. CASE Close(s) /\ UNCHANGED buffered
    <2>1. Shape(s)' /\ (s \notin overlapped => Settles(s)')
      BY <1>1, <1>4, CloseMoves DEF SessionInv, Shape, Settles, Updating, Moves, Roles
    <2> QED
      BY <1>1, <1>4, <2>1, CloseMoves, QuietStep, SameTypes, ZenonT(30)
  <1>5. CASE /\ buffered[s] + n <= MaxSession
             /\ buffered' = [buffered EXCEPT ![s] = @ + n]
             /\ Update(s, "reader", buffered[s] + n,
                       IF transport[s] = "Detecting" THEN "detect" ELSE "loop")
             /\ UNCHANGED closing
    <2> DEFINE l == IF transport[s] = "Detecting" THEN "detect" ELSE "loop"
               b == buffered[s] + n
    <2>1. b \in 0 .. MaxSession /\ l \in {"detect", "loop"} /\ l \in Labels
      BY <1>2, <1>5, SameTypes DEF Labels
    <2>2. /\ buffered' \in [Sessions -> 0 .. MaxSession] /\ buffered'[s] = b
          /\ \A u \in Sessions \ {s} : buffered'[u] = buffered[u]
      BY <1>5, <2>1, SameTypes, Zenon
    <2> HIDE DEF l, b
    <2>3. /\ Moves(s, "reader") /\ step'[s]["reader"] = "compare"
          /\ call'[s]["reader"].bytes = b /\ call'[s]["reader"].then = l
      BY <1>1, <1>5, <2>1, UpdateMoves, SameTypes DEF l, b
    <2>4. Shape(s)'
      BY <1>1, <2>1, <2>2, <2>3, Zenon DEF SessionInv, Shape, Updating, Moves, Roles
    <2>5. s \notin overlapped => Settles(s)'
      BY <1>1, <2>3, Zenon DEF Settles, Updating
    <2> QED
      BY <1>1, <1>5, <2>2, <2>3, <2>4, <2>5, QuietStep, SameTypes, Zenon
  <1> QED
    BY <1>3, <1>4, <1>5, Zenon DEF HandleRead

\* The steps that only call Disconnect, or jump: the end of a read, of a wait in
\* detection, and of HandleRead.
LEMMA EndStep ==
    ASSUME InboundInv, NEW s \in Sessions, ReadEnds(s) \/ DetectWaits(s) \/ PostRead(s)
    PROVE  InboundInv'
  <1>1. /\ UNCHANGED <<transport, closing, disconnect_started, buffered, pending>>
        /\ UNCHANGED accountVars /\ UNCHANGED <<inbound_accounted, overlapped>>
        /\ InboundTypeOK /\ SessionInv(s)
        /\ "end" \in Labels /\ "idle" \in Labels /\ "done" \in Labels
    BY SameTypes DEF ReadEnds, DetectWaits, PostRead, sessionVars, byteVars, accountVars, Labels
  <1>2. CASE step[s]["reader"] = "idle" /\ CallDisconnect(s, "reader", "done")
    <2>1. /\ Moves(s, "reader") /\ step'[s]["reader"] = "disconnect"
          /\ call'[s]["reader"].then = "done"
      BY <1>1, <1>2, DisconnectMoves, SameTypes
    <2>2. Shape(s)' /\ (s \notin overlapped => Settles(s)')
      BY <1>1, <1>2, <2>1, Zenon DEF SessionInv, Shape, Settles, Updating, Moves, Roles, InboundTypeOK
    <2>3. Abandoned(s) => Abandoned(s)'
      BY <1>1, <2>1, Zenon DEF Abandoned, Moves
    <2> QED
      BY <1>1, <1>2, <2>1, <2>2, <2>3, QuietStep, SameTypes, Zenon
  <1>3. CASE /\ step[s]["reader"] \in {"detect", "end"}
             /\ CallDisconnect(s, "reader", "end") \/ CallDisconnect(s, "reader", "done")
    <2>1. /\ Moves(s, "reader") /\ step'[s]["reader"] = "disconnect"
          /\ call'[s]["reader"].then \in {"end", "done"}
      BY <1>1, <1>3, DisconnectMoves, SameTypes
    <2>2. Shape(s)' /\ (s \notin overlapped => Settles(s)') /\ ~Abandoned(s)
      BY <1>1, <1>3, <2>1, Zenon
        DEF SessionInv, Shape, Settles, Updating, Moves, Roles, InboundTypeOK, Abandoned
    <2> QED
      BY <1>1, <1>3, <2>1, <2>2, QuietStep, SameTypes, Zenon
  <1>4. CASE /\ step[s]["reader"] \in {"detect", "end"}
             /\ Goto(s, "reader", "end") \/ Goto(s, "reader", "idle")
    <2>1. Moves(s, "reader") /\ step'[s]["reader"] \in {"end", "idle"}
      BY <1>1, <1>4, GotoMoves, SameTypes
    <2>2. Shape(s)' /\ (s \notin overlapped => Settles(s)') /\ ~Abandoned(s)
      BY <1>1, <1>4, <2>1, Zenon
        DEF SessionInv, Shape, Settles, Updating, Moves, Roles, InboundTypeOK, Abandoned
    <2> QED
      BY <1>1, <1>4, <2>1, <2>2, QuietStep, SameTypes, Zenon
  <1> QED
    BY <1>2, <1>3, <1>4 DEF ReadEnds, DetectWaits, PostRead, At

\* The reader counts what it has just put in the buffer, or what is left there.
LEMMA RecountStep ==
    ASSUME InboundInv, NEW s \in Sessions, NEW b \in 0 .. MaxSession,
           NEW l \in {"append", "loop", "end"},
           step[s]["reader"] \in {"detect", "append", "loop"},
           Update(s, "reader", b, l), buffered' = [buffered EXCEPT ![s] = b],
           /\ transport' \in [Sessions -> {"Detecting", "RawTcp", "WebSocket"}]
           /\ pending' \in [Sessions -> 0 .. MaxSession],
           UNCHANGED <<closing, disconnect_started>>, UNCHANGED accountVars
    PROVE  InboundInv'
  <1>1. /\ UNCHANGED <<inbound_accounted, overlapped>> /\ InboundTypeOK /\ SessionInv(s)
        /\ l \in Labels
    BY SameTypes DEF accountVars, Labels
  <1>2. /\ buffered' \in [Sessions -> 0 .. MaxSession] /\ buffered'[s] = b
        /\ \A u \in Sessions \ {s} : buffered'[u] = buffered[u]
    BY SameTypes, Zenon
  <1>3. /\ Moves(s, "reader") /\ step'[s]["reader"] = "compare"
        /\ call'[s]["reader"].bytes = b /\ call'[s]["reader"].then = l
    BY <1>1, UpdateMoves, SameTypes
  <1>4. Shape(s)'
    BY <1>1, <1>2, <1>3, Zenon DEF SessionInv, Shape, Updating, Moves, Roles
  <1>5. s \notin overlapped => Settles(s)'
    BY <1>1, <1>3, Zenon DEF Settles, Updating
  <1>6. ~Abandoned(s)
    BY SameTypes DEF Abandoned
  <1> QED
    BY <1>1, <1>2, <1>3, <1>4, <1>5, <1>6, QuietStep, SameTypes, Zenon

\* Detection hands the rest on, the decoder takes it, and the loop ends.
LEMMA HandOnStep ==
    ASSUME InboundInv, NEW s \in Sessions,
           DetectRaw(s) \/ DetectWebSocket(s) \/ AppendPending(s) \/ LoopEnds(s)
    PROVE  InboundInv'
  <1>1. buffered[s] \in 0 .. MaxSession /\ pending[s] \in 0 .. MaxSession
    BY SameTypes
  <1>2. ASSUME NEW chosen \in {"RawTcp", "WebSocket"}, NEW rest \in 0 .. MaxSession,
               Detect(s, chosen, rest)
        PROVE  InboundInv'
    <2>1. /\ transport' \in [Sessions -> {"Detecting", "RawTcp", "WebSocket"}]
          /\ pending' \in [Sessions -> 0 .. MaxSession]
      BY <1>2, SameTypes DEF Detect
    <2> QED
      BY <1>2, <2>1, RecountStep, NoCallType, Zenon DEF Detect, At
  <1>3. CASE DetectRaw(s)
    BY <1>1, <1>2, <1>3 DEF DetectRaw
  <1>4. CASE DetectWebSocket(s)
    <2>1. PICK rest \in 0 .. buffered[s] - 1 : Detect(s, "WebSocket", rest)
      BY <1>4 DEF DetectWebSocket
    <2>2. rest \in 0 .. MaxSession
      BY <1>1, <2>1, SameTypes
    <2> QED
      BY <1>2, <2>1, <2>2
  <1>5. CASE AppendPending(s)
    <2>1. pending' \in [Sessions -> 0 .. MaxSession]
      BY <1>5, SameTypes, NoCallType DEF AppendPending
    <2>2. UNCHANGED <<transport, closing, disconnect_started>>
      BY <1>5 DEF AppendPending, sessionVars
    <2>3. step[s]["reader"] = "append" /\ UNCHANGED accountVars
      BY <1>5, Zenon DEF AppendPending, At
    <2>4. CASE closing[s] /\ Goto(s, "reader", "end") /\ UNCHANGED buffered
      <3>1. /\ InboundTypeOK /\ SessionInv(s) /\ "end" \in Labels /\ ~Abandoned(s)
            /\ UNCHANGED <<inbound_accounted, overlapped>>
        BY <2>3, SameTypes DEF Labels, Abandoned, accountVars
      <3>2. Moves(s, "reader") /\ step'[s]["reader"] = "end"
        BY <2>4, <3>1, GotoMoves, SameTypes
      <3>3. Shape(s)' /\ (s \notin overlapped => Settles(s)')
        BY <2>2, <2>3, <2>4, <3>1, <3>2, Zenon
          DEF SessionInv, Shape, Settles, Updating, Moves, Roles, InboundTypeOK
      <3> QED
        BY <2>1, <2>2, <2>3, <2>4, <3>1, <3>2, <3>3, QuietStep, SameTypes, ZenonT(30)
    <2>5. CASE /\ buffered' = [buffered EXCEPT ![s] = pending[s]]
               /\ Update(s, "reader", pending[s], "loop")
      BY <1>1, <2>1, <2>2, <2>3, <2>5, RecountStep, SameTypes, Zenon
    <2> QED
      BY <1>5, <2>4, <2>5, Zenon DEF AppendPending
  <1>6. CASE LoopEnds(s)
    <2>1. UNCHANGED <<transport, closing, disconnect_started, buffered, pending>>
      BY <1>6 DEF LoopEnds, sessionVars, byteVars
    <2>2. buffered' = [buffered EXCEPT ![s] = buffered[s]]
      BY <2>1, SameTypes
    <2> QED
      BY <1>1, <1>6, <2>1, <2>2, RecountStep, SameTypes, Zenon DEF LoopEnds, At
  <1> QED
    BY <1>3, <1>4, <1>5, <1>6

\* A turn of the decoding loop takes bytes out of the buffer, uncounted.
LEMMA DecodeStep ==
    ASSUME InboundInv, NEW s \in Sessions, NEW k \in 0 .. buffered[s], Decode(s, k)
    PROVE  InboundInv'
  <1>1. /\ step[s]["reader"] = "loop" /\ ~disconnect_started[s]
        /\ buffered' = [buffered EXCEPT ![s] = @ - k]
        /\ UNCHANGED <<transport, disconnect_started, pending>> /\ UNCHANGED accountVars
        /\ UNCHANGED <<inbound_accounted, overlapped>>
        /\ InboundTypeOK /\ SessionInv(s) /\ ~Abandoned(s)
    BY SameTypes DEF Decode, At, accountVars, Abandoned
  <1>2. buffered[s] - k \in 0 .. MaxSession /\ buffered[s] - k <= buffered[s]
    BY SameTypes
  <1>3. /\ buffered' \in [Sessions -> 0 .. MaxSession] /\ buffered'[s] = buffered[s] - k
        /\ \A u \in Sessions \ {s} : buffered'[u] = buffered[u]
    BY <1>1, <1>2, SameTypes, Zenon
  <1>4. /\ inbound_accounted[s] \in 0 .. MaxSession /\ buffered[s] \in 0 .. MaxSession
        /\ s \notin overlapped => inbound_accounted[s] >= buffered'[s]
    <2>1. s \notin overlapped => inbound_accounted[s] >= buffered[s]
      BY <1>1 DEF SessionInv, Settles, Updating
    <2> QED
      BY <1>2, <1>3, <2>1, SameTypes
  <1>5. CASE UNCHANGED <<closing, step, call>>
    <2>1. Moves(s, "reader")
      BY <1>1, <1>5 DEF Moves, InboundTypeOK
    <2>2. Shape(s)' /\ (s \notin overlapped => Settles(s)')
      BY <1>1, <1>3, <1>4, <1>5, Zenon DEF SessionInv, Shape, Settles, Updating
    <2> QED
      BY <1>1, <1>3, <1>5, <2>1, <2>2, QuietStep, SameTypes, Zenon
  <1>6. CASE Close(s)
    <2>1. Shape(s)' /\ (s \notin overlapped => Settles(s)')
      BY <1>1, <1>3, <1>4, <1>6, CloseMoves, ZenonT(30)
        DEF SessionInv, Shape, Settles, Updating, Moves, Roles
    <2> QED
      BY <1>1, <1>3, <1>6, <2>1, CloseMoves, QuietStep, SameTypes, Zenon
  <1> QED
    BY <1>5, <1>6, Zenon DEF Decode
-----------------------------------------------------------------------------
\* The sessions start with no bytes.
LEMMA InboundInitInv == InboundInit => InboundInv
  <1> SUFFICES ASSUME InboundInit PROVE InboundInv
    OBVIOUS
  <1>1. \A s \in Sessions, t \in Roles : step[s][t] = "idle" /\ call[s][t] = NoCall
    BY DEF InboundInit
  <1>2. \A s \in Sessions : SessionInv(s)
    BY <1>1 DEF InboundInit, SessionInv, Shape, Solitary, Settles, Updating, Roles
  <1>3. Credited \in Amounts /\ \A s \in Sessions : Credited[s] = 0
    BY <1>1, NoCallType DEF InboundInit, Credited, Roles, Amounts
  <1>4. Total(Credited, Sessions) = 0
    <2>1. Total(Credited, Sessions) = Total(Credited, {})
      BY <1>3, TotalDrop, Sessions \in SUBSET Sessions, {} \in SUBSET Sessions
    <2>2. Tokens(Credited, {}) = {}
      BY DEF Tokens
    <2>3. Cardinality(Tokens(Credited, {})) = 0
      BY <2>2, FS_EmptySet, Zenon
    <2> QED
      BY <2>1, <2>3, TotalTokens, Zenon
  <1>5. CounterHolds /\ Blamed
    BY <1>4, Zenon DEF InboundInit, CounterHolds, Blamed
  <1>6. 0 \in 0 .. Width - 1
    <2>1. Total(Credited, Sessions) < Width
      BY <1>3, TotalBound, Sessions \in SUBSET Sessions, Zenon
    <2> QED
      BY <1>4, <2>1, InboundAssumption
  <1>7. InboundTypeOK
    BY <1>6, NoCallType DEF InboundInit, InboundTypeOK, Labels, Roles
  <1> QED
    BY <1>2, <1>5, <1>7 DEF InboundInv

\* Every step keeps the invariant.
LEMMA InboundNextInv == InboundInv /\ [InboundNext]_inboundVars => InboundInv'
  <1> SUFFICES ASSUME InboundInv, [InboundNext]_inboundVars PROVE InboundInv'
    OBVIOUS
  <1>1. CASE InboundNext
    BY <1>1, CompareStep, CountStep, StoreStep, DisconnectStep, OtherStep, HandleReadStep,
       EndStep, HandOnStep, DecodeStep, Zenon DEF InboundNext
  <1>2. CASE UNCHANGED inboundVars
    <2> USE <1>2 DEF inboundVars, sessionVars, byteVars, accountVars
    <2>1. InboundTypeOK' /\ (\A s \in Sessions : SessionInv(s)')
      BY DEF InboundInv, InboundTypeOK, SessionInv, Shape, Solitary, Settles, Updating
    <2>2. CounterHolds' /\ Blamed'
      BY Zenon DEF InboundInv, CounterHolds, Credited, Blamed, Abandoned
    <2> QED
      BY <2>1, <2>2 DEF InboundInv
  <1> QED
    BY <1>1, <1>2

\* The invariant says what the runs check of the counter and the sessions' counts.
LEMMA InboundInvExact == InboundInv => InboundExact /\ LimitDeserved
  <1> SUFFICES ASSUME InboundInv PROVE InboundExact /\ LimitDeserved
    OBVIOUS
  <1>1. ASSUME overlapped = {}, \A s \in Sessions : AtRest(s)
        PROVE  inbound_bytes = Total(inbound_accounted, Sessions)
    <2>1. \A s \in Sessions : step[s]["reader"] # "store" /\ step[s]["other"] # "store"
      BY <1>1 DEF AtRest, Roles
    <2>2. \A s \in Sessions : Credited[s] = inbound_accounted[s]
      BY <2>1, Zenon DEF Credited
    <2> QED
      BY <1>1, <2>2, TotalSame, ZenonT(30) DEF InboundInv, CounterHolds
  <1>2. SettledAccount
    BY DEF InboundInv, SessionInv, Settles, SettledAccount, AtRest, Updating, Roles
  <1>3. LimitDeserved
    BY Zenon DEF InboundInv, Blamed, Abandoned, LimitDeserved
  <1> QED
    BY <1>1, <1>2, <1>3, Zenon DEF InboundInv, InboundExact, CounterIsSum

\* inbound_bytes is the sum of what the sessions have accounted, and they have
\* accounted what they buffer, for any number of sessions, any limits and any sizes
\* of reads, as long as no two threads are in UpdateInboundAccounting for one session.
THEOREM InboundCounted == InboundSpec => []InboundExact
  <1>1. InboundInit => InboundInv
    BY InboundInitInv
  <1>2. InboundInv /\ [InboundNext]_inboundVars => InboundInv'
    BY InboundNextInv
  <1>3. InboundInv => InboundExact
    BY InboundInvExact
  <1> QED
    BY <1>1, <1>2, <1>3, PTL DEF InboundSpec

\* A session that the global limit ends below that limit has been ended for bytes a
\* session that is gone left in the counter, or after two threads' updates overlapped.
THEOREM InboundLimit == InboundSpec => []LimitDeserved
  <1>1. InboundInit => InboundInv
    BY InboundInitInv
  <1>2. InboundInv /\ [InboundNext]_inboundVars => InboundInv'
    BY InboundNextInv
  <1>3. InboundInv => LimitDeserved
    BY InboundInvExact
  <1> QED
    BY <1>1, <1>2, <1>3, PTL DEF InboundSpec

-----------------------------------------------------------------------------
(* ObjectPool.                                                             *)

\* A thread holds a slot while it is in Create or Destroy, and the slot it
\* destroys still has its object.
Holds ==
    \A t \in Threads :
        /\ pc[t] = "idle" <=> held[t] = Null
        /\ pc[t] = "destroying" => slot[held[t]] = Object

\* allocated_ is set for the slots under construction, and for those with an
\* object that nobody destroys.
Bits ==
    \A s \in Slots :
        allocated[s] <=> \/ \E t \in Threads : pc[t] = "constructing" /\ held[t] = s
                         \/ slot[s] = Object /\ \A t \in Threads : held[t] # s

\* order has the n free slots from the end of the list to its head.
Listed(n, order) ==
    /\ order \in [1 .. n -> Free]
    /\ \A i, j \in 1 .. n : order[i] = order[j] => i = j
    /\ \A s \in Free : \E i \in 1 .. n : order[i] = s
    /\ free_head = IF n = 0 THEN Null ELSE order[n]
    /\ \A i \in 1 .. n : slot[order[i]] = IF i = 1 THEN Null ELSE order[i - 1]

ListSound == \E n \in Nat : \E order : Listed(n, order)

IInv == TypeOK /\ OneOwner /\ Holds /\ Bits /\ ListSound /\ ChecksSilent

\* Null and Object, the values of Slot that are no slot.
LEMMA Values == Null \notin Slots /\ Object \notin Slots /\ Null # Object /\ 1 \in Slots
  BY PoolAssumption DEF Null, Object, Slots

\* The head and what follows a free slot are free.
LEMMA ListLinks ==
    ASSUME ListSound
    PROVE  /\ free_head \in Free \cup {Null}
           /\ \A s \in Free : slot[s] \in Free \cup {Null}
  <1>1. PICK n \in Nat : \E order : Listed(n, order)
    BY Zenon DEF ListSound
  <1>2. PICK order : Listed(n, order)
    BY <1>1, Zenon
  <1>3. n # 0 => n \in 1 .. n
    OBVIOUS
  <1>4. \A i \in 1 .. n : i # 1 => i - 1 \in 1 .. n
    OBVIOUS
  <1>5. free_head \in Free \cup {Null}
    BY <1>2, <1>3, Zenon DEF Listed
  <1>6. \A i \in 1 .. n : slot[order[i]] \in Free \cup {Null}
    BY <1>2, <1>4, Zenon DEF Listed
  <1> QED
    BY <1>2, <1>5, <1>6, Zenon DEF Listed

\* A list of the same slots with the same links.
LEMMA ListSame ==
    ASSUME ListSound, Free' = Free, free_head' = free_head,
           \A s \in Free : slot'[s] = slot[s]
    PROVE  ListSound'
  <1>1. PICK n \in Nat : \E order : Listed(n, order)
    BY Zenon DEF ListSound
  <1>2. PICK order : Listed(n, order)
    BY <1>1, Zenon
  <1>3. \A i \in 1 .. n : slot'[order[i]] = slot[order[i]]
    BY <1>2, Zenon DEF Listed
  <1>4. Listed(n, order)'
    BY <1>2, <1>3, Zenon DEF Listed
  <1> QED
    BY <1>4, Zenon DEF ListSound

\* A list without its head.
LEMMA ListPop ==
    ASSUME ListSound, free_head # Null, Free' = Free \ {free_head},
           free_head' = slot[free_head], slot' = slot
    PROVE  ListSound'
  <1>1. PICK n \in Nat : \E order : Listed(n, order)
    BY Zenon DEF ListSound
  <1>2. PICK order : Listed(n, order)
    BY <1>1, Zenon
  <1>3. n \in 1 .. n /\ n - 1 \in Nat /\ free_head = order[n] /\ n # 0
    BY <1>2 DEF Listed
  <1> DEFINE rest == [i \in 1 .. n - 1 |-> order[i]]
  <1>4. /\ \A i \in 1 .. n - 1 : i \in 1 .. n /\ i # n
        /\ \A i \in 1 .. n : i # n => i \in 1 .. n - 1
        /\ \A i \in 1 .. n - 1 : i # 1 => i - 1 \in 1 .. n - 1
    BY <1>3
  <1>5. \A i \in 1 .. n - 1 : rest[i] = order[i] /\ order[i] \in Free \ {free_head}
    <2>1. \A i \in 1 .. n : order[i] \in Free
      BY <1>2, Zenon DEF Listed
    <2>2. \A i \in 1 .. n : order[i] = order[n] => i = n
      BY <1>2, <1>3, Zenon DEF Listed
    <2> QED
      BY <1>3, <1>4, <2>1, <2>2
  <1>6. rest \in [1 .. n - 1 -> Free']
    BY <1>5, Zenon
  <1>7. \A i, j \in 1 .. n - 1 : rest[i] = rest[j] => i = j
    BY <1>2, <1>4, <1>5, Zenon DEF Listed
  <1>8. \A s \in Free' : \E i \in 1 .. n - 1 : rest[i] = s
    BY <1>2, <1>3, <1>4, <1>5, Zenon DEF Listed
  <1>9. free_head' = IF n - 1 = 0 THEN Null ELSE rest[n - 1]
    <2>1. slot[order[n]] = IF n = 1 THEN Null ELSE order[n - 1]
      BY <1>2, <1>3, Zenon DEF Listed
    <2>2. n # 1 => n - 1 \in 1 .. n - 1 /\ n - 1 # 0
      BY <1>3
    <2>3. n = 1 => n - 1 = 0
      BY <1>3
    <2> QED
      BY <1>3, <1>5, <2>1, <2>2, <2>3, Zenon
  <1>10. \A i \in 1 .. n - 1 : slot'[rest[i]] = IF i = 1 THEN Null ELSE rest[i - 1]
    <2>1. \A i \in 1 .. n : slot[order[i]] = IF i = 1 THEN Null ELSE order[i - 1]
      BY <1>2, Zenon DEF Listed
    <2> QED
      BY <1>4, <1>5, <2>1, Zenon
  <1> HIDE DEF rest
  <1>11. Listed(n - 1, rest)'
    BY <1>6, <1>7, <1>8, <1>9, <1>10, Zenon DEF Listed
  <1> QED
    BY <1>3, <1>11, Zenon DEF ListSound

\* A list with a new head.
LEMMA ListPush ==
    ASSUME ListSound, NEW r, r \notin Free, r # Null, Free' = Free \cup {r},
           free_head' = r, slot'[r] = free_head, \A s \in Free : slot'[s] = slot[s]
    PROVE  ListSound'
  <1>1. PICK n \in Nat : \E order : Listed(n, order)
    BY Zenon DEF ListSound
  <1>2. PICK order : Listed(n, order)
    BY <1>1, Zenon
  <1> DEFINE longer == [i \in 1 .. n + 1 |-> IF i = n + 1 THEN r ELSE order[i]]
  <1>3. /\ n + 1 \in Nat /\ n + 1 # 0 /\ n + 1 \in 1 .. n + 1 /\ n + 1 - 1 = n
        /\ \A i \in 1 .. n : i \in 1 .. n + 1 /\ i # n + 1
        /\ \A i \in 1 .. n + 1 : i # n + 1 => i \in 1 .. n
        /\ \A i \in 1 .. n : i # 1 => i - 1 \in 1 .. n
        /\ n = 0 <=> n + 1 = 1
        /\ n # 0 => n \in 1 .. n
    OBVIOUS
  <1>4. longer[n + 1] = r /\ \A i \in 1 .. n : longer[i] = order[i] /\ order[i] \in Free
    <2>1. \A i \in 1 .. n : order[i] \in Free
      BY <1>2, Zenon DEF Listed
    <2> QED
      BY <1>3, <2>1, Zenon
  <1>5. longer \in [1 .. n + 1 -> Free']
    BY <1>3, <1>4, Zenon
  <1>6. \A i, j \in 1 .. n + 1 : longer[i] = longer[j] => i = j
    <2>1. \A i, j \in 1 .. n : order[i] = order[j] => i = j
      BY <1>2, Zenon DEF Listed
    <2> HIDE DEF longer
    <2> QED
      BY <1>3, <1>4, <2>1
  <1>7. \A s \in Free' : \E i \in 1 .. n + 1 : longer[i] = s
    BY <1>2, <1>3, <1>4, Zenon DEF Listed
  <1>8. \A i \in 1 .. n + 1 : slot'[longer[i]] = IF i = 1 THEN Null ELSE longer[i - 1]
    <2>1. \A i \in 1 .. n : slot'[longer[i]] = IF i = 1 THEN Null ELSE longer[i - 1]
      BY <1>2, <1>3, <1>4, Zenon DEF Listed
    <2>2. slot'[longer[n + 1]] = IF n + 1 = 1 THEN Null ELSE longer[n + 1 - 1]
      BY <1>2, <1>3, <1>4, ZenonT(30) DEF Listed
    <2> HIDE DEF longer
    <2> QED
      BY <1>3, <2>1, <2>2
  <1> HIDE DEF longer
  <1>9. Listed(n + 1, longer)'
    BY <1>3, <1>4, <1>5, <1>6, <1>7, <1>8, Zenon DEF Listed
  <1> QED
    BY <1>3, <1>9, Zenon DEF ListSound

\* The constructor links every slot into the list.
LEMMA InitIInv == Init => IInv
  <1> SUFFICES ASSUME Init PROVE IInv
    OBVIOUS
  <1>1. \A s \in Slots : /\ Link(s) \in Slots \cup {Null} /\ Link(s) # 1
                         /\ \A r \in Slots : s # r /\ Link(s) # Null => Link(s) # Link(r)
    BY PoolAssumption DEF Link, Slots, Null
  <1>2. TypeOK /\ ChecksSilent
    BY <1>1, Values DEF Init, TypeOK, ChecksSilent
  <1>3. OneOwner /\ Holds /\ Bits
    BY <1>1, Values DEF Init, OneOwner, Holds, Bits
  <1>4. Free = Slots
    BY <1>1, Values DEF Init, Free
  <1>5. ListSound
    <2> DEFINE order == [i \in 1 .. Capacity |-> Capacity + 1 - i]
    <2>1. order \in [1 .. Capacity -> Slots] /\ Capacity \in Nat /\ Capacity # 0
      BY PoolAssumption DEF Slots
    <2>2. \A i, j \in 1 .. Capacity : order[i] = order[j] => i = j
      BY PoolAssumption
    <2>3. \A s \in Slots : Capacity + 1 - s \in 1 .. Capacity /\ order[Capacity + 1 - s] = s
      BY PoolAssumption DEF Slots
    <2>4. free_head = order[Capacity]
      BY PoolAssumption DEF Init
    <2>5. \A i \in 1 .. Capacity : slot[order[i]] = IF i = 1 THEN Null ELSE order[i - 1]
      BY PoolAssumption DEF Init, Slots, Link
    <2> HIDE DEF order
    <2>6. Listed(Capacity, order)
      BY <1>4, <2>1, <2>2, <2>3, <2>4, <2>5, Zenon DEF Listed
    <2> QED
      BY <2>1, <2>6, Zenon DEF ListSound
  <1> QED
    BY <1>2, <1>3, <1>5 DEF IInv

\* Create takes the head, which is free: its bit is clear.
LEMMA CreateStep == ASSUME IInv, NEW t \in Threads, Create(t) PROVE IInv'
  <1>1. /\ free_head \in Free /\ free_head \in Slots /\ slot[free_head] # Object
        /\ \A u \in Threads : held[u] # free_head
    BY ListLinks, Values DEF IInv, Create, Free
  <1>2. ~allocated[free_head]
    BY <1>1, Zenon DEF IInv, Bits
  <1>3. /\ free_head' = slot[free_head] /\ slot' = slot /\ thrown' = thrown
        /\ allocated' = [allocated EXCEPT ![free_head] = TRUE]
        /\ pc' = [pc EXCEPT ![t] = "constructing"]
        /\ held' = [held EXCEPT ![t] = free_head]
        /\ pc[t] = "idle"
    BY <1>2 DEF Create
  <1>4. held[t] = Null
    BY <1>3 DEF IInv, Holds
  <1>5. TypeOK' /\ ChecksSilent'
    BY <1>1, <1>3, ListLinks DEF IInv, TypeOK, ChecksSilent, Free
  <1>6. OneOwner'
    BY <1>1, <1>3, Values DEF IInv, TypeOK, OneOwner
  <1>7. Holds'
    BY <1>1, <1>3, Values DEF IInv, TypeOK, Holds
  <1>8. Bits'
    BY <1>1, <1>3, <1>4, Values DEF IInv, TypeOK, Bits
  <1>9. Free' = Free \ {free_head}
    BY <1>1, <1>3, <1>4, Values DEF IInv, TypeOK, Free
  <1>10. ListSound'
    BY <1>1, <1>3, <1>9, ListPop, Values DEF IInv
  <1> QED
    BY <1>5, <1>6, <1>7, <1>8, <1>10 DEF IInv

\* An object constructed in a slot of its own touches no link.
LEMMA ConstructStep == ASSUME IInv, NEW t \in Threads, Construct(t) PROVE IInv'
  <1>1. /\ held[t] \in Slots /\ slot[held[t]] # Object
        /\ \A u \in Threads : u # t => held[u] # held[t]
    BY Values DEF IInv, TypeOK, Holds, OneOwner, Construct
  <1>2. TypeOK' /\ ChecksSilent'
    BY <1>1, Values DEF IInv, TypeOK, ChecksSilent, Construct
  <1>3. OneOwner'
    BY <1>1, Values DEF IInv, TypeOK, OneOwner, Holds, Construct
  <1>4. Holds'
    BY <1>1, Values DEF IInv, TypeOK, Holds, Construct
  <1>5. Bits'
    BY <1>1, Values DEF IInv, TypeOK, Bits, Construct
  <1>6. Free' = Free
    BY <1>1, Values DEF IInv, TypeOK, Free, Construct
  <1>7. \A s \in Free : s # held[t]
    BY DEF Free
  <1>8. ListSound'
    BY <1>1, <1>6, <1>7, ListSame DEF IInv, TypeOK, Construct
  <1> QED
    BY <1>2, <1>3, <1>4, <1>5, <1>8 DEF IInv

\* A slot that goes back is linked before the head, and nothing links to it.
LEMMA PushFreeStep ==
    ASSUME IInv, NEW t \in Threads, held[t] # Null, PushFree(t)
    PROVE  /\ ListSound' /\ OneOwner' /\ Holds' /\ ChecksSilent'
           /\ (allocated \in [Slots -> BOOLEAN])' => TypeOK'
  <1>1. held[t] \in Slots /\ \A u \in Threads : u # t => held[u] # held[t]
    BY Values DEF IInv, TypeOK, OneOwner
  <1>2. free_head \in Slots \cup {Null} /\ free_head # held[t]
    BY <1>1, ListLinks, Values DEF IInv, Free
  <1>3. Free' = Free \cup {held[t]}
    BY <1>1, <1>2, Values DEF IInv, TypeOK, Free, PushFree
  <1>4. held[t] \notin Free /\ \A s \in Free : slot'[s] = slot[s]
    BY <1>1, Values DEF IInv, TypeOK, Free, PushFree
  <1>5. slot'[held[t]] = free_head /\ free_head' = held[t]
    BY <1>1 DEF IInv, TypeOK, PushFree
  <1>6. ListSound'
    BY <1>1, <1>3, <1>4, <1>5, ListPush, Values DEF IInv
  <1>7. OneOwner'
    BY <1>1, <1>2, Values DEF IInv, TypeOK, OneOwner, Holds, PushFree
  <1>8. Holds'
    BY <1>1, <1>2, Values DEF IInv, TypeOK, Holds, PushFree
  <1>9. ChecksSilent' /\ ((allocated \in [Slots -> BOOLEAN])' => TypeOK')
    BY <1>1, <1>2 DEF IInv, TypeOK, ChecksSilent, PushFree
  <1> QED
    BY <1>6, <1>7, <1>8, <1>9

\* A constructor that throws gives its slot back, bit and all.
LEMMA ConstructThrowsStep == ASSUME IInv, NEW t \in Threads, ConstructThrows(t) PROVE IInv'
  <1>1. /\ held[t] \in Slots /\ held[t] # Null /\ slot[held[t]] # Object
        /\ \A u \in Threads : u # t => held[u] # held[t]
    BY Values DEF IInv, TypeOK, Holds, OneOwner, ConstructThrows
  <1>2. free_head # Object
    BY Values DEF IInv, TypeOK
  <1>3. Bits'
    BY <1>1, <1>2, Values DEF IInv, TypeOK, Bits, ConstructThrows, PushFree
  <1>4. (allocated \in [Slots -> BOOLEAN])'
    BY <1>1 DEF IInv, TypeOK, ConstructThrows
  <1> QED
    BY <1>1, <1>3, <1>4, PushFreeStep DEF IInv, ConstructThrows

\* Destroy finds the bit of a living object set.
LEMMA DestroyStep ==
    ASSUME IInv, NEW t \in Threads, NEW s \in Slots, Destroy(t, s) PROVE IInv'
  <1>1. slot[s] = Object /\ \A u \in Threads : held[u] # s
    BY DEF Destroy
  <1>2. allocated[s]
    BY <1>1, Zenon DEF IInv, Bits
  <1>3. /\ allocated' = [allocated EXCEPT ![s] = FALSE]
        /\ pc' = [pc EXCEPT ![t] = "destroying"] /\ held' = [held EXCEPT ![t] = s]
        /\ thrown' = thrown /\ slot' = slot /\ free_head' = free_head
        /\ pc[t] = "idle"
    BY <1>2 DEF Destroy
  <1>4. held[t] = Null
    BY <1>3 DEF IInv, Holds
  <1>5. TypeOK' /\ ChecksSilent'
    BY <1>3 DEF IInv, TypeOK, ChecksSilent
  <1>6. OneOwner'
    BY <1>1, <1>3, Values DEF IInv, TypeOK, OneOwner
  <1>7. Holds'
    BY <1>1, <1>3, Values DEF IInv, TypeOK, Holds
  <1>8. Bits'
    BY <1>1, <1>3, <1>4, Values DEF IInv, TypeOK, Bits
  <1>9. Free' = Free
    BY <1>1, <1>3, <1>4, Values DEF IInv, TypeOK, Free
  <1>10. ListSound'
    BY <1>3, <1>9, ListSame DEF IInv
  <1> QED
    BY <1>5, <1>6, <1>7, <1>8, <1>10 DEF IInv

\* The second section of Destroy: the bit is clear since the first.
LEMMA DestroyedStep == ASSUME IInv, NEW t \in Threads, Destroyed(t) PROVE IInv'
  <1>1. /\ held[t] \in Slots /\ held[t] # Null
        /\ \A u \in Threads : u # t => held[u] # held[t]
    BY Values DEF IInv, TypeOK, Holds, OneOwner, Destroyed
  <1>2. free_head # Object /\ pc[t] = "destroying"
    BY Values DEF IInv, TypeOK, Destroyed
  <1>3. ~allocated[held[t]]
    BY <1>1, <1>2 DEF IInv, Bits
  <1>4. Bits'
    BY <1>1, <1>2, <1>3, Values DEF IInv, TypeOK, Bits, Destroyed, PushFree
  <1>5. (allocated \in [Slots -> BOOLEAN])'
    BY DEF IInv, TypeOK, Destroyed
  <1> QED
    BY <1>1, <1>4, <1>5, PushFreeStep DEF IInv, Destroyed

\* Every step of Create and Destroy keeps the list sound.
LEMMA NextIInv == IInv /\ [Next]_vars => IInv'
  <1> SUFFICES ASSUME IInv, [Next]_vars PROVE IInv'
    OBVIOUS
  <1>1. CASE UNCHANGED vars
    BY <1>1 DEF vars, IInv, TypeOK, OneOwner, Holds, Bits, ListSound, Listed, ChecksSilent, Free
  <1>2. CASE Next
    BY <1>2, CreateStep, ConstructStep, ConstructThrowsStep, DestroyStep, DestroyedStep
       DEF Next
  <1> QED
    BY <1>1, <1>2

\* For every capacity and number of threads, "free-list corruption" and "double
\* free detected" are never thrown to a caller that destroys an object once.
THEOREM PoolChecksSilent == Spec => []ChecksSilent
  <1>1. IInv => ChecksSilent
    BY DEF IInv
  <1> QED
    BY InitIInv, NextIInv, <1>1, PTL DEF Spec

\* For every capacity and number of threads, a slot TypedObjectPool hands out has
\* one owner until it is back in the list.
THEOREM PoolOneOwner == Spec => []OneOwner
  <1>1. IInv => OneOwner
    BY DEF IInv
  <1> QED
    BY InitIInv, NextIInv, <1>1, PTL DEF Spec

\* A set of natural numbers that is not empty has a least element.
LEMMA LeastElement ==
    ASSUME NEW T \in SUBSET Nat, T # {}
    PROVE  \E m \in T : \A k \in T : m <= k
  <1> DEFINE less == OpToRel(<, Nat)
  <1>1. IsWellFoundedOn(less, Nat)
    BY NatLessThanWellFounded
  <1>2. \A x, y \in Nat : y < x => <<y, x>> \in less
    BY DEF OpToRel
  <1> HIDE DEF less
  <1>3. PICK x \in T : \A y \in T : <<y, x>> \notin less
    BY <1>1, WFMin, Zenon
  <1>4. \A y \in T : ~(y < x)
    BY <1>2, <1>3, Zenon
  <1> QED
    BY ONLY <1>4, T \in SUBSET Nat, x \in T, SMT

\* Following the links from the head visits the slots of the list, one after the
\* other, and then stays at null.
LEMMA ChainFollows ==
    ASSUME NEW n \in Nat, NEW order, Listed(n, order), Free \subseteq Slots,
           NEW k \in 0 .. Capacity
    PROVE  Chain[k] = IF k < n THEN order[n - k] ELSE Null
  <1> DEFINE walk == [i \in 0 .. Capacity |-> IF i < n THEN order[n - i] ELSE Null]
             Links(f, i) == IF i = 0 THEN free_head
                            ELSE LET c == f[i - 1] IN IF c \in Slots THEN slot[c] ELSE Null
  <1>1. /\ \A i \in 1 .. n : order[i] \in Slots
        /\ free_head = IF n = 0 THEN Null ELSE order[n]
        /\ \A i \in 1 .. n : slot[order[i]] = IF i = 1 THEN Null ELSE order[i - 1]
    BY DEF Listed
  <1>2. ASSUME NEW i \in 0 .. Capacity PROVE walk[i] = Links(walk, i)
    <2>1. CASE i = 0
      BY <1>1, <2>1, PoolAssumption
    <2>2. CASE i # 0
      <3>1. /\ i - 1 \in 0 .. Capacity /\ i \in Nat /\ i > 0
            /\ walk[i - 1] = IF i - 1 < n THEN order[n - (i - 1)] ELSE Null
            /\ walk[i] = IF i < n THEN order[n - i] ELSE Null
        BY <2>2, PoolAssumption
      <3>2. CASE i - 1 < n
        <4>1. n - (i - 1) \in 1 .. n /\ n - (i - 1) - 1 = n - i
              /\ (i < n <=> n - (i - 1) # 1)
          BY <3>1, <3>2
        <4>2. walk[i - 1] \in Slots
          BY <1>1, <3>1, <3>2, <4>1, Zenon
        <4>3. slot[walk[i - 1]] = IF n - (i - 1) = 1 THEN Null ELSE order[n - i]
          BY <1>1, <3>1, <3>2, <4>1, Zenon
        <4> HIDE DEF walk
        <4> QED
          BY <2>2, <3>1, <4>1, <4>2, <4>3, Zenon
      <3>3. CASE ~(i - 1 < n)
        <4>1. ~(i < n)
          BY <3>1, <3>3
        <4> HIDE DEF walk
        <4> QED
          BY <2>2, <3>1, <3>3, <4>1, Values, Zenon
      <3> QED
        BY <3>2, <3>3
    <2> QED
      BY <2>1, <2>2
  <1>3. walk = [i \in 0 .. Capacity |-> Links(walk, i)]
    BY <1>2, Zenon
  <1>4. Chain = [i \in 0 .. Capacity |-> Links(Chain, i)]
    <2>1. \E f : f = [i \in 0 .. Capacity |-> Links(f, i)]
      BY <1>3, Zenon
    <2> QED
      BY <2>1, Zenon DEF Chain
  <1> DEFINE wrong == {i \in 0 .. Capacity : Chain[i] # walk[i]}
  <1>5. ASSUME wrong # {} PROVE FALSE
    <2>1. PICK m \in wrong : \A i \in wrong : m <= i
      <3>1. wrong \in SUBSET Nat
        BY PoolAssumption
      <3> QED
        BY <1>5, <3>1, LeastElement, Zenon
    <2>2. m \in 0 .. Capacity /\ Chain[m] # walk[m]
      BY <2>1
    <2>3. m # 0 => m - 1 \in 0 .. Capacity /\ m - 1 \notin wrong
      BY <2>1, <2>2, PoolAssumption
    <2>4. m # 0 => Chain[m - 1] = walk[m - 1]
      BY <2>3, Zenon
    <2>5. Chain[m] = Links(Chain, m) /\ walk[m] = Links(walk, m)
      BY <1>2, <1>4, <2>2, Zenon
    <2> QED
      BY <2>2, <2>4, <2>5, Zenon
  <1>6. Chain[k] = walk[k]
    BY <1>5, Zenon
  <1> QED
    BY <1>6

\* The invariant says that the free list is sound.
LEMMA ListIsChain == IInv => FreeListIsChain
  <1> SUFFICES ASSUME IInv PROVE FreeListIsChain
    OBVIOUS
  <1>0. Capacity \in Int
    BY PoolAssumption
  <1>1. Free \subseteq Slots /\ IsFiniteSet(Slots) /\ Cardinality(Slots) = Capacity
    <2>1. IsFiniteSet(Slots) /\ Cardinality(Slots) = IF 1 > Capacity THEN 0 ELSE Capacity - 1 + 1
      BY FS_Interval, <1>0, 1 \in Int, Zenon DEF Slots
    <2> QED
      BY <2>1, PoolAssumption DEF Free
  <1>2. PICK n \in Nat : \E order : Listed(n, order)
    BY Zenon DEF IInv, ListSound
  <1>3. PICK order : Listed(n, order)
    BY <1>2, Zenon
  <1>4. IsFiniteSet(1 .. n) /\ Cardinality(1 .. n) = n
    <2>1. IsFiniteSet(1 .. n) /\ Cardinality(1 .. n) = IF 1 > n THEN 0 ELSE n - 1 + 1
      BY FS_Interval, 1 \in Int, n \in Int, Zenon
    <2> QED
      BY <2>1
  <1>5. Cardinality(Free) = n
    <2>1. order \in Bijection(1 .. n, Free)
      BY <1>3 DEF Listed, Bijection, Injection, Surjection, IsInjective
    <2>2. ExistsBijection(1 .. n, Free)
      BY <2>1 DEF ExistsBijection
    <2> QED
      BY <1>4, <2>2, FS_Bijection, Zenon
  <1>6. n <= Capacity
    <2>1. Cardinality(Free) <= Cardinality(Slots)
      BY <1>1, FS_Subset
    <2> QED
      BY <1>1, <1>5, <2>1
  <1>7. \A k \in 0 .. Capacity : Chain[k] = IF k < n THEN order[n - k] ELSE Null
    BY <1>1, <1>3, ChainFollows
  <1>8. n \in 0 .. Capacity /\ \A i \in 1 .. n : n - i \in 0 .. Capacity /\ n - i < n
        /\ n - (n - i) = i
    BY <1>6, PoolAssumption
  <1>9. Chain[Cardinality(Free)] = Null
    BY <1>5, <1>7, <1>8
  <1>10. \A k \in 0 .. Capacity : k < n => n - k \in 1 .. n
    BY PoolAssumption
  <1>11. \A s \in Free : s # Null /\ \E k \in 0 .. Capacity : Chain[k] = s
    <2> SUFFICES ASSUME NEW s \in Free PROVE s # Null /\ \E k \in 0 .. Capacity : Chain[k] = s
      OBVIOUS
    <2>1. PICK i \in 1 .. n : order[i] = s
      BY <1>3, Zenon DEF Listed
    <2>2. Chain[n - i] = order[n - (n - i)]
      BY <1>7, <1>8, Zenon
    <2>3. Chain[n - i] = s /\ n - i \in 0 .. Capacity
      BY <1>8, <2>1, <2>2, Zenon
    <2> QED
      BY <1>1, <2>3, Values, Zenon
  <1>12. \A k \in 0 .. Capacity : Chain[k] # Null => Chain[k] \in Free
    BY <1>3, <1>7, <1>10, Zenon DEF Listed
  <1>13. {Chain[k] : k \in 0 .. Capacity} \ {Null} = Free
    BY <1>11, <1>12, Zenon
  <1> QED
    BY <1>9, <1>13, Zenon DEF IInv, FreeListIsChain, FreeListSound

\* For every capacity and number of threads, the free list of TypedObjectPool is one
\* chain through exactly the free slots: no slot is lost, and none is in it twice.
THEOREM PoolListIsChain == Spec => []FreeListIsChain
  BY InitIInv, NextIInv, ListIsChain, PTL DEF Spec
=============================================================================
