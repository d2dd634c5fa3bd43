----------------------------- MODULE LimitProofs -----------------------------
(***************************************************************************)
(* What is counted against a limit: the bytes and items that the outbound  *)
(* queues reserve, for every set of queues, budget and limit; and the      *)
(* messages a session sends in a second, for every rate.                   *)
(***************************************************************************)
EXTENDS OutboundQueue, Delivery, FiniteSetTheorems, TLAPS

\* SMT is tried first and Zenon next, except where a leaf names Zenon.
USE SMTT(30), ZenonT(20)

-----------------------------------------------------------------------------
(* Sums.                                                                   *)

\* The interval 1 .. n has n elements.
LEMMA IntervalSize ==
    ASSUME NEW n \in Nat
    PROVE  IsFiniteSet(1 .. n) /\ Cardinality(1 .. n) = n
  <1>1. IsFiniteSet(1 .. n) /\ Cardinality(1 .. n) = IF 1 > n THEN 0 ELSE n - 1 + 1
    BY FS_Interval, 1 \in Int, n \in Int, Zenon
  <1>2. QED
    BY <1>1

\* A sum is a number, at most max for each element.
LEMMA SumType ==
    ASSUME NEW f, NEW S, NEW max \in Nat, IsFiniteSet(S)
    PROVE  /\ IsFiniteSet(Units(f, S, max)) /\ SumOf(f, S, max) \in Nat
           /\ Cardinality(S) * max \in Nat /\ SumOf(f, S, max) <= Cardinality(S) * max
  <1>1. IsFiniteSet(1 .. max) /\ Cardinality(1 .. max) = max
    BY IntervalSize
  <1>2. /\ IsFiniteSet(S \X (1 .. max))
        /\ Cardinality(S \X (1 .. max)) = Cardinality(S) * max
    BY <1>1, FS_Product, Zenon
  <1>3. Units(f, S, max) \in SUBSET (S \X (1 .. max))
    BY DEF Units
  <1>4. /\ IsFiniteSet(Units(f, S, max))
        /\ Cardinality(Units(f, S, max)) <= Cardinality(S) * max
    <2>1. /\ IsFiniteSet(Units(f, S, max))
          /\ Cardinality(Units(f, S, max)) <= Cardinality(S \X (1 .. max))
      BY <1>2, <1>3, FS_Subset, Zenon
    <2> QED
      BY <1>2, <2>1, Zenon
  <1>5. Cardinality(Units(f, S, max)) \in Nat /\ Cardinality(S) \in Nat
    BY <1>4, FS_CardinalityType, Zenon
  <1>6. Cardinality(S) * max \in Nat
    BY <1>5
  <1> QED
    BY <1>4, <1>5, <1>6, Zenon DEF SumOf

\* An element's share comes out of a sum.
LEMMA SumSplit ==
    ASSUME NEW f, NEW S, NEW max \in Nat, IsFiniteSet(S), NEW s \in S, f[s] \in 0 .. max
    PROVE  SumOf(f, S, max) = SumOf(f, S \ {s}, max) + f[s]
  <1> DEFINE own == {s} \X (1 .. f[s])
             rest == Units(f, S \ {s}, max)
  <1>1. f[s] \in Nat /\ f[s] <= max
    OBVIOUS
  <1>2. IsFiniteSet(1 .. f[s]) /\ Cardinality(1 .. f[s]) = f[s]
    BY <1>1, IntervalSize
  <1>3. IsFiniteSet({s}) /\ Cardinality({s}) = 1
    BY FS_Singleton, Zenon
  <1>4. IsFiniteSet(own) /\ Cardinality(own) = 1 * f[s]
    <2>1. \A T : IsFiniteSet(T) =>
              IsFiniteSet({s} \X T) /\ Cardinality({s} \X T) = Cardinality({s}) * Cardinality(T)
      BY <1>3, FS_Product, Zenon
    <2> QED
      BY <1>2, <1>3, <2>1, Zenon
  <1>5. Units(f, S, max) = rest \cup own
    <2>1. \A p \in Units(f, S, max) : p \in rest \cup own
      BY <1>1 DEF Units
    <2>2. \A p \in own : p \in Units(f, S, max)
      BY <1>1 DEF Units
    <2>3. \A p \in rest : p \in Units(f, S, max)
      BY DEF Units
    <2> QED
      BY <2>1, <2>2, <2>3, Zenon
  <1>6. rest \cap own = {}
    BY DEF Units
  <1>7. IsFiniteSet(S \ {s})
    BY FS_Subset, S \ {s} \in SUBSET S, Zenon
  <1>8. IsFiniteSet(rest) /\ Cardinality(rest) \in Nat
    BY <1>7, SumType, Zenon DEF SumOf
  <1>9. IsFiniteSet(rest \cap own) /\ Cardinality(rest \cap own) = 0
    BY <1>6, FS_EmptySet, Zenon
  <1>10. Cardinality(rest \cup own)
             = Cardinality(rest) + Cardinality(own) - Cardinality(rest \cap own)
    BY <1>4, <1>8, FS_Union, Zenon
  <1>11. /\ SumOf(f, S, max) = Cardinality(rest \cup own)
         /\ SumOf(f, S \ {s}, max) = Cardinality(rest)
    BY <1>5, Zenon DEF SumOf
  <1> HIDE DEF own, rest
  <1> QED
    BY <1>1, <1>4, <1>8, <1>9, <1>10, <1>11

\* A sum depends on the values at its elements only.
LEMMA SumSame ==
    ASSUME NEW f, NEW g, NEW S, NEW max, \A u \in S : f[u] = g[u]
    PROVE  SumOf(f, S, max) = SumOf(g, S, max)
  <1>1. \A p \in S \X (1 .. max) : f[p[1]] = g[p[1]]
    OBVIOUS
  <1>2. Units(f, S, max) = Units(g, S, max)
    BY <1>1, Zenon DEF Units
  <1> QED
    BY <1>2, Zenon DEF SumOf

\* Elements without a share add nothing to it.
LEMMA SumDrop ==
    ASSUME NEW f, NEW S, NEW max \in Nat, NEW T \in SUBSET S, \A u \in S \ T : f[u] = 0
    PROVE  SumOf(f, S, max) = SumOf(f, T, max)
  <1>1. Units(f, S, max) = Units(f, T, max)
    BY DEF Units
  <1> QED
    BY <1>1, Zenon DEF SumOf

\* The sum of nothing, or of zeros, is 0.
LEMMA SumZero ==
    ASSUME NEW f, NEW S, NEW max \in Nat, \A u \in S : f[u] = 0
    PROVE  SumOf(f, S, max) = 0
  <1>1. Units(f, S, max) = {}
    BY DEF Units
  <1> QED
    BY <1>1, FS_EmptySet, Zenon DEF SumOf

\* A change of one element's value changes the sum by as much.
LEMMA SumChange ==
    ASSUME NEW f, NEW g, NEW S, NEW max \in Nat, IsFiniteSet(S), NEW s \in S,
           f[s] \in 0 .. max, g[s] \in 0 .. max, \A u \in S \ {s} : g[u] = f[u]
    PROVE  /\ SumOf(f, S, max) \in Nat /\ f[s] <= SumOf(f, S, max)
           /\ SumOf(g, S, max) = SumOf(f, S, max) - f[s] + g[s]
  <1>1. IsFiniteSet(S \ {s})
    BY FS_Subset, S \ {s} \in SUBSET S, Zenon
  <1>2. SumOf(f, S, max) = SumOf(f, S \ {s}, max) + f[s]
    BY SumSplit, Zenon
  <1>3. SumOf(g, S, max) = SumOf(g, S \ {s}, max) + g[s]
    BY SumSplit, Zenon
  <1>4. SumOf(g, S \ {s}, max) = SumOf(f, S \ {s}, max)
    BY SumSame
  <1>5. SumOf(f, S \ {s}, max) \in Nat
    BY <1>1, SumType, Zenon
  <1> QED
    BY <1>2, <1>3, <1>4, <1>5

\* Two disjoint sets' sums add up.
LEMMA SumUnion ==
    ASSUME NEW f, NEW S, NEW T, NEW max \in Nat, IsFiniteSet(S), IsFiniteSet(T), S \cap T = {}
    PROVE  SumOf(f, S \cup T, max) = SumOf(f, S, max) + SumOf(f, T, max)
  <1> DEFINE A == Units(f, S, max)
             B == Units(f, T, max)
  <1>1. Units(f, S \cup T, max) = A \cup B
    BY Zenon DEF Units
  <1>2. A \cap B = {}
    BY DEF Units
  <1>3. IsFiniteSet(A) /\ Cardinality(A) \in Nat /\ IsFiniteSet(B) /\ Cardinality(B) \in Nat
    BY SumType, Zenon DEF SumOf
  <1>4. SumOf(f, S, max) = Cardinality(A) /\ SumOf(f, T, max) = Cardinality(B)
        /\ SumOf(f, S \cup T, max) = Cardinality(A \cup B)
    BY <1>1, Zenon DEF SumOf
  <1> HIDE DEF A, B
  <1>5. Cardinality(A \cup B) = Cardinality(A) + Cardinality(B) - Cardinality(A \cap B)
    BY <1>3, FS_Union, Zenon
  <1>6. Cardinality(A \cap B) = 0
    BY <1>2, FS_EmptySet, Zenon
  <1> QED
    BY <1>3, <1>4, <1>5, <1>6

\* A subset's sum is no larger.
LEMMA SumMonotone ==
    ASSUME NEW f, NEW S, NEW T \in SUBSET S, NEW max \in Nat, IsFiniteSet(S)
    PROVE  /\ SumOf(f, S, max) \in Nat /\ SumOf(f, T, max) \in Nat
           /\ SumOf(f, T, max) <= SumOf(f, S, max)
  <1>1. IsFiniteSet(Units(f, S, max)) /\ SumOf(f, S, max) \in Nat
    BY SumType, Zenon
  <1>2. Units(f, T, max) \in SUBSET Units(f, S, max)
    BY Zenon DEF Units
  <1>3. IsFiniteSet(T)
    BY FS_Subset, Zenon
  <1>4. SumOf(f, T, max) \in Nat
    BY <1>3, SumType, Zenon
  <1>5. Cardinality(Units(f, T, max)) <= Cardinality(Units(f, S, max))
    BY <1>1, <1>2, FS_Subset, Zenon
  <1> QED
    BY <1>1, <1>4, <1>5, Zenon DEF SumOf

\* A sum is the same one place further on.
LEMMA SumShift ==
    ASSUME NEW f, NEW g, NEW S \in SUBSET Int, NEW T \in SUBSET Int, NEW max \in Nat, IsFiniteSet(S),
           \A a \in S : a + 1 \in T /\ g[a + 1] = f[a], \A a \in T : a - 1 \in S
    PROVE  SumOf(g, T, max) = SumOf(f, S, max)
  <1> DEFINE A == Units(f, S, max)
             B == Units(g, T, max)
             m == [p \in A |-> <<p[1] + 1, p[2]>>]
  <1>1. \A p \in A : p[1] \in S /\ p[2] \in 1 .. max /\ p[2] <= f[p[1]] /\ p = <<p[1], p[2]>>
    BY DEF Units
  <1>2. \A p \in B : p[1] \in T /\ p[2] \in 1 .. max /\ p[2] <= g[p[1]] /\ p = <<p[1], p[2]>>
    BY DEF Units
  <1>3. \A a \in S, u \in 1 .. max : u <= f[a] => <<a, u>> \in A
    BY DEF Units
  <1>4. \A a \in T, u \in 1 .. max : u <= g[a] => <<a, u>> \in B
    BY DEF Units
  <1>5. IsFiniteSet(A)
    BY SumType, Zenon
  <1> HIDE DEF A, B
  <1>6. ASSUME NEW p \in A PROVE <<p[1] + 1, p[2]>> \in B
    <2>1. p[1] \in S /\ p[2] \in 1 .. max /\ p[2] <= f[p[1]]
      BY <1>1, Zenon
    <2>2. p[1] + 1 \in T /\ g[p[1] + 1] = f[p[1]]
      BY <2>1, Zenon
    <2> QED
      BY <1>4, <2>1, <2>2, Zenon
  <1>7. ASSUME NEW q \in B PROVE \E p \in A : m[p] = q
    <2> DEFINE p == <<q[1] - 1, q[2]>>
    <2>1. q[1] \in T /\ q[2] \in 1 .. max /\ q[2] <= g[q[1]] /\ q = <<q[1], q[2]>>
      BY <1>2, Zenon
    <2>2. q[1] - 1 \in S /\ q[1] \in Int
      BY <2>1, Zenon
    <2>3. (q[1] - 1) + 1 = q[1]
      BY <2>2
    <2>4. g[q[1]] = f[q[1] - 1]
      BY <2>2, <2>3, Zenon
    <2>5. p \in A
      BY <1>3, <2>1, <2>2, <2>4, Zenon
    <2>6. m[p] = <<p[1] + 1, p[2]>>
      BY <2>5, Zenon
    <2>7. p[1] = q[1] - 1 /\ p[2] = q[2]
      OBVIOUS
    <2> HIDE DEF p, m
    <2>8. m[p] = q
      BY <2>1, <2>3, <2>6, <2>7, Zenon
    <2> QED
      BY <2>5, <2>8, Zenon
  <1>8. m \in Surjection(A, B)
    <2>1. m \in [A -> B]
      BY <1>6, Zenon
    <2> QED
      BY <1>7, <2>1, Zenon DEF Surjection
  <1>9. m \in Injection(A, B)
    <2>1. ASSUME NEW p \in A, NEW q \in A, m[p] = m[q] PROVE p = q
      <3>1. /\ p[1] \in S /\ q[1] \in S /\ p = <<p[1], p[2]>> /\ q = <<q[1], q[2]>>
        BY <1>1, Zenon
      <3>2. m[p] = <<p[1] + 1, p[2]>> /\ m[q] = <<q[1] + 1, q[2]>>
        BY Zenon
      <3>3. p[1] + 1 = q[1] + 1 /\ p[2] = q[2]
        <4> HIDE DEF m
        <4>1. <<p[1] + 1, p[2]>> = <<q[1] + 1, q[2]>>
          BY <2>1, <3>2, Zenon
        <4>2. \A a, b, c, d : <<a, b>> = <<c, d>> => a = c /\ b = d
          OBVIOUS
        <4> QED
          BY <4>1, <4>2, Zenon
      <3>4. p[1] = q[1]
        BY <3>1, <3>3
      <3> QED
        BY <3>1, <3>3, <3>4, Zenon
    <2>2. m \in [A -> B]
      BY <1>6, Zenon
    <2> QED
      BY <2>1, <2>2, Zenon DEF Injection, IsInjective
  <1> HIDE DEF m
  <1>10. Cardinality(B) = Cardinality(A)
    BY <1>5, <1>8, <1>9, FS_Surjection, Zenon
  <1> QED
    BY <1>10, Zenon DEF SumOf, A, B

-----------------------------------------------------------------------------
(* Delivery.                                                               *)

Most == 2 * MaxMessages + 1

\* The ages of the window's messages, and those of the messages before it.
Current == {a \in Ages : a <= window_age}
Before == {a \in Ages : a > window_age}

\* While the session goes on, the counter is the number of messages younger than the
\* window, and what is older came from one window too.
DeliveryInv ==
    /\ recent \in [Ages -> 0 .. MaxMessages] /\ window_age \in 0 .. Second
    /\ rate_window_messages \in Nat /\ malformed_messages \in Nat
    /\ LimitsExact /\ (limited => ended)
    /\ ~ended =>
           /\ malformed_messages < MalformedLimit
           /\ rate_window_messages <= MaxMessages
           /\ SumOf(recent, Current, Most) <= rate_window_messages
           /\ SumOf(recent, Before, Most) <= MaxMessages
           /\ window_age < Second => SumOf(recent, Current, Most) = rate_window_messages
           /\ window_age = Second => recent[0] = 0

\* The sets of ages are finite, and the window's and the older ones are all of them.
LEMMA AgesSplit ==
    ASSUME NEW w \in Nat
    PROVE  /\ IsFiniteSet(Ages)
           /\ IsFiniteSet({a \in Ages : a <= w}) /\ IsFiniteSet({a \in Ages : a > w})
           /\ {a \in Ages : a <= w} \cup {a \in Ages : a > w} = Ages
           /\ {a \in Ages : a <= w} \cap {a \in Ages : a > w} = {}
  <1>1. 0 \in Int /\ Second - 1 \in Int
    BY DeliveryAssumption
  <1>2. IsFiniteSet(Ages)
    BY <1>1, FS_Interval, Zenon DEF Ages
  <1>3. IsFiniteSet({a \in Ages : a <= w}) /\ IsFiniteSet({a \in Ages : a > w})
    BY <1>2, FS_Subset, Zenon
  <1>4. \A a \in Ages : a <= w <=> ~(a > w)
    BY <1>1 DEF Ages
  <1> QED
    BY <1>2, <1>3, <1>4, Zenon

\* The numbers the invariant relates.
LEMMA DeliveryNumbers ==
    ASSUME DeliveryInv
    PROVE  /\ Second \in Nat /\ Second # 0 /\ MaxMessages \in Nat /\ Most \in Nat
           /\ MaxMessages < Most /\ MalformedLimit \in Nat /\ MalformedLimit # 0
           /\ window_age \in Nat /\ window_age <= Second /\ 0 \in Ages
           /\ rate_window_messages \in Nat /\ malformed_messages \in Nat
           /\ SumOf(recent, Current, Most) \in Nat /\ SumOf(recent, Before, Most) \in Nat
           /\ LastSecond = SumOf(recent, Current, Most) + SumOf(recent, Before, Most)
  <1>1. /\ Second \in Nat /\ Second # 0 /\ MaxMessages \in Nat
        /\ MalformedLimit \in Nat /\ MalformedLimit # 0
    BY DeliveryAssumption
  <1>2. Most \in Nat /\ MaxMessages < Most
    BY <1>1 DEF Most
  <1>3. window_age \in Nat /\ window_age <= Second
    BY <1>1 DEF DeliveryInv
  <1>4. 0 \in Ages
    BY <1>1 DEF Ages
  <1>5. rate_window_messages \in Nat /\ malformed_messages \in Nat
    BY Zenon DEF DeliveryInv
  <1>6. /\ IsFiniteSet(Ages) /\ IsFiniteSet(Current) /\ IsFiniteSet(Before)
        /\ Current \cup Before = Ages /\ Current \cap Before = {}
    BY <1>3, AgesSplit, Zenon DEF Current, Before
  <1>7. SumOf(recent, Current, Most) \in Nat /\ SumOf(recent, Before, Most) \in Nat
    BY <1>2, <1>6, SumType, Zenon
  <1>8. LastSecond = SumOf(recent, Current, Most) + SumOf(recent, Before, Most)
    <2>1. SumOf(recent, Current \cup Before, Most)
              = SumOf(recent, Current, Most) + SumOf(recent, Before, Most)
      BY <1>2, <1>6, SumUnion
    <2> QED
      BY <1>6, <2>1, Zenon DEF LastSecond, Most
  <1> QED
    BY <1>1, <1>2, <1>3, <1>4, <1>5, <1>7, <1>8, Zenon

\* A tick ages every message by one.
LEMMA TickStep ==
    ASSUME DeliveryInv, Tick
    PROVE  DeliveryInv'
  <1> DEFINE w == window_age
             x == IF window_age < Second THEN window_age + 1 ELSE Second
             g == [a \in Ages |-> IF a = 0 THEN 0 ELSE recent[a - 1]]
             Youngest == {a \in Ages : a + 1 \in Ages}
  <1>1. /\ ~ended /\ window_age' = x /\ recent' = g /\ ended' = ended /\ limited' = limited
        /\ rate_window_messages' = rate_window_messages
        /\ malformed_messages' = malformed_messages
    BY Zenon DEF Tick
  <1>2. /\ recent \in [Ages -> 0 .. MaxMessages] /\ malformed_messages < MalformedLimit
        /\ rate_window_messages <= MaxMessages
        /\ SumOf(recent, Current, Most) <= rate_window_messages
        /\ SumOf(recent, Before, Most) <= MaxMessages
        /\ window_age < Second => SumOf(recent, Current, Most) = rate_window_messages
        /\ LimitsExact
    BY <1>1, Zenon DEF DeliveryInv
  <1>3. x \in Nat /\ x <= Second /\ x # 0 /\ (x < Second => x = w + 1)
        /\ (w + 1 = x \/ (w = Second /\ x = Second))
    <2>1. w \in Nat /\ w <= Second /\ Second \in Nat /\ Second # 0
      BY DeliveryNumbers, Zenon
    <2>2. CASE w < Second
      BY <2>1, <2>2
    <2>3. CASE ~(w < Second)
      BY <2>1, <2>3
    <2> QED
      BY <2>2, <2>3, Zenon
  <1>4. \A a \in Ages : a # 0 => a - 1 \in Ages /\ a - 1 \in Youngest
    BY DeliveryNumbers DEF Ages
  <1>5. g \in [Ages -> 0 .. MaxMessages] /\ g[0] = 0
    <2>1. 0 \in 0 .. MaxMessages /\ 0 \in Ages
      BY DeliveryNumbers
    <2>2. \A a \in Ages : a # 0 => recent[a - 1] \in 0 .. MaxMessages
      BY <1>2, <1>4, Zenon
    <2> QED
      BY <2>1, <2>2, Zenon
  <1>6. \A a \in Youngest : a \in Ages /\ a + 1 \in Ages /\ a \in Int /\ a + 1 # 0 /\ (a + 1) - 1 = a
    BY DEF Ages
  <1>7. \A a \in Youngest : g[a + 1] = recent[a]
    BY <1>6, Zenon
  <1>8. \A a \in Youngest : a + 1 <= x <=> a <= w
    BY <1>3, <1>6, DeliveryNumbers DEF Ages
  <1> DEFINE C1 == {a \in Ages : a <= x}
             B1 == {a \in Ages : a > x}
             C0 == {a \in Youngest : a <= w}
             B0 == {a \in Youngest : a > w}
  <1>9. Current' = C1 /\ Before' = B1
    BY <1>1, Zenon DEF Current, Before, Ages
  <1>10. /\ IsFiniteSet(Current) /\ IsFiniteSet(Before) /\ IsFiniteSet(C1)
         /\ C0 \in SUBSET Current /\ B0 \in SUBSET Before
    <2>1. IsFiniteSet(Current) /\ IsFiniteSet(Before) /\ IsFiniteSet(C1)
      <3>1. w \in Nat
        BY DeliveryNumbers, Zenon
      <3> HIDE DEF x
      <3>2. IsFiniteSet(Current) /\ IsFiniteSet(Before)
        BY <3>1, AgesSplit, Zenon DEF Current, Before
      <3> QED
        BY <1>3, <3>2, AgesSplit, Zenon
    <2>2. C0 \in SUBSET Current /\ B0 \in SUBSET Before
      BY <1>6, Zenon DEF Current, Before
    <2> QED
      BY <2>1, <2>2, Zenon
  <1>11. IsFiniteSet(C0) /\ IsFiniteSet(B0)
    BY <1>10, FS_Subset, Zenon
  <1> HIDE DEF g, x
  <1>12. SumOf(g, C1, Most) = SumOf(recent, C0, Most)
    <2> DEFINE D == C1 \ {0}
    <2>1. SumOf(g, C1, Most) = SumOf(g, D, Most)
      <3>1. D \in SUBSET C1 /\ \A u \in C1 \ D : g[u] = 0
        BY <1>5, Zenon
      <3> HIDE DEF D, C1
      <3> QED
        BY <3>1, DeliveryNumbers, SumDrop, Zenon
    <2>2. \A a \in C0 : a + 1 \in D /\ g[a + 1] = recent[a]
      BY <1>6, <1>7, <1>8, Zenon
    <2>3. \A a \in D : a - 1 \in C0
      <3> SUFFICES ASSUME NEW a \in D PROVE a - 1 \in C0
        BY Zenon
      <3>1. a \in Ages /\ a <= x /\ a # 0 /\ a - 1 \in Youngest
        BY <1>4, Zenon
      <3>2. (a - 1) + 1 = a
        BY <3>1 DEF Ages
      <3>3. a - 1 <= w
        BY <1>8, <3>1, <3>2, Zenon
      <3> QED
        BY <3>1, <3>3, Zenon
    <2>4. C0 \in SUBSET Int /\ D \in SUBSET Int
      BY DEF Ages
    <2> HIDE DEF C0, D, C1
    <2>5. SumOf(g, D, Most) = SumOf(recent, C0, Most)
      <3>1. Most \in Nat
        BY DeliveryNumbers, Zenon
      <3> QED
        BY <1>11, <2>2, <2>3, <2>4, <3>1, SumShift
    <2> QED
      BY <2>1, <2>5, Zenon
  <1>13. SumOf(g, B1, Most) = SumOf(recent, B0, Most)
    <2>1. \A a \in B0 : a + 1 \in B1 /\ g[a + 1] = recent[a]
      <3> SUFFICES ASSUME NEW a \in B0 PROVE a + 1 \in B1 /\ g[a + 1] = recent[a]
        BY Zenon
      <3>1. a \in Youngest /\ a > w /\ a + 1 \in Ages /\ a \in Int
        BY <1>6, Zenon
      <3>2. ~(a + 1 <= x)
        <4>1. ~(a <= w)
          BY <3>1, DeliveryNumbers
        <4> QED
          BY <1>8, <3>1, <4>1, Zenon
      <3>3. a + 1 > x
        BY <1>3, <3>1, <3>2
      <3> QED
        BY <1>7, <3>1, <3>3, Zenon
    <2>2. \A a \in B1 : a - 1 \in B0
      <3> SUFFICES ASSUME NEW a \in B1 PROVE a - 1 \in B0
        BY Zenon
      <3>1. a \in Ages /\ a > x
        BY Zenon
      <3>2. a # 0 /\ (a - 1) + 1 = a /\ a \in Int /\ ~(a <= x)
        BY <1>3, <3>1 DEF Ages
      <3>3. a - 1 \in Youngest
        BY <1>4, <3>1, <3>2, Zenon
      <3>4. ~(a - 1 <= w)
        BY <1>8, <3>2, <3>3, Zenon
      <3>5. a - 1 > w
        BY <3>2, <3>4, DeliveryNumbers
      <3> QED
        BY <3>3, <3>5, Zenon
    <2>3. B0 \in SUBSET Int /\ B1 \in SUBSET Int
      BY DEF Ages
    <2> HIDE DEF B0, B1
    <2> QED
      <3>1. Most \in Nat
        BY DeliveryNumbers, Zenon
      <3> QED
        BY <1>11, <2>1, <2>2, <2>3, <3>1, SumShift
  <1>14. /\ SumOf(recent, C0, Most) \in Nat
         /\ SumOf(recent, C0, Most) <= SumOf(recent, Current, Most)
    BY <1>10, DeliveryNumbers, SumMonotone, Zenon
  <1>15. /\ SumOf(recent, B0, Most) \in Nat
         /\ SumOf(recent, B0, Most) <= SumOf(recent, Before, Most)
    BY <1>10, DeliveryNumbers, SumMonotone, Zenon
  <1>16. x < Second => C0 = Current
    <2> SUFFICES ASSUME x < Second, NEW a \in Current PROVE a \in C0
      BY <1>10, Zenon
    <2>1. a \in Ages /\ a <= w
      BY Zenon DEF Current
    <2>2. a + 1 \in Ages
      BY <1>3, <2>1, DeliveryNumbers DEF Ages
    <2> QED
      BY <2>1, <2>2, Zenon
  <1> HIDE DEF C0, C1, B0, B1, Youngest, w
  <1>17. /\ SumOf(recent, Current, Most)' = SumOf(recent, C0, Most)
         /\ SumOf(recent, Before, Most)' = SumOf(recent, B0, Most)
    BY <1>1, <1>9, <1>12, <1>13, Zenon DEF SumOf, Units, Most
  <1> DEFINE s == SumOf(recent, Current, Most)
             t == SumOf(recent, Before, Most)
  <1>18. /\ s \in Nat /\ t \in Nat /\ s' \in Nat /\ t' \in Nat /\ s' <= s /\ t' <= t
         /\ x < Second => s' = s
    BY <1>14, <1>15, <1>16, <1>17, DeliveryNumbers, Zenon
  <1>19. LastSecond' = s' + t'
    <2>1. /\ IsFiniteSet(C1) /\ IsFiniteSet(B1) /\ C1 \cup B1 = Ages /\ C1 \cap B1 = {}
      BY <1>3, AgesSplit, Zenon DEF C1, B1
    <2>2. SumOf(g, C1 \cup B1, Most) = SumOf(g, C1, Most) + SumOf(g, B1, Most)
      <3>1. Most \in Nat
        BY DeliveryNumbers, Zenon
      <3> QED
        BY <2>1, <3>1, SumUnion
    <2>3. LastSecond' = SumOf(g, Ages, Most)
      BY <1>1, Zenon DEF LastSecond, SumOf, Units, Most, Ages
    <2> QED
      BY <1>12, <1>13, <1>17, <2>1, <2>2, <2>3, Zenon
  <1> HIDE DEF s, t
  <1>20. s <= rate_window_messages /\ t <= MaxMessages /\ (window_age < Second => s = rate_window_messages)
    BY <1>2, Zenon DEF s, t
  <1>21. LimitsExact'
    <2>1. TwiceTheRate'
      <3>1. LastSecond' <= 2 * MaxMessages
        BY <1>2, <1>18, <1>19, <1>20, DeliveryNumbers
      <3> QED
        BY <3>1, Zenon DEF TwiceTheRate
    <2>2. ~limited
      BY <1>1, Zenon DEF DeliveryInv
    <2> QED
      BY <1>1, <1>2, <2>1, <2>2, Zenon DEF LimitsExact, LimitIsDeserved, MalformedBound
  <1>22. (~ended =>
            /\ malformed_messages < MalformedLimit
            /\ rate_window_messages <= MaxMessages
            /\ s <= rate_window_messages
            /\ t <= MaxMessages
            /\ window_age < Second => s = rate_window_messages
            /\ window_age = Second => recent[0] = 0)'
    <2>1. s' <= rate_window_messages /\ t' <= MaxMessages
      BY <1>18, <1>20, DeliveryNumbers
    <2>2. x < Second => s' = rate_window_messages
      <3>1. x < Second => window_age < Second
        BY <1>3, DeliveryNumbers DEF w
      <3> QED
        BY <1>18, <1>20, <3>1, Zenon
    <2> QED
      BY <1>1, <1>2, <1>5, <2>1, <2>2, Zenon
  <1>23. x \in 0 .. Second
    BY <1>3, DeliveryNumbers
  <1>24. recent' \in [Ages' -> 0 .. MaxMessages]
    BY <1>1, <1>5, Zenon DEF Ages
  <1>25. (limited => ended)' /\ malformed_messages' \in Nat /\ rate_window_messages' \in Nat
    BY <1>1, DeliveryNumbers, Zenon DEF DeliveryInv
  <1> QED
    BY <1>1, <1>21, <1>22, <1>23, <1>24, <1>25, Zenon DEF DeliveryInv, s, t

\* A message within the rate counts in its window, which may start with it.
LEMMA TakeStep ==
    ASSUME DeliveryInv, NEW d \in {"Accepted", "Malformed", "Close"}, TakeMessage(d)
    PROVE  DeliveryInv'
  <1> DEFINE g == [recent EXCEPT ![0] = @ + 1]
             n == rate_window_messages
             m == malformed_messages
  <1>1. /\ ~ended /\ recent' = g /\ limited' = limited
        /\ rate_window_messages' = Number /\ ~(Number > MaxMessages)
        /\ window_age' = IF WindowOver THEN 0 ELSE window_age
        /\ m' = IF d = "Accepted" THEN m ELSE m + 1
        /\ ended' = (d = "Close" \/ (d = "Malformed" /\ m' >= MalformedLimit))
    BY Zenon DEF TakeMessage, CountMessage, OverRate, TooManyMalformed
  <1>2. /\ recent \in [Ages -> 0 .. MaxMessages] /\ m < MalformedLimit /\ n <= MaxMessages
        /\ SumOf(recent, Current, Most) <= n /\ SumOf(recent, Before, Most) <= MaxMessages
        /\ window_age < Second => SumOf(recent, Current, Most) = n
        /\ window_age = Second => recent[0] = 0
        /\ ~limited
    BY <1>1, Zenon DEF DeliveryInv
  <1>3. /\ m' \in Nat /\ m' <= MalformedLimit
        /\ ~ended' => m' < MalformedLimit
    <2>1. CASE d = "Accepted"
      BY <1>1, <1>2, <2>1, DeliveryNumbers
    <2>2. CASE d = "Malformed"
      <3>1. m' = m + 1
        BY <1>1, <2>2
      <3>2. ended' = (d = "Close" \/ (d = "Malformed" /\ m' >= MalformedLimit))
        BY <1>1, Zenon
      <3>3. ~ended' => ~(m' >= MalformedLimit)
        BY <2>2, <3>2, Zenon
      <3> QED
        BY <1>2, <3>1, <3>3, DeliveryNumbers
    <2>3. CASE d = "Close"
      <3>1. m' = m + 1 /\ ended'
        BY <1>1, <2>3
      <3> QED
        BY <1>2, <3>1, DeliveryNumbers
    <2> QED
      BY <2>1, <2>2, <2>3, Zenon
  <1>4. recent[0] \in Nat /\ 0 \in Ages
    <2>1. recent[0] \in 0 .. MaxMessages /\ 0 \in Ages
      BY <1>2, DeliveryNumbers, Zenon
    <2> QED
      BY <2>1, DeliveryNumbers
  <1>5. g[0] = recent[0] + 1 /\ \A a \in Ages \ {0} : g[a] = recent[a]
    BY <1>2, <1>4, Zenon
  <1> DEFINE v == IF WindowOver THEN 0 ELSE window_age
             C1 == {a \in Ages : a <= v}
             B1 == {a \in Ages : a > v}
  <1>6. Current' = C1 /\ Before' = B1
    BY <1>1, Zenon DEF Current, Before, Ages
  <1>7. v \in Nat /\ v < Second
    <2>1. window_age \in Nat /\ Second \in Nat /\ Second # 0
      BY DeliveryNumbers, Zenon
    <2>2. CASE WindowOver
      BY <2>1, <2>2
    <2>3. CASE ~WindowOver
      BY <2>1, <2>3 DEF WindowOver
    <2> QED
      BY <2>2, <2>3, Zenon
  <1> HIDE DEF v
  <1>8. /\ IsFiniteSet(Ages) /\ IsFiniteSet(C1) /\ IsFiniteSet(B1)
        /\ C1 \cup B1 = Ages /\ C1 \cap B1 = {}
    BY <1>7, AgesSplit, Zenon
  <1>9. 0 \in C1
    BY <1>4, <1>7
  <1> DEFINE c == SumOf(recent, C1, Most)
             b == SumOf(recent, B1, Most)
  <1>10. c \in Nat /\ b \in Nat
    BY <1>8, DeliveryNumbers, SumType, Zenon
  <1>11. /\ c + 1 = Number /\ b <= MaxMessages
    <2>1. CASE WindowOver
      <3>1. v = 0 /\ Number = 0 + 1
        BY <2>1, Zenon DEF v, Number
      <3>2. window_age = Second
        BY <2>1, DeliveryNumbers DEF WindowOver
      <3>3. \A a \in C1 : recent[a] = 0
        <4>1. \A a \in C1 : a = 0
          BY <3>1 DEF Ages
        <4> QED
          BY <1>2, <3>2, <4>1, Zenon
      <3>4. c = 0
        BY <3>3, DeliveryNumbers, SumZero, Zenon
      <3>5. B1 \in SUBSET Current
        BY <3>2, DeliveryNumbers DEF Current, Ages
      <3>6. IsFiniteSet(Current)
        BY AgesSplit, DeliveryNumbers, Zenon DEF Current
      <3>7. b <= SumOf(recent, Current, Most)
        BY <3>5, <3>6, DeliveryNumbers, SumMonotone, Zenon
      <3> HIDE DEF b, c
      <3> QED
        BY <1>2, <1>10, <3>1, <3>4, <3>7, DeliveryNumbers
    <2>2. CASE ~WindowOver
      <3>1. v = window_age /\ Number = n + 1
        BY <2>2, Zenon DEF v, Number
      <3>2. C1 = Current /\ B1 = Before
        BY <3>1, Zenon DEF Current, Before
      <3>3. window_age < Second
        BY <1>7, <3>1, Zenon
      <3> QED
        BY <1>2, <3>1, <3>2, <3>3, Zenon
    <2> QED
      BY <2>1, <2>2, Zenon
  <1>12. recent[0] <= c
    <2>1. recent[0] \in 0 .. Most
      BY <1>2, <1>4, DeliveryNumbers
    <2>2. IsFiniteSet(C1 \ {0})
      BY <1>8, FS_Subset, C1 \ {0} \in SUBSET C1, Zenon
    <2>3. SumOf(recent, C1 \ {0}, Most) \in Nat
      BY <2>2, DeliveryNumbers, SumType, Zenon
    <2> DEFINE e == SumOf(recent, C1 \ {0}, Most)
    <2>4. c = e + recent[0]
      <3>1. Most \in Nat
        BY DeliveryNumbers, Zenon
      <3> HIDE DEF C1
      <3> QED
        BY <1>8, <1>9, <2>1, <3>1, SumSplit
    <2> HIDE DEF c, e
    <2> QED
      BY <1>4, <1>10, <2>3, <2>4 DEF e
  <1>13. Number \in Nat /\ Number <= MaxMessages
    <2> HIDE DEF b, c
    <2> QED
      BY <1>1, <1>10, <1>11, DeliveryNumbers
  <1>14. g[0] \in Nat /\ g[0] <= MaxMessages
    <2> HIDE DEF b, c, g
    <2> QED
      BY <1>4, <1>5, <1>10, <1>11, <1>12, <1>13, DeliveryNumbers
  <1>15. g \in [Ages -> 0 .. MaxMessages]
    <2>1. g[0] \in 0 .. MaxMessages
      BY <1>14, DeliveryNumbers
    <2> QED
      BY <1>2, <1>4, <1>5, <2>1, Zenon
  <1> HIDE DEF g
  <1>16. SumOf(g, C1, Most) = c + 1
    <2>1. recent[0] \in 0 .. Most /\ g[0] \in 0 .. Most
      BY <1>4, <1>5, <1>14, DeliveryNumbers
    <2>2. \A u \in C1 \ {0} : g[u] = recent[u]
      BY <1>5, Zenon
    <2> HIDE DEF C1
    <2>3. SumOf(g, C1, Most) = SumOf(recent, C1, Most) - recent[0] + g[0]
      <3>1. Most \in Nat
        BY DeliveryNumbers, Zenon
      <3> QED
        BY <1>8, <1>9, <2>1, <2>2, <3>1, SumChange
    <2> HIDE DEF c
    <2> QED
      BY <1>4, <1>5, <1>10, <2>3 DEF c
  <1>17. SumOf(g, B1, Most) = b
    <2>1. \A u \in B1 : g[u] = recent[u]
      <3>1. \A u \in B1 : u # 0
        BY <1>7
      <3> QED
        BY <1>5, <3>1, Zenon
    <2> HIDE DEF B1
    <2> QED
      BY <2>1, SumSame
  <1> DEFINE s == SumOf(recent, Current, Most)
             t == SumOf(recent, Before, Most)
  <1>18. s' = c + 1 /\ t' = b
    BY <1>1, <1>6, <1>16, <1>17, Zenon DEF SumOf, Units, Most
  <1>19. LastSecond' = (c + 1) + b
    <2>1. LastSecond' = SumOf(g, C1 \cup B1, Most)
      BY <1>1, <1>8, Zenon DEF LastSecond, SumOf, Units, Most, Ages
    <2>2. Most \in Nat
      BY DeliveryNumbers, Zenon
    <2> HIDE DEF C1, B1
    <2>3. SumOf(g, C1 \cup B1, Most) = SumOf(g, C1, Most) + SumOf(g, B1, Most)
      BY <1>8, <2>2, SumUnion
    <2> QED
      BY <1>16, <1>17, <2>1, <2>3, Zenon
  <1> HIDE DEF s, t, c, b
  <1>20. LimitsExact'
    <2>1. TwiceTheRate'
      <3>1. (c + 1) + b <= 2 * MaxMessages
        BY <1>10, <1>11, <1>13, DeliveryNumbers
      <3> QED
        BY <1>19, <3>1, Zenon DEF TwiceTheRate
    <2> QED
      BY <1>1, <1>2, <1>3, <2>1, Zenon DEF LimitsExact, LimitIsDeserved, MalformedBound
  <1>21. window_age' = v /\ v \in 0 .. Second
    <2>1. v \in 0 .. Second
      BY <1>7, DeliveryNumbers
    <2> QED
      BY <1>1, <2>1, Zenon DEF v
  <1>22. /\ s' <= Number /\ s' = Number /\ t' <= MaxMessages /\ window_age' # Second
    BY <1>7, <1>11, <1>13, <1>18, <1>21, DeliveryNumbers
  <1>23. recent' \in [Ages' -> 0 .. MaxMessages]
    BY <1>1, <1>15, Zenon DEF Ages
  <1> QED
    BY <1>1, <1>2, <1>3, <1>13, <1>20, <1>21, <1>22, <1>23, Zenon DEF DeliveryInv, s, t

\* A message over the rate, or a bad frame, ends the session.
LEMMA EndStep ==
    ASSUME DeliveryInv, RefuseMessage \/ BadFrame
    PROVE  DeliveryInv'
  <1>1. /\ ~ended /\ ended' /\ recent' = recent
    BY Zenon DEF RefuseMessage, BadFrame
  <1>2. /\ recent \in [Ages -> 0 .. MaxMessages] /\ malformed_messages < MalformedLimit
        /\ rate_window_messages <= MaxMessages
        /\ window_age < Second => SumOf(recent, Current, Most) = rate_window_messages
        /\ ~limited /\ LimitsExact
    BY <1>1, Zenon DEF DeliveryInv
  <1>3. LastSecond' = LastSecond /\ TwiceTheRate'
    BY <1>1, <1>2, Zenon DEF LastSecond, LimitsExact, TwiceTheRate, Ages, SumOf, Units
  <1>4. CASE RefuseMessage
    <2>1. /\ malformed_messages' = malformed_messages
          /\ window_age' = IF WindowOver THEN 0 ELSE window_age
          /\ rate_window_messages' = Number /\ Number > MaxMessages
      BY <1>4, Zenon DEF RefuseMessage, CountMessage, OverRate
    <2>2. window_age' \in 0 .. Second
      <3>1. window_age \in 0 .. Second /\ 0 \in 0 .. Second
        BY DeliveryNumbers
      <3> QED
        BY <2>1, <3>1, Zenon
    <2>3. LastSecond >= MaxMessages /\ Number \in Nat
      <3>1. CASE WindowOver
        <4>1. Number = 0 + 1
          BY <3>1, Zenon DEF Number
        <4> QED
          BY <2>1, <4>1, DeliveryNumbers
      <3>2. CASE ~WindowOver
        <4>1. Number = rate_window_messages + 1
          BY <3>2, Zenon DEF Number
        <4>2. window_age < Second
          BY <3>2, DeliveryNumbers DEF WindowOver
        <4>3. SumOf(recent, Current, Most) = rate_window_messages
          BY <1>2, <4>2, Zenon
        <4> QED
          BY <2>1, <4>1, <4>3, DeliveryNumbers
      <3> QED
        BY <3>1, <3>2, Zenon
    <2>4. LimitsExact'
      BY <1>2, <1>3, <2>1, <2>3, Zenon
          DEF LimitsExact, LimitIsDeserved, MalformedBound
    <2>5. recent' \in [Ages' -> 0 .. MaxMessages] /\ malformed_messages' \in Nat
      BY <1>1, <1>2, <2>1, DeliveryNumbers, Zenon DEF Ages
    <2> QED
      BY <1>1, <2>1, <2>2, <2>3, <2>4, <2>5, Zenon DEF DeliveryInv
  <1>5. CASE BadFrame
    <2>1. /\ malformed_messages' = malformed_messages + 1 /\ window_age' = window_age
          /\ rate_window_messages' = rate_window_messages /\ limited' = limited
      BY <1>5, Zenon DEF BadFrame
    <2>2. malformed_messages' \in Nat /\ malformed_messages' <= MalformedLimit
      BY <1>2, <2>1, DeliveryNumbers
    <2>3. LimitsExact'
      BY <1>2, <1>3, <2>1, <2>2, Zenon DEF LimitsExact, LimitIsDeserved, MalformedBound
    <2>4. recent' \in [Ages' -> 0 .. MaxMessages] /\ window_age \in 0 .. Second
      BY <1>1, <1>2, Zenon DEF Ages, DeliveryInv
    <2> QED
      BY <1>1, <2>1, <2>2, <2>3, <2>4, DeliveryNumbers, Zenon DEF DeliveryInv
  <1> QED
    BY <1>4, <1>5, Zenon

\* A session starts with no message.
LEMMA DeliveryInitInv == DeliveryInit => DeliveryInv
  <1> SUFFICES ASSUME DeliveryInit PROVE DeliveryInv
    OBVIOUS
  <1>1. /\ window_age = 0 /\ rate_window_messages = 0 /\ malformed_messages = 0
        /\ ended = FALSE /\ recent = [a \in Ages |-> 0] /\ limited = FALSE
    BY Zenon DEF DeliveryInit
  <1>2. /\ Second \in Nat /\ Second # 0 /\ MaxMessages \in Nat
        /\ MalformedLimit \in Nat /\ MalformedLimit # 0
    BY DeliveryAssumption
  <1>3. Most \in Nat /\ 0 \in 0 .. MaxMessages /\ 0 <= 2 * MaxMessages /\ 0 <= MaxMessages
        /\ 0 \in 0 .. Second /\ 0 # Second /\ 0 < MalformedLimit /\ 0 <= MalformedLimit
        /\ 0 \in Nat /\ 0 <= 0
    BY <1>2 DEF Most
  <1>4. \A a \in Ages : recent[a] = 0
    BY <1>1, Zenon
  <1>5. /\ SumOf(recent, Current, Most) = 0 /\ SumOf(recent, Before, Most) = 0
        /\ SumOf(recent, Ages, Most) = 0
    <2>1. (\A a \in Current : recent[a] = 0) /\ (\A a \in Before : recent[a] = 0)
      BY <1>4, Zenon DEF Current, Before
    <2>2. \A S : (\A a \in S : recent[a] = 0) => SumOf(recent, S, Most) = 0
      BY <1>3, SumZero, Zenon
    <2> QED
      BY <1>4, <2>1, <2>2, Zenon
  <1>6. LimitsExact
    <2>1. TwiceTheRate
      BY <1>3, <1>5, Zenon DEF TwiceTheRate, LastSecond, Most
    <2> QED
      BY <1>1, <1>3, <2>1, Zenon DEF LimitsExact, LimitIsDeserved, MalformedBound
  <1>7. recent \in [Ages -> 0 .. MaxMessages]
    BY <1>1, <1>3, Zenon
  <1> QED
    BY <1>1, <1>3, <1>5, <1>6, <1>7, Zenon DEF DeliveryInv

\* In any second, wherever it begins, at most twice max_messages_per_second messages
\* get through; only a session that sent that many in one is ended for its rate; and
\* none gets past malformed_message_limit: for every length of a second in ticks and
\* every limit.
THEOREM DeliveryLimits == DeliverySpec => []LimitsExact
  <1>1. DeliveryInv /\ [DeliveryNext]_deliveryVars => DeliveryInv'
    <2> SUFFICES ASSUME DeliveryInv, [DeliveryNext]_deliveryVars PROVE DeliveryInv'
      OBVIOUS
    <2>1. CASE Tick
      BY <2>1, TickStep, Zenon
    <2>2. CASE \E d \in {"Accepted", "Malformed", "Close"} : TakeMessage(d)
      BY <2>2, TakeStep, Zenon
    <2>3. CASE RefuseMessage \/ BadFrame
      BY <2>3, EndStep, Zenon
    <2>4. CASE UNCHANGED deliveryVars
      BY <2>4, Zenon
          DEF deliveryVars, DeliveryInv, LimitsExact, TwiceTheRate, LimitIsDeserved,
              MalformedBound, LastSecond, Current, Before, Ages, Most, SumOf, Units
    <2> QED
      BY <2>1, <2>2, <2>3, <2>4, Zenon DEF DeliveryNext
  <1>2. DeliveryInv => LimitsExact
    BY Zenon DEF DeliveryInv
  <1> QED
    BY <1>1, <1>2, DeliveryInitInv, PTL DEF DeliverySpec
-----------------------------------------------------------------------------
(* The outbound queues and their budget.                                   *)

\* The buffers from position k + 1 on weigh this much.
Weight(q, k) == SumOf(accepted[q], k + 1 .. Len(accepted[q]), SessionLimit)

\* The queue holds the buffers accepted after the first k.
Holds(q, k) ==
    /\ k \in Len(popped[q]) .. Len(accepted[q])
    /\ Len(queue[q]) = Len(accepted[q]) - k
    /\ \A i \in 1 .. Len(queue[q]) : queue[q][i] = accepted[q][k + i]

\* What holds of a queue and of the operation that has its mutex.  Close takes the
\* buffers one by one, from the oldest, and counts down while queued_bytes waits.
QueueFrom(q, k) ==
    /\ Holds(q, k)
    /\ \/ /\ work[q].op = "close" /\ closed[q]
          /\ Weight(q, k) = queued_bytes[q] + work[q].bytes
       \/ /\ work[q].op \in {"none", "push", "pop"}
          /\ work[q].op # "none" => ~closed[q]
          /\ work[q].op = "none" => work[q] = Idle
          /\ work[q].bytes >= 0
          /\ k = IF closed[q] THEN Len(accepted[q]) ELSE Len(popped[q])
          /\ Weight(q, k) = queued_bytes[q]

QueueAt(q) == \E k \in Nat : QueueFrom(q, k)

Works == [op : {"none", "push", "pop", "close"}, bytes : Int]

QueueShape ==
    /\ queue \in [Queues -> Seq(0 .. SessionLimit)]
    /\ accepted \in [Queues -> Seq(0 .. SessionLimit)]
    /\ popped \in [Queues -> Seq(0 .. SessionLimit)]
    /\ work \in [Queues -> Works]
    /\ \A q \in Queues : \A i \in 1 .. Len(popped[q]) : popped[q][i] = accepted[q][i]

QueueInv ==
    /\ QueueTypeOK /\ QueueShape
    /\ \A q \in Queues : QueueAt(q)
    /\ Reserved \in [Queues -> 0 .. SessionLimit]
    /\ used = SumOf(Reserved, Queues, SessionLimit)

\* An element of a sequence.
LEMMA SeqElement ==
    ASSUME NEW D, NEW s \in Seq(D), NEW i \in 1 .. Len(s)
    PROVE  s[i] \in D
  OBVIOUS

\* The weight of some buffers is a number ...
LEMMA WeightType ==
    ASSUME NEW s \in Seq(0 .. SessionLimit), NEW k \in Nat
    PROVE  /\ IsFiniteSet(k + 1 .. Len(s)) /\ SessionLimit \in Nat
           /\ SumOf(s, k + 1 .. Len(s), SessionLimit) \in Nat
  <1>1. k + 1 \in Int /\ Len(s) \in Int /\ SessionLimit \in Nat
    BY QueueAssumption
  <1>2. IsFiniteSet(k + 1 .. Len(s))
    BY <1>1, FS_Interval, Zenon
  <1> QED
    BY <1>1, <1>2, SumType, Zenon

\* ... from which the oldest of them can be taken ...
LEMMA WeightFirst ==
    ASSUME NEW s \in Seq(0 .. SessionLimit), NEW k \in Nat, k < Len(s)
    PROVE  SumOf(s, k + 1 .. Len(s), SessionLimit)
               = SumOf(s, (k + 1) + 1 .. Len(s), SessionLimit) + s[k + 1]
  <1> DEFINE S == k + 1 .. Len(s)
             T == (k + 1) + 1 .. Len(s)
             h == k + 1
  <1>1. h \in S /\ s[h] \in 0 .. SessionLimit
    <2>1. h \in S /\ h \in 1 .. Len(s)
      OBVIOUS
    <2> QED
      BY <2>1, SeqElement, Zenon
  <1>2. S \ {h} = T
    OBVIOUS
  <1>3. IsFiniteSet(S) /\ SessionLimit \in Nat
    BY WeightType
  <1> HIDE DEF S, T, h
  <1>4. SumOf(s, S, SessionLimit) = SumOf(s, S \ {h}, SessionLimit) + s[h]
    BY <1>1, <1>3, SumSplit, Zenon
  <1> QED
    BY <1>2, <1>4, Zenon DEF S, T, h

\* ... and to which one can be added.
LEMMA WeightAppend ==
    ASSUME NEW s \in Seq(0 .. SessionLimit), NEW n \in 0 .. SessionLimit, NEW k \in Nat,
           k <= Len(s)
    PROVE  SumOf(Append(s, n), k + 1 .. Len(Append(s, n)), SessionLimit)
               = SumOf(s, k + 1 .. Len(s), SessionLimit) + n
  <1> DEFINE a == Append(s, n)
             l == Len(s) + 1
             S == k + 1 .. Len(a)
             T == k + 1 .. Len(s)
  <1>1. a \in Seq(0 .. SessionLimit) /\ Len(a) = l /\ a[l] = n /\ l \in S
    OBVIOUS
  <1>2. S \ {l} = T
    OBVIOUS
  <1>3. \A i \in T : a[i] = s[i]
    OBVIOUS
  <1>4. IsFiniteSet(S) /\ SessionLimit \in Nat
    BY <1>1, WeightType
  <1> HIDE DEF a, l, S, T
  <1>5. SumOf(a, S, SessionLimit) = SumOf(a, S \ {l}, SessionLimit) + a[l]
    BY <1>1, <1>4, SumSplit, Zenon
  <1>6. SumOf(a, T, SessionLimit) = SumOf(s, T, SessionLimit)
    BY <1>3, SumSame
  <1> QED
    BY <1>1, <1>2, <1>5, <1>6, Zenon DEF a, S, T

\* Nothing weighs nothing.
LEMMA WeightNone ==
    ASSUME NEW s \in Seq(0 .. SessionLimit)
    PROVE  SumOf(s, Len(s) + 1 .. Len(s), SessionLimit) = 0
  <1>1. Len(s) + 1 .. Len(s) = {} /\ SessionLimit \in Nat
    BY QueueAssumption
  <1> QED
    BY <1>1, SumZero, Zenon

\* What a step of an operation on q leaves alone.
OthersKeep(q) ==
    /\ DOMAIN work' = DOMAIN work
    /\ \A u \in Queues \ {q} :
        /\ queue'[u] = queue[u] /\ queued_bytes'[u] = queued_bytes[u]
        /\ closed'[u] = closed[u] /\ work'[u] = work[u]
        /\ accepted'[u] = accepted[u] /\ popped'[u] = popped[u]

\* A step of one queue's operation keeps the invariant if it does for that queue and
\* the budget follows.
LEMMA QueueLocal ==
    ASSUME QueueInv, NEW q \in Queues, OthersKeep(q), QueueTypeOK', QueueShape',
           QueueAt(q)', Reserved'[q] \in 0 .. SessionLimit,
           used' = used - Reserved[q] + Reserved'[q]
    PROVE  QueueInv'
  <1>1. ASSUME NEW u \in Queues \ {q} PROVE QueueAt(u)' /\ Reserved'[u] = Reserved[u]
    <2>1. /\ queue'[u] = queue[u] /\ queued_bytes'[u] = queued_bytes[u]
          /\ closed'[u] = closed[u] /\ work'[u] = work[u]
          /\ accepted'[u] = accepted[u] /\ popped'[u] = popped[u]
      BY Zenon DEF OthersKeep
    <2>2. QueueAt(u)
      BY Zenon DEF QueueInv
    <2>3. Reserved'[u] = Reserved[u]
      BY <2>1, Zenon DEF Reserved
    <2>4. PICK k \in Nat : QueueFrom(u, k)
      BY <2>2, Zenon DEF QueueAt
    <2>5. QueueFrom(u, k)'
      BY <2>1, <2>4 DEF QueueFrom, Holds, Weight
    <2> QED
      BY <2>3, <2>5, Zenon DEF QueueAt
  <1>2. \A u \in Queues : QueueAt(u)'
    BY <1>1, Zenon
  <1>3. Reserved \in [Queues -> 0 .. SessionLimit] /\ used = SumOf(Reserved, Queues, SessionLimit)
    BY Zenon DEF QueueInv
  <1>4. Reserved' \in [Queues -> 0 .. SessionLimit]
    <2>1. \A u \in Queues : Reserved'[u] \in 0 .. SessionLimit
      BY <1>1, <1>3
    <2> QED
      BY <2>1, Zenon DEF Reserved
  <1>5. SumOf(Reserved', Queues, SessionLimit)
            = SumOf(Reserved, Queues, SessionLimit) - Reserved[q] + Reserved'[q]
    <2>1. IsFiniteSet(Queues) /\ SessionLimit \in Nat
      BY QueueAssumption, Zenon
    <2>2. \A u \in Queues \ {q} : Reserved'[u] = Reserved[u]
      BY <1>1, Zenon
    <2>3. Reserved[q] \in 0 .. SessionLimit /\ Reserved'[q] \in 0 .. SessionLimit
      BY <1>3
    <2> DEFINE f == Reserved
               g == Reserved'
    <2> HIDE DEF f, g
    <2>4. /\ \A u \in Queues \ {q} : g[u] = f[u]
          /\ f[q] \in 0 .. SessionLimit /\ g[q] \in 0 .. SessionLimit
      BY <2>2, <2>3, Zenon DEF f, g
    <2>5. SumOf(g, Queues, SessionLimit) = SumOf(f, Queues, SessionLimit) - f[q] + g[q]
      BY <2>1, <2>4, SumChange, SMT
    <2> QED
      BY <2>5, Zenon DEF f, g
  <1> QED
    BY <1>2, <1>3, <1>4, <1>5, Zenon DEF QueueInv

\* What the invariant says of one queue, in numbers.
LEMMA QueueFacts ==
    ASSUME QueueInv, NEW q \in Queues
    PROVE  /\ queued_bytes[q] \in Nat /\ work[q].bytes \in Int /\ closed[q] \in BOOLEAN
           /\ Reserved[q] = queued_bytes[q] + work[q].bytes
           /\ Reserved[q] \in 0 .. SessionLimit /\ SessionLimit \in Nat
           /\ used \in 0 .. GlobalLimit /\ GlobalLimit \in Nat /\ Reserved[q] <= used
           /\ queue[q] \in Seq(0 .. SessionLimit) /\ accepted[q] \in Seq(0 .. SessionLimit)
           /\ popped[q] \in Seq(0 .. SessionLimit) /\ QueueAt(q) /\ work[q] \in Works
  <1>1. /\ queued_bytes[q] \in 0 .. SessionLimit /\ closed[q] \in BOOLEAN
        /\ used \in 0 .. GlobalLimit /\ SessionLimit \in Nat /\ GlobalLimit \in Nat
        /\ IsFiniteSet(Queues)
    BY QueueAssumption, Zenon DEF QueueInv, QueueTypeOK
  <1>2. /\ queue[q] \in Seq(0 .. SessionLimit) /\ accepted[q] \in Seq(0 .. SessionLimit)
        /\ popped[q] \in Seq(0 .. SessionLimit) /\ work[q] \in Works /\ QueueAt(q)
    BY Zenon DEF QueueInv, QueueShape
  <1>3. /\ Reserved[q] = queued_bytes[q] + work[q].bytes
        /\ Reserved[q] \in 0 .. SessionLimit
        /\ used = SumOf(Reserved, Queues, SessionLimit)
    BY Zenon DEF QueueInv, Reserved
  <1>4. Reserved[q] <= used
    BY <1>1, <1>3, SumChange, Zenon
  <1>5. work[q].bytes \in Int /\ queued_bytes[q] \in Nat
    BY <1>1, <1>2 DEF Works
  <1> QED
    BY <1>1, <1>2, <1>3, <1>4, <1>5, Zenon


\* The numbers of these.
LEMMA QueueNumbers ==
    ASSUME QueueInv, NEW q \in Queues
    PROVE  /\ queued_bytes[q] \in Nat /\ work[q].bytes \in Int
           /\ Reserved[q] = queued_bytes[q] + work[q].bytes
           /\ Reserved[q] \in 0 .. SessionLimit /\ SessionLimit \in Nat
           /\ used \in 0 .. GlobalLimit /\ GlobalLimit \in Nat /\ Reserved[q] <= used
  BY QueueFacts, Zenon

\* The test for the limits, which does not wrap.
LEMMA FitsMeans ==
    ASSUME NEW n \in Nat, NEW sum \in Nat, NEW limit \in Nat, limit < Word, Fits(n, sum, limit)
    PROVE  sum + n <= limit
  <1>1. n <= limit /\ sum <= (limit - n) % Word /\ Word \in Nat
    BY QueueAssumption DEF Fits
  <1>2. (limit - n) % Word = limit - n
    BY <1>1
  <1> QED
    BY <1>1, <1>2

\* Push reserves what it will queue.
LEMMA PushStep ==
    ASSUME QueueInv, NEW q \in Queues, NEW n \in Sizes, Push(q, n)
    PROVE  QueueInv'
  <1>1. /\ work[q] = Idle /\ work' = [work EXCEPT ![q] = Work("push", n)] /\ ~closed[q]
        /\ Fits(n, queued_bytes[q], SessionLimit) /\ Fits(n, used, GlobalLimit)
        /\ used' = used + n /\ n \in Nat
        /\ UNCHANGED <<queue, queued_bytes, closed, accepted, popped>>
    BY QueueAssumption, Zenon DEF Push, Lock
  <1>2. QueueInv /\ QueueTypeOK /\ QueueShape
    BY Zenon DEF QueueInv
  <1>3. queued_bytes[q] + n <= SessionLimit /\ used + n <= GlobalLimit
    BY <1>1, QueueFacts, FitsMeans, QueueAssumption
  <1>4. Work("push", n) \in Works /\ Work("push", n).op = "push" /\ Work("push", n).bytes = n
    BY <1>1 DEF Work, Works
  <1>5. work' \in [Queues -> Works] /\ work'[q] = Work("push", n) /\ OthersKeep(q)
    BY <1>1, <1>2, <1>4, Zenon DEF QueueShape, OthersKeep
  <1>6. QueueTypeOK' /\ QueueShape'
    <2>1. used' \in 0 .. GlobalLimit
      BY <1>1, <1>3, QueueFacts
    <2> QED
      BY <1>1, <1>2, <1>5, <2>1, Zenon DEF QueueTypeOK, QueueShape
  <1>7. Idle.op = "none" /\ Idle.bytes = 0
    BY DEF Idle, Work
  <1>8. Reserved'[q] = Reserved[q] + n /\ Reserved'[q] \in 0 .. SessionLimit
    <2>1. Reserved'[q] = queued_bytes[q] + n /\ Reserved[q] = queued_bytes[q] + 0
      BY <1>1, <1>4, <1>5, <1>7, Zenon DEF Reserved
    <2> QED
      BY <1>1, <1>3, <2>1, QueueFacts
  <1>9. QueueAt(q)'
    <2>1. PICK k \in Nat : QueueFrom(q, k)
      BY QueueFacts, Zenon DEF QueueAt
    <2>2. QueueFrom(q, k)'
      BY <1>1, <1>4, <1>5, <1>7, <2>1 DEF QueueFrom, Holds, Weight
    <2> QED
      BY <2>2, Zenon DEF QueueAt
  <1>10. used' = used - Reserved[q] + Reserved'[q]
    BY <1>1, <1>8, QueueFacts
  <1> QED
    BY <1>5, <1>6, <1>8, <1>9, <1>10, QueueLocal, Zenon

\* The rest of Push turns the reservation into queued bytes.
LEMMA PushedStep ==
    ASSUME QueueInv, NEW q \in Queues, Pushed(q)
    PROVE  QueueInv'
  <1> DEFINE n == work[q].bytes
  <1>1. /\ work[q].op = "push" /\ work' = [work EXCEPT ![q] = Idle]
        /\ queue' = [queue EXCEPT ![q] = Append(queue[q], n)]
        /\ queued_bytes' = [queued_bytes EXCEPT ![q] = queued_bytes[q] + n]
        /\ accepted' = [accepted EXCEPT ![q] = Append(accepted[q], n)]
        /\ UNCHANGED <<closed, used, popped>>
    BY DEF Pushed, Unlock
  <1>2. QueueTypeOK /\ QueueShape
    BY Zenon DEF QueueInv
  <1>3. PICK k \in Nat : QueueFrom(q, k)
    BY QueueFacts, Zenon DEF QueueAt
  <1>4. /\ Holds(q, k) /\ ~closed[q] /\ n >= 0 /\ k = Len(popped[q])
        /\ Weight(q, k) = queued_bytes[q]
    BY <1>1, <1>3 DEF QueueFrom
  <1>5. n \in 0 .. SessionLimit /\ queued_bytes[q] + n \in 0 .. SessionLimit
    BY <1>4, QueueNumbers
  <1>6. Idle \in Works /\ Idle.op = "none" /\ Idle.bytes = 0
    BY DEF Idle, Work, Works
  <1> DEFINE b == Append(queue[q], n)
             a == Append(accepted[q], n)
  <1>7. /\ a \in Seq(0 .. SessionLimit) /\ b \in Seq(0 .. SessionLimit)
        /\ Len(a) = Len(accepted[q]) + 1 /\ Len(b) = Len(queue[q]) + 1
        /\ a[Len(a)] = n /\ b[Len(b)] = n
        /\ \A i \in 1 .. Len(accepted[q]) : a[i] = accepted[q][i]
        /\ \A i \in 1 .. Len(queue[q]) : b[i] = queue[q][i]
    BY <1>5, QueueFacts
  <1>8. SumOf(a, k + 1 .. Len(a), SessionLimit) = queued_bytes[q] + n
    <2>1. k <= Len(accepted[q]) /\ accepted[q] \in Seq(0 .. SessionLimit)
      BY <1>4, QueueFacts DEF Holds
    <2>2. SumOf(a, k + 1 .. Len(a), SessionLimit)
              = SumOf(accepted[q], k + 1 .. Len(accepted[q]), SessionLimit) + n
      BY <1>5, <2>1, WeightAppend, Zenon
    <2> QED
      BY <1>4, <2>2, Zenon DEF Weight
  <1> HIDE DEF a, b, n
  <1>9. /\ queue'[q] = b /\ accepted'[q] = a /\ queued_bytes'[q] = queued_bytes[q] + n
        /\ work'[q] = Idle /\ OthersKeep(q)
        /\ queue' \in [Queues -> Seq(0 .. SessionLimit)]
        /\ accepted' \in [Queues -> Seq(0 .. SessionLimit)]
        /\ work' \in [Queues -> Works]
        /\ queued_bytes' \in [Queues -> 0 .. SessionLimit]
    <2>1. /\ queue' = [queue EXCEPT ![q] = b] /\ accepted' = [accepted EXCEPT ![q] = a]
      BY <1>1, Zenon DEF a, b
    <2>2. OthersKeep(q)
      BY <1>1, <1>2, <2>1, Zenon DEF OthersKeep, QueueShape, QueueTypeOK
    <2>3. /\ queued_bytes'[q] = queued_bytes[q] + n
          /\ queued_bytes' \in [Queues -> 0 .. SessionLimit]
      BY <1>1, <1>2, <1>5, Zenon DEF QueueTypeOK
    <2>4. queue'[q] = b /\ queue' \in [Queues -> Seq(0 .. SessionLimit)]
      BY <1>2, <1>7, <2>1, Zenon DEF QueueShape
    <2>5. accepted'[q] = a /\ accepted' \in [Queues -> Seq(0 .. SessionLimit)]
      BY <1>2, <1>7, <2>1, Zenon DEF QueueShape
    <2>6. work'[q] = Idle /\ work' \in [Queues -> Works]
      BY <1>1, <1>2, <1>6, Zenon DEF QueueShape
    <2> QED
      BY <2>2, <2>3, <2>4, <2>5, <2>6, Zenon
  <1>10. QueueTypeOK' /\ QueueShape'
    <2>1. \A u \in Queues : \A i \in 1 .. Len(popped[u]) : popped[u][i] = accepted'[u][i]
      <3>1. ASSUME NEW u \in Queues \ {q}, NEW i \in 1 .. Len(popped[u])
            PROVE  popped[u][i] = accepted'[u][i]
        BY <1>2, <1>9, Zenon DEF QueueShape, OthersKeep
      <3>2. ASSUME NEW i \in 1 .. Len(popped[q]) PROVE popped[q][i] = a[i]
        <4>1. popped[q][i] = accepted[q][i]
          BY <1>2, Zenon DEF QueueShape
        <4>2. i \in 1 .. Len(accepted[q])
          BY <1>4, QueueFacts DEF Holds
        <4> QED
          BY <1>7, <4>1, <4>2, Zenon
      <3> QED
        BY <1>9, <3>1, <3>2, Zenon
    <2> QED
      BY <1>1, <1>2, <1>9, <2>1, Zenon DEF QueueTypeOK, QueueShape
  <1>11. QueueAt(q)'
    <2>1. Holds(q, k)'
      <3>1. /\ k \in Len(popped[q]) .. Len(accepted[q])
            /\ Len(queue[q]) = Len(accepted[q]) - k
            /\ \A i \in 1 .. Len(queue[q]) : queue[q][i] = accepted[q][k + i]
        BY <1>4, Zenon DEF Holds
      <3>2. /\ Len(queue[q]) \in Nat /\ Len(accepted[q]) \in Nat /\ Len(popped[q]) \in Nat
        BY QueueFacts
      <3>3. k \in Len(popped[q]) .. Len(a) /\ Len(b) = Len(a) - k
        BY <1>7, <3>1, <3>2
      <3>4. ASSUME NEW i \in 1 .. Len(b) PROVE b[i] = a[k + i]
        <4>1. i \in 1 .. Len(queue[q]) =>
                  k + i \in 1 .. Len(accepted[q]) /\ queue[q][i] = accepted[q][k + i]
          BY <3>1, <3>2
        <4>2. i \notin 1 .. Len(queue[q]) => i = Len(b) /\ k + i = Len(a)
          <5>1. Len(a) = Len(accepted[q]) + 1 /\ Len(b) = Len(queue[q]) + 1
            BY <1>7, Zenon
          <5>2. Len(queue[q]) = Len(accepted[q]) - k
            BY <3>1, Zenon
          <5> QED
            BY <3>2, <5>1, <5>2
        <4> QED
          BY <1>7, <4>1, <4>2, Zenon
      <3> QED
        BY <1>1, <1>9, <3>3, <3>4, Zenon DEF Holds
    <2>2. Weight(q, k)' = queued_bytes'[q]
      BY <1>8, <1>9, Zenon DEF Weight
    <2>3. QueueFrom(q, k)'
      BY <1>1, <1>4, <1>6, <1>9, <2>1, <2>2 DEF QueueFrom
    <2> QED
      BY <2>3, Zenon DEF QueueAt
  <1>12. Reserved'[q] = Reserved[q]
    <2>1. Reserved'[q] = queued_bytes'[q] + Idle.bytes
      BY <1>9, Zenon DEF Reserved
    <2> QED
      BY <1>5, <1>6, <1>9, <2>1, QueueFacts DEF n
  <1> QED
    BY <1>1, <1>9, <1>10, <1>11, <1>12, QueueFacts, QueueLocal

\* The oldest buffer, and the rest.
LEMMA TakeFirst ==
    ASSUME QueueInv, NEW q \in Queues, NEW k \in Nat, Holds(q, k), queue[q] # <<>>
    PROVE  /\ Head(queue[q]) = accepted[q][k + 1] /\ Head(queue[q]) \in 0 .. SessionLimit
           /\ Tail(queue[q]) \in Seq(0 .. SessionLimit)
           /\ Len(Tail(queue[q])) = Len(accepted[q]) - (k + 1)
           /\ \A i \in 1 .. Len(Tail(queue[q])) :
                  Tail(queue[q])[i] = accepted[q][(k + 1) + i]
           /\ k + 1 \in Len(popped[q]) .. Len(accepted[q])
           /\ Weight(q, k) = Weight(q, k + 1) + Head(queue[q]) /\ Weight(q, k + 1) \in Nat
  <1> DEFINE s == queue[q]
             a == accepted[q]
             D == 0 .. SessionLimit
  <1>1. s \in Seq(D) /\ a \in Seq(D) /\ Len(popped[q]) \in Nat
    BY QueueFacts
  <1>2. /\ k \in Len(popped[q]) .. Len(a) /\ Len(s) = Len(a) - k
        /\ \A i \in 1 .. Len(s) : s[i] = a[k + i]
    BY Zenon DEF Holds
  <1>3. s # <<>>
    OBVIOUS
  <1> HIDE DEF s, a, D
  <1>4. /\ Len(s) >= 1 /\ Len(s) \in Nat /\ Head(s) = s[1] /\ Tail(s) \in Seq(D)
        /\ Len(Tail(s)) = Len(s) - 1 /\ \A i \in 1 .. Len(Tail(s)) : Tail(s)[i] = s[i + 1]
    BY <1>1, <1>3
  <1>5. Len(a) \in Nat /\ k < Len(a) /\ Len(Tail(s)) = Len(a) - (k + 1)
        /\ k + 1 \in Len(popped[q]) .. Len(a)
    BY <1>1, <1>2, <1>4
  <1>6. Head(s) = a[k + 1] /\ Head(s) \in D
    <2>1. s[1] = a[k + 1] /\ s[1] \in D
      BY <1>1, <1>2, <1>4
    <2> QED
      BY <1>4, <2>1, Zenon
  <1>7. ASSUME NEW i \in 1 .. Len(Tail(s)) PROVE Tail(s)[i] = a[(k + 1) + i]
    <2>1. i + 1 \in 1 .. Len(s) /\ k + (i + 1) = (k + 1) + i
      BY <1>4
    <2>2. Tail(s)[i] = s[i + 1] /\ s[i + 1] = a[k + (i + 1)]
      BY <1>2, <1>4, <2>1, Zenon
    <2> QED
      BY <2>1, <2>2, Zenon
  <1>8. /\ SumOf(a, k + 1 .. Len(a), SessionLimit)
               = SumOf(a, (k + 1) + 1 .. Len(a), SessionLimit) + a[k + 1]
        /\ SumOf(a, (k + 1) + 1 .. Len(a), SessionLimit) \in Nat
    <2>1. k + 1 \in Nat /\ a \in Seq(0 .. SessionLimit)
      BY <1>1 DEF D
    <2> QED
      BY <1>5, <2>1, WeightFirst, WeightType, Zenon
  <1> QED
    BY <1>4, <1>5, <1>6, <1>7, <1>8, Zenon DEF s, a, D, Weight

\* Pop takes the oldest buffer; its bytes are still reserved.
LEMMA PopStep ==
    ASSUME QueueInv, NEW q \in Queues, Pop(q)
    PROVE  QueueInv'
  <1> DEFINE n == Head(queue[q])
             b == Tail(queue[q])
             p == Append(popped[q], n)
             w == Work("pop", n)
  <1>1. /\ queue[q] # <<>> /\ work[q] = Idle /\ work' = [work EXCEPT ![q] = w]
        /\ queue' = [queue EXCEPT ![q] = b]
        /\ queued_bytes' = [queued_bytes EXCEPT ![q] = queued_bytes[q] - n]
        /\ popped' = [popped EXCEPT ![q] = p]
        /\ UNCHANGED <<closed, used, accepted>>
    BY DEF Pop, Lock
  <1>2. QueueTypeOK /\ QueueShape
    BY Zenon DEF QueueInv
  <1>3. PICK k \in Nat : QueueFrom(q, k)
    BY QueueFacts, Zenon DEF QueueAt
  <1>4. /\ Idle.op = "none" /\ Idle.bytes = 0
    BY DEF Idle, Work
  <1>5. Holds(q, k) /\ ~closed[q] /\ k = Len(popped[q]) /\ Weight(q, k) = queued_bytes[q]
    <2>1. /\ Holds(q, k) /\ Weight(q, k) = queued_bytes[q]
          /\ k = IF closed[q] THEN Len(accepted[q]) ELSE Len(popped[q])
      BY <1>1, <1>3, <1>4 DEF QueueFrom
    <2>2. k + 1 <= Len(accepted[q])
      BY <1>1, <2>1, TakeFirst, QueueFacts
    <2> QED
      BY <2>1, <2>2, QueueFacts
  <1>6. /\ n = accepted[q][k + 1] /\ n \in 0 .. SessionLimit /\ b \in Seq(0 .. SessionLimit)
        /\ Len(b) = Len(accepted[q]) - (k + 1)
        /\ \A i \in 1 .. Len(b) : b[i] = accepted[q][(k + 1) + i]
        /\ k + 1 \in Len(popped[q]) .. Len(accepted[q])
        /\ Weight(q, k) = Weight(q, k + 1) + n /\ Weight(q, k + 1) \in Nat
    BY <1>1, <1>5, TakeFirst, Zenon
  <1>7. /\ queued_bytes[q] - n \in 0 .. SessionLimit /\ Weight(q, k + 1) = queued_bytes[q] - n
    <2>1. queued_bytes[q] \in 0 .. SessionLimit /\ SessionLimit \in Nat
      BY <1>2, QueueAssumption, Zenon DEF QueueTypeOK
    <2>2. n \in Nat /\ Weight(q, k + 1) \in Nat /\ queued_bytes[q] = Weight(q, k + 1) + n
      BY <1>5, <1>6
    <2> HIDE DEF n
    <2> QED
      BY <2>1, <2>2
  <1>8. w \in Works /\ w.op = "pop" /\ w.bytes = n
    BY <1>6 DEF Work, Works
  <1>9. /\ p \in Seq(0 .. SessionLimit) /\ Len(p) = k + 1 /\ p[k + 1] = n
        /\ \A i \in 1 .. Len(popped[q]) : p[i] = popped[q][i]
    <2>1. popped[q] \in Seq(0 .. SessionLimit) /\ n \in 0 .. SessionLimit
      BY <1>6, QueueFacts
    <2> QED
      BY <1>5, <2>1
  <1> HIDE DEF n, b, p, w
  <1>10. OthersKeep(q)
    BY <1>1, <1>2, Zenon DEF OthersKeep, QueueShape, QueueTypeOK
  <1>11. queue'[q] = b /\ queue' \in [Queues -> Seq(0 .. SessionLimit)]
    BY <1>1, <1>2, <1>6, Zenon DEF QueueShape
  <1>12. popped'[q] = p /\ popped' \in [Queues -> Seq(0 .. SessionLimit)]
    BY <1>1, <1>2, <1>9, Zenon DEF QueueShape
  <1>13. work'[q] = w /\ work' \in [Queues -> Works]
    BY <1>1, <1>2, <1>8, Zenon DEF QueueShape
  <1>14. /\ queued_bytes'[q] = queued_bytes[q] - n
         /\ queued_bytes' \in [Queues -> 0 .. SessionLimit]
    BY <1>1, <1>2, <1>7, Zenon DEF QueueTypeOK
  <1>15. QueueTypeOK' /\ QueueShape'
    <2>1. \A u \in Queues : \A i \in 1 .. Len(popped'[u]) : popped'[u][i] = accepted[u][i]
      <3>1. ASSUME NEW u \in Queues \ {q}, NEW i \in 1 .. Len(popped'[u])
            PROVE  popped'[u][i] = accepted[u][i]
        BY <1>2, <1>10, ZenonT(30) DEF QueueShape, OthersKeep
      <3>2. ASSUME NEW i \in 1 .. Len(p) PROVE p[i] = accepted[q][i]
        <4>1. i \in 1 .. Len(popped[q]) \/ i = k + 1
          BY <1>5, <1>9
        <4>2. \A j \in 1 .. Len(popped[q]) : popped[q][j] = accepted[q][j]
          BY <1>2, Zenon DEF QueueShape
        <4> QED
          BY <1>6, <1>9, <4>1, <4>2, Zenon
      <3> QED
        BY <1>12, <3>1, <3>2, Zenon
    <2> QED
      BY <1>1, <1>2, <1>11, <1>12, <1>13, <1>14, <2>1, Zenon DEF QueueTypeOK, QueueShape
  <1>16. QueueAt(q)'
    <2>1. Holds(q, k + 1)'
      <3>1. k + 1 \in Len(p) .. Len(accepted[q])
        BY <1>6, <1>9, QueueFacts
      <3> QED
        BY <1>1, <1>6, <1>11, <1>12, <3>1, Zenon DEF Holds
    <2>2. Weight(q, k + 1)' = queued_bytes'[q]
      BY <1>1, <1>7, <1>14, Zenon DEF Weight
    <2>3. QueueFrom(q, k + 1)'
      BY <1>1, <1>5, <1>6, <1>8, <1>9, <1>12, <1>13, <2>1, <2>2 DEF QueueFrom
    <2> QED
      BY <2>3, k + 1 \in Nat, Zenon DEF QueueAt
  <1>17. Reserved'[q] = Reserved[q]
    <2>1. Reserved'[q] = (queued_bytes[q] - n) + w.bytes /\ Reserved[q] = queued_bytes[q] + Idle.bytes
      BY <1>1, <1>13, <1>14, Zenon DEF Reserved
    <2> QED
      BY <1>4, <1>6, <1>8, <2>1, QueueNumbers
  <1> QED
    BY <1>1, <1>10, <1>15, <1>16, <1>17, QueueFacts, QueueLocal

\* Release gives back what Pop took.
LEMMA PoppedStep ==
    ASSUME QueueInv, NEW q \in Queues, Popped(q)
    PROVE  QueueInv'
  <1>1. /\ work[q].op = "pop" /\ work' = [work EXCEPT ![q] = Idle]
        /\ used' = IF work[q].bytes > used THEN 0 ELSE used - work[q].bytes
        /\ UNCHANGED <<queue, queued_bytes, closed, accepted, popped>>
    BY Zenon DEF Popped, Release, Unlock
  <1>2. QueueTypeOK /\ QueueShape
    BY Zenon DEF QueueInv
  <1>3. PICK k \in Nat : QueueFrom(q, k)
    BY QueueFacts, Zenon DEF QueueAt
  <1>4. work[q].bytes >= 0 /\ ~closed[q]
    BY <1>1, <1>3 DEF QueueFrom
  <1>5. Idle \in Works /\ Idle.op = "none" /\ Idle.bytes = 0
    BY DEF Idle, Work, Works
  <1>6. used' = used - work[q].bytes /\ used' \in 0 .. GlobalLimit
    <2>1. /\ queued_bytes[q] \in Nat /\ work[q].bytes \in Int /\ GlobalLimit \in Nat
          /\ queued_bytes[q] + work[q].bytes <= used /\ used \in 0 .. GlobalLimit
      BY QueueFacts, Zenon
    <2> QED
      BY <1>1, <1>4, <2>1
  <1>7. work'[q] = Idle /\ work' \in [Queues -> Works] /\ OthersKeep(q)
    BY <1>1, <1>2, <1>5, Zenon DEF QueueShape, OthersKeep
  <1>8. QueueTypeOK' /\ QueueShape'
    BY <1>1, <1>2, <1>6, <1>7, Zenon DEF QueueTypeOK, QueueShape
  <1>9. QueueAt(q)'
    <2>1. QueueFrom(q, k)'
      BY <1>1, <1>3, <1>5, <1>7 DEF QueueFrom, Holds, Weight
    <2> QED
      BY <2>1, Zenon DEF QueueAt
  <1>10. Reserved'[q] = queued_bytes[q] + 0
    BY <1>1, <1>5, <1>7, Zenon DEF Reserved
  <1>11. /\ Reserved'[q] \in 0 .. SessionLimit /\ used' = used - Reserved[q] + Reserved'[q]
    BY <1>4, <1>6, <1>10, QueueNumbers
  <1> QED
    BY <1>7, <1>8, <1>9, <1>11, QueueLocal, Zenon

\* Close takes the mutex.
LEMMA CloseQueueStep ==
    ASSUME QueueInv, NEW q \in Queues, CloseQueue(q)
    PROVE  QueueInv'
  <1> DEFINE w == Work("close", 0)
  <1>1. /\ work[q] = Idle /\ work' = [work EXCEPT ![q] = w]
        /\ closed' = [closed EXCEPT ![q] = TRUE]
        /\ UNCHANGED <<queue, queued_bytes, used, accepted, popped>>
    BY Zenon DEF CloseQueue, Lock
  <1>2. QueueTypeOK /\ QueueShape
    BY Zenon DEF QueueInv
  <1>3. PICK k \in Nat : QueueFrom(q, k)
    BY QueueFacts, Zenon DEF QueueAt
  <1>4. /\ Idle.op = "none" /\ Idle.bytes = 0
        /\ w \in Works /\ w.op = "close" /\ w.bytes = 0
    BY DEF Idle, Work, Works
  <1> HIDE DEF w
  <1>5. /\ work'[q] = w /\ work' \in [Queues -> Works]
        /\ closed'[q] = TRUE /\ closed' \in [Queues -> BOOLEAN] /\ OthersKeep(q)
    BY <1>1, <1>2, <1>4, Zenon DEF QueueShape, QueueTypeOK, OthersKeep
  <1>6. QueueTypeOK' /\ QueueShape'
    BY <1>1, <1>2, <1>5, Zenon DEF QueueTypeOK, QueueShape
  <1>7. QueueAt(q)'
    <2>1. Holds(q, k) /\ Weight(q, k) = queued_bytes[q]
      BY <1>1, <1>3, <1>4 DEF QueueFrom
    <2>2. Holds(q, k)' /\ Weight(q, k)' = queued_bytes'[q] + 0
      <3>1. Holds(q, k)' /\ Weight(q, k)' = queued_bytes'[q]
        BY <1>1, <2>1, Zenon DEF Holds, Weight
      <3>2. queued_bytes'[q] = queued_bytes'[q] + 0
        BY <1>1, QueueFacts
      <3> QED
        BY <3>1, <3>2, Zenon
    <2> QED
      BY <1>4, <1>5, <2>2, Zenon DEF QueueAt, QueueFrom
  <1>8. Reserved'[q] = Reserved[q]
    BY <1>1, <1>4, <1>5, Zenon DEF Reserved
  <1> QED
    BY <1>1, <1>5, <1>6, <1>7, <1>8, QueueFacts, QueueLocal

\* A turn of its loop releases one buffer.
LEMMA CloseBufferStep ==
    ASSUME QueueInv, NEW q \in Queues, CloseBuffer(q)
    PROVE  QueueInv'
  <1> DEFINE n == Head(queue[q])
             b == Tail(queue[q])
             w == Work("close", work[q].bytes - n)
  <1>1. /\ queue[q] # <<>> /\ work[q].op = "close" /\ work' = [work EXCEPT ![q] = w]
        /\ queue' = [queue EXCEPT ![q] = b]
        /\ used' = IF n > used THEN 0 ELSE used - n
        /\ UNCHANGED <<queued_bytes, closed, accepted, popped>>
    BY DEF CloseBuffer, Release
  <1>2. QueueTypeOK /\ QueueShape
    BY Zenon DEF QueueInv
  <1>3. PICK k \in Nat : QueueFrom(q, k)
    BY QueueFacts, Zenon DEF QueueAt
  <1>4. Holds(q, k) /\ closed[q] /\ Weight(q, k) = queued_bytes[q] + work[q].bytes
    BY <1>1, <1>3 DEF QueueFrom
  <1>5. /\ n \in 0 .. SessionLimit /\ b \in Seq(0 .. SessionLimit)
        /\ Len(b) = Len(accepted[q]) - (k + 1)
        /\ \A i \in 1 .. Len(b) : b[i] = accepted[q][(k + 1) + i]
        /\ k + 1 \in Len(popped[q]) .. Len(accepted[q])
        /\ Weight(q, k) = Weight(q, k + 1) + n /\ Weight(q, k + 1) \in Nat
    BY <1>1, <1>4, TakeFirst, Zenon
  <1>6. n \in Nat /\ n <= SessionLimit
    BY <1>5, QueueAssumption
  <1>7. w \in Works /\ w.op = "close" /\ w.bytes = work[q].bytes - n
    <2>1. work[q].bytes - n \in Int
      BY <1>6, QueueFacts
    <2> HIDE DEF n
    <2> QED
      BY <2>1 DEF Work, Works
  <1> HIDE DEF n, b, w
  <1>8. /\ Weight(q, k + 1) = queued_bytes[q] + (work[q].bytes - n)
        /\ used' = used - n /\ used' \in 0 .. GlobalLimit
        /\ queued_bytes[q] + (work[q].bytes - n) \in 0 .. SessionLimit
        /\ Reserved[q] = queued_bytes[q] + work[q].bytes
    <2>1. /\ queued_bytes[q] \in Nat /\ work[q].bytes \in Int /\ SessionLimit \in Nat
          /\ Reserved[q] = queued_bytes[q] + work[q].bytes /\ Reserved[q] \in 0 .. SessionLimit
          /\ used \in 0 .. GlobalLimit /\ GlobalLimit \in Nat /\ Reserved[q] <= used
      BY QueueFacts, Zenon
    <2>2. Weight(q, k + 1) + n = Reserved[q] /\ Weight(q, k + 1) \in Nat
      BY <1>4, <1>5, <2>1, Zenon
    <2>3. used' = IF n > used THEN 0 ELSE used - n
      BY <1>1, Zenon
    <2> QED
      BY <1>6, <2>1, <2>2, <2>3
  <1>9. OthersKeep(q)
    BY <1>1, <1>2, Zenon DEF OthersKeep, QueueShape
  <1>10. queue'[q] = b /\ queue' \in [Queues -> Seq(0 .. SessionLimit)]
    BY <1>1, <1>2, <1>5, Zenon DEF QueueShape
  <1>11. work'[q] = w /\ work' \in [Queues -> Works]
    BY <1>1, <1>2, <1>7, Zenon DEF QueueShape
  <1>12. QueueTypeOK' /\ QueueShape'
    BY <1>1, <1>2, <1>8, <1>10, <1>11, Zenon DEF QueueTypeOK, QueueShape
  <1>13. QueueAt(q)'
    <2>1. Holds(q, k + 1)'
      BY <1>1, <1>5, <1>10, Zenon DEF Holds
    <2>2. Weight(q, k + 1)' = queued_bytes'[q] + work'[q].bytes
      BY <1>1, <1>7, <1>8, <1>11, Zenon DEF Weight
    <2>3. QueueFrom(q, k + 1)'
      BY <1>1, <1>4, <1>7, <1>11, <2>1, <2>2 DEF QueueFrom
    <2> QED
      BY <2>3, k + 1 \in Nat, Zenon DEF QueueAt
  <1>14. Reserved'[q] = queued_bytes[q] + (work[q].bytes - n)
    BY <1>1, <1>7, <1>11, Zenon DEF Reserved
  <1>15. /\ Reserved'[q] \in 0 .. SessionLimit /\ used' = used - Reserved[q] + Reserved'[q]
    BY <1>6, <1>8, <1>14, QueueNumbers
  <1> QED
    BY <1>9, <1>12, <1>13, <1>15, QueueLocal, Zenon

\* Close leaves nothing behind.
LEMMA ClosedStep ==
    ASSUME QueueInv, NEW q \in Queues, Closed(q)
    PROVE  QueueInv'
  <1>1. /\ work[q].op = "close" /\ queue[q] = <<>> /\ work' = [work EXCEPT ![q] = Idle]
        /\ queued_bytes' = [queued_bytes EXCEPT ![q] = 0]
        /\ UNCHANGED <<queue, closed, used, accepted, popped>>
    BY Zenon DEF Closed, Unlock
  <1>2. QueueTypeOK /\ QueueShape
    BY Zenon DEF QueueInv
  <1>3. PICK k \in Nat : QueueFrom(q, k)
    BY QueueFacts, Zenon DEF QueueAt
  <1>4. Holds(q, k) /\ closed[q] /\ Weight(q, k) = queued_bytes[q] + work[q].bytes
    BY <1>1, <1>3 DEF QueueFrom
  <1>5. k = Len(accepted[q])
    <2>1. Len(queue[q]) = 0 /\ Len(accepted[q]) \in Nat
      BY <1>1, QueueFacts
    <2> QED
      BY <1>4, <2>1 DEF Holds
  <1>6. Weight(q, k) = 0
    BY <1>5, WeightNone, QueueFacts, Zenon DEF Weight
  <1>7. Idle \in Works /\ Idle.op = "none" /\ Idle.bytes = 0 /\ 0 \in 0 .. SessionLimit
    BY QueueAssumption DEF Idle, Work, Works
  <1>8. /\ work'[q] = Idle /\ work' \in [Queues -> Works] /\ OthersKeep(q)
        /\ queued_bytes'[q] = 0 /\ queued_bytes' \in [Queues -> 0 .. SessionLimit]
    BY <1>1, <1>2, <1>7, Zenon DEF QueueShape, QueueTypeOK, OthersKeep
  <1>9. QueueTypeOK' /\ QueueShape'
    BY <1>1, <1>2, <1>8, Zenon DEF QueueTypeOK, QueueShape
  <1>10. QueueAt(q)'
    <2>1. Holds(q, k)' /\ Weight(q, k)' = 0
      BY <1>1, <1>4, <1>6, Zenon DEF Holds, Weight
    <2>2. QueueFrom(q, k)'
      BY <1>1, <1>4, <1>5, <1>7, <1>8, <2>1 DEF QueueFrom
    <2> QED
      BY <2>2, Zenon DEF QueueAt
  <1>11. Reserved'[q] = 0 + 0
    BY <1>7, <1>8, Zenon DEF Reserved
  <1>12. Reserved[q] = 0
    BY <1>4, <1>6, QueueFacts
  <1> QED
    BY <1>1, <1>8, <1>9, <1>10, <1>11, <1>12, QueueFacts, QueueLocal

\* The invariant of empty queues.
LEMMA QueueInitInv ==
    ASSUME QueueInit
    PROVE  QueueInv
  <1>1. Idle \in Works /\ Idle.op = "none" /\ Idle.bytes = 0 /\ 0 \in 0 .. SessionLimit
        /\ 0 \in 0 .. GlobalLimit
    BY QueueAssumption DEF Idle, Work, Works
  <1>2. <<>> \in Seq(0 .. SessionLimit) /\ Len(<<>>) = 0
    OBVIOUS
  <1>3. QueueTypeOK
    BY <1>1, Zenon DEF QueueInit, QueueTypeOK
  <1>4. ASSUME NEW q \in Queues
        PROVE  /\ queue[q] = <<>> /\ accepted[q] = <<>> /\ popped[q] = <<>> /\ work[q] = Idle
               /\ queued_bytes[q] = 0 /\ closed[q] = FALSE
    BY Zenon DEF QueueInit
  <1>5. QueueShape
    <2>1. /\ queue \in [Queues -> Seq(0 .. SessionLimit)]
          /\ accepted \in [Queues -> Seq(0 .. SessionLimit)]
          /\ popped \in [Queues -> Seq(0 .. SessionLimit)] /\ work \in [Queues -> Works]
      BY <1>1, <1>2, Zenon DEF QueueInit
    <2>2. \A q \in Queues : \A i \in 1 .. Len(popped[q]) : popped[q][i] = accepted[q][i]
      BY <1>4, Zenon
    <2> QED
      BY <2>1, <2>2, Zenon DEF QueueShape
  <1>6. ASSUME NEW q \in Queues PROVE QueueAt(q)
    <2>1. Weight(q, 0) = 0
      <3>1. SumOf(<<>>, Len(<<>>) + 1 .. Len(<<>>), SessionLimit) = 0
        BY <1>2, WeightNone, Zenon
      <3> QED
        BY <1>2, <1>4, <3>1, Zenon DEF Weight
    <2>2. Holds(q, 0)
      <3>1. Len(queue[q]) = 0 /\ Len(accepted[q]) = 0 /\ Len(popped[q]) = 0
        BY <1>2, <1>4, Zenon
      <3> QED
        BY <3>1 DEF Holds
    <2>3. QueueFrom(q, 0)
      <3>1. /\ work[q].op = "none" /\ work[q].bytes = 0 /\ queued_bytes[q] = 0 /\ ~closed[q]
            /\ Len(popped[q]) = 0 /\ work[q] = Idle
        BY <1>1, <1>2, <1>4, Zenon
      <3> QED
        BY <2>1, <2>2, <3>1 DEF QueueFrom
    <2> QED
      BY <2>3, 0 \in Nat, Zenon DEF QueueAt
  <1>7. \A q \in Queues : Reserved[q] = 0
    <2>1. \A q \in Queues : Reserved[q] = 0 + 0
      BY <1>1, <1>4, Zenon DEF Reserved
    <2> QED
      BY <2>1
  <1>8. Reserved \in [Queues -> 0 .. SessionLimit] /\ SessionLimit \in Nat
    <2>1. \A q \in Queues : Reserved[q] \in 0 .. SessionLimit
      BY <1>1, <1>7, Zenon
    <2> QED
      BY <2>1, QueueAssumption, Zenon DEF Reserved
  <1>9. used = SumOf(Reserved, Queues, SessionLimit)
    <2>1. SumOf(Reserved, Queues, SessionLimit) = 0
      BY <1>7, <1>8, SumZero, SMT
    <2> QED
      BY <2>1, Zenon DEF QueueInit
  <1> QED
    BY <1>3, <1>5, <1>6, <1>8, <1>9, Zenon DEF QueueInv

\* Every step keeps it.
LEMMA QueueNextInv ==
    ASSUME QueueInv, [QueueNext]_queueVars
    PROVE  QueueInv'
  <1>1. CASE QueueNext
    BY <1>1, PushStep, PushedStep, PopStep, PoppedStep, CloseQueueStep, CloseBufferStep,
       ClosedStep, Zenon DEF QueueNext
  <1>2. CASE UNCHANGED queueVars
    <2>1. UNCHANGED <<queue, queued_bytes, closed, used, work, accepted, popped>>
      BY <1>2, Zenon DEF queueVars
    <2>2. Reserved' = Reserved
      BY <2>1, Zenon DEF Reserved
    <2>3. ASSUME NEW q \in Queues PROVE QueueAt(q)'
      <3>1. PICK k \in Nat : QueueFrom(q, k)
        BY QueueFacts, Zenon DEF QueueAt
      <3>2. Holds(q, k)' = Holds(q, k) /\ Weight(q, k)' = Weight(q, k)
        BY <2>1 DEF Holds, Weight
      <3>3. QueueFrom(q, k)'
        BY <2>1, <3>1, <3>2 DEF QueueFrom
      <3> QED
        BY <3>3, Zenon DEF QueueAt
    <2> QED
      BY <2>1, <2>2, <2>3, Zenon DEF QueueInv, QueueTypeOK, QueueShape
  <1> QED
    BY <1>1, <1>2, Zenon

\* It says what is promised of the queues and the budget.
LEMMA QueueInvExact ==
    ASSUME QueueInv
    PROVE  QueuesExact
  <1>1. ASSUME NEW q \in Queues, work[q] = Idle
        PROVE  /\ queued_bytes[q] = IF closed[q] THEN 0
                                    ELSE SumOf(accepted[q], Waiting(q), SessionLimit)
               /\ queue[q] = IF closed[q] THEN <<>>
                             ELSE SubSeq(accepted[q], Len(popped[q]) + 1, Len(accepted[q]))
    <2>1. PICK k \in Nat : QueueFrom(q, k)
      BY QueueFacts, Zenon DEF QueueAt
    <2>2. Idle.op = "none"
      BY DEF Idle, Work
    <2>3. /\ Holds(q, k) /\ k = IF closed[q] THEN Len(accepted[q]) ELSE Len(popped[q])
          /\ Weight(q, k) = queued_bytes[q]
      BY <1>1, <2>1, <2>2 DEF QueueFrom
    <2> DEFINE D == 0 .. SessionLimit
    <2>4. /\ queue[q] \in Seq(D) /\ accepted[q] \in Seq(D) /\ popped[q] \in Seq(D)
      BY QueueFacts, Zenon
    <2>5. /\ Len(popped[q]) <= k /\ k <= Len(accepted[q]) /\ Len(queue[q]) = Len(accepted[q]) - k
          /\ \A i \in 1 .. Len(queue[q]) : queue[q][i] = accepted[q][k + i]
      <3>1. /\ k \in Len(popped[q]) .. Len(accepted[q]) /\ Len(queue[q]) = Len(accepted[q]) - k
            /\ \A i \in 1 .. Len(queue[q]) : queue[q][i] = accepted[q][k + i]
        BY <2>3, Zenon DEF Holds
      <3>2. Len(popped[q]) \in Nat /\ Len(accepted[q]) \in Nat
        BY <2>4
      <3>3. Len(popped[q]) <= k /\ k <= Len(accepted[q])
        BY <3>1, <3>2
      <3> QED
        BY <3>1, <3>3, Zenon
    <2> HIDE DEF D
    <2>6. queue[q] = SubSeq(accepted[q], k + 1, Len(accepted[q]))
      <3> DEFINE a == accepted[q]
                 h == queue[q]
      <3>1. /\ a \in Seq(D) /\ h \in Seq(D) /\ k <= Len(a) /\ Len(h) = Len(a) - k
            /\ \A i \in 1 .. Len(h) : h[i] = a[k + i]
        BY <2>4, <2>5, Zenon
      <3> HIDE DEF a, h
      <3>2. h = SubSeq(a, k + 1, Len(a))
        BY <3>1
      <3> QED
        BY <3>2, Zenon DEF a, h
    <2>7. CASE closed[q]
      <3>1. Len(queue[q]) = 0
        BY <2>3, <2>4, <2>5, <2>7
      <3>2. queue[q] = <<>>
        BY <2>4, <3>1
      <3>3. Weight(q, k) = 0
        BY <2>3, <2>7, QueueFacts, WeightNone, Zenon DEF Weight
      <3> QED
        BY <2>3, <2>7, <3>2, <3>3, Zenon
    <2>8. CASE ~closed[q]
      BY <2>3, <2>6, <2>8, Zenon DEF Weight, Waiting
    <2> QED
      BY <2>7, <2>8, Zenon
  <1>2. BudgetExact
    BY <1>1, Zenon DEF BudgetExact, QueueInv
  <1>3. ASSUME NEW q \in Queues
        PROVE  Len(popped[q]) <= Len(accepted[q]) /\ popped[q] = SubSeq(accepted[q], 1, Len(popped[q]))
    <2> DEFINE D == 0 .. SessionLimit
    <2>1. accepted[q] \in Seq(D) /\ popped[q] \in Seq(D)
      BY QueueFacts, Zenon
    <2>2. \A i \in 1 .. Len(popped[q]) : popped[q][i] = accepted[q][i]
      BY Zenon DEF QueueInv, QueueShape
    <2>3. Len(popped[q]) <= Len(accepted[q])
      <3>1. PICK k \in Nat : QueueFrom(q, k)
        BY QueueFacts, Zenon DEF QueueAt
      <3> QED
        BY <2>1, <3>1 DEF QueueFrom, Holds
    <2> HIDE DEF D
    <2> QED
      BY <2>1, <2>2, <2>3
  <1>4. FirstInFirstOut
    BY <1>1, <1>3, Zenon DEF FirstInFirstOut
  <1> QED
    BY <1>2, <1>4, Zenon DEF QueuesExact, QueueInv

\* GlobalQueueBudget is exact and an OutboundQueue first in, first out, however many
\* queues threads push to, pop from and close at once, and whatever the limits.
THEOREM QueuesCounted == QueueSpec => []QueuesExact
  BY QueueInitInv, QueueNextInv, QueueInvExact, PTL DEF QueueSpec

=============================================================================
