-------------------------- MODULE SendPathProofs ----------------------------
(***************************************************************************)
(* The theorems about SendPath, for every set of sessions, every finite set*)
(* of items with their sizes, and every limit: the write chain, the ordered*)
(* channel it implements, and the three counters (queued_bytes of every    *)
(* session, metrics.queued_bytes, and the write operations' share of       *)
(* outstanding_operations).                                                *)
(***************************************************************************)
EXTENDS SendPathStepProofs, FiniteSetTheorems

\* SMT is tried first and Zenon next, except where a leaf names Zenon.
USE SMTT(30), ZenonT(20)

-----------------------------------------------------------------------------
(* The write chain's invariant across the two ends of a session's queue,   *)
(* the push of Enqueue and the pop of StartNextWrite, and so across every  *)
(* step; and what the channel of the refinement sees of each step.         *)

\* A successful Enqueue keeps it: the item joins the end of the queue, and the
\* thread that set write_active is the only one about to write.
LEMMA PushStep ==
    ASSUME TypeOK, WriteChainInv, NEW s \in Sessions, NEW i \in Items,
           EnqueuePush(s, i)
    PROVE  /\ QueueShape' /\ RankShape' /\ ChainShape' /\ DrainShape'
           /\ SingleWriter' /\ WireOrder' /\ NothingAfterClose'
  <1> DEFINE q == send_queue[s]
  <1>1. /\ stage[i] = "entering" /\ owner[i] = NoSession /\ txd[i] = 0
        /\ life[s] # "drained"
    <2>1. stage[i] = "entering" /\ life[s] # "drained"
      BY SendPathAssumption, Zenon DEF WriteChainInv, DrainShape, EnqueuePush
    <2>2. owner[i] = NoSession /\ ~(txd[i] > 0)
      BY <2>1 DEF WriteChainInv, ItemShape, WriteStages
    <2>3. txd[i] \in Nat
      BY DEF TypeOK
    <2>4. QED
      BY <2>1, <2>2, <2>3
  <1>2. /\ stage'[i] = "queued" /\ owner'[i] = s /\ ticket'[i] = accepted[s] + 1
        /\ \A j \in Items \ {i} : /\ stage'[j] = stage[j] /\ owner'[j] = owner[j]
                                  /\ ticket'[j] = ticket[j]
    BY Zenon DEF EnqueuePush, TypeOK
  <1>3. UNCHANGED <<life, disconnecting, txd>>
    BY DEF EnqueuePush
  <1>4. /\ q \in Seq(Items) /\ send_queue'[s] = Append(q, i)
        /\ \A t \in Sessions \ {s} : send_queue'[t] = send_queue[t]
    BY Zenon DEF EnqueuePush, TypeOK
  <1>5. \A j \in Items : owner[j] = s => ticket[j] < accepted[s] + 1
    BY DEF WriteChainInv, ItemShape, TypeOK
  <1>6. /\ write_active'[s] = TRUE
        /\ starting'[s] = IF write_active[s] THEN starting[s] ELSE starting[s] + 1
        /\ \A t \in Sessions \ {s} : /\ write_active'[t] = write_active[t]
                                     /\ starting'[t] = starting[t]
    BY Zenon DEF EnqueuePush, ClaimWriter, TypeOK
  <1>7. \A t \in Sessions : Writing(t)' = Writing(t)
    BY <1>1, <1>2 DEF Writing, WriteStages
  <1>8. QueueShape'
    <2>1. ASSUME NEW t \in Sessions, NEW p \in DOMAIN send_queue'[t]
          PROVE  \/ p \in DOMAIN send_queue[t] /\ send_queue'[t][p] = send_queue[t][p]
                    /\ send_queue[t][p] \in Items \ {i}
                 \/ t = s /\ p = Len(q) + 1 /\ send_queue'[t][p] = i
      <3>1. \A r \in DOMAIN send_queue[t] : send_queue[t][r] \in Items \ {i}
        BY <1>1, QueueElement DEF WriteChainInv, QueueShape
      <3>2. CASE t # s
        BY <1>4, <2>1, <3>1, <3>2, Zenon
      <3>3. CASE t = s
        <4>1. p \in DOMAIN Append(q, i)
          BY <1>4, <2>1, <3>3, Zenon
        <4>2. \/ p \in DOMAIN q /\ Append(q, i)[p] = q[p]
              \/ p = Len(q) + 1 /\ Append(q, i)[p] = i
          BY <1>4, <4>1
        <4>3. QED
          BY <1>4, <3>1, <3>3, <4>2, Zenon
      <3>4. QED
        BY <3>2, <3>3, Zenon
    <2>2. \A t \in Sessions : \A p \in DOMAIN send_queue'[t] :
              owner'[send_queue'[t][p]] = t /\ stage'[send_queue'[t][p]] = "queued"
      <3>1. SUFFICES ASSUME NEW t \in Sessions, NEW p \in DOMAIN send_queue'[t]
                     PROVE  /\ owner'[send_queue'[t][p]] = t
                            /\ stage'[send_queue'[t][p]] = "queued"
        OBVIOUS
      <3>2. CASE t = s /\ send_queue'[t][p] = i
        BY <1>2, <3>2
      <3>3. CASE /\ p \in DOMAIN send_queue[t] /\ send_queue'[t][p] = send_queue[t][p]
                 /\ send_queue[t][p] \in Items \ {i}
        <4>1. owner[send_queue[t][p]] = t /\ stage[send_queue[t][p]] = "queued"
          BY <3>3, Zenon DEF WriteChainInv, QueueShape
        <4>2. QED
          BY <1>2, <3>3, <4>1, Zenon
      <3>4. QED
        BY <2>1, <3>2, <3>3, Zenon
    <2>3. \A t \in Sessions : \A p, r \in DOMAIN send_queue'[t] :
              p < r => ticket'[send_queue'[t][p]] < ticket'[send_queue'[t][r]]
      <3>1. SUFFICES ASSUME NEW t \in Sessions, NEW p \in DOMAIN send_queue'[t],
                            NEW r \in DOMAIN send_queue'[t], p < r
                     PROVE  ticket'[send_queue'[t][p]] < ticket'[send_queue'[t][r]]
        OBVIOUS
      <3>2. p \in DOMAIN send_queue[t] /\ send_queue'[t][p] = send_queue[t][p]
              /\ send_queue[t][p] \in Items \ {i}
        BY <1>4, <2>1, <3>1
      <3>3. /\ ticket'[send_queue'[t][p]] = ticket[send_queue[t][p]]
            /\ owner[send_queue[t][p]] = t
        BY <1>2, <3>2, Zenon DEF WriteChainInv, QueueShape
      <3>4. CASE t = s /\ send_queue'[t][r] = i
        BY <1>2, <1>5, <3>2, <3>3, <3>4, ZenonT(30)
      <3>5. CASE /\ r \in DOMAIN send_queue[t] /\ send_queue'[t][r] = send_queue[t][r]
                 /\ send_queue[t][r] \in Items \ {i}
        <4>1. ticket[send_queue[t][p]] < ticket[send_queue[t][r]]
          BY <3>1, <3>2, <3>5, Zenon DEF WriteChainInv, QueueShape
        <4>2. QED
          BY <1>2, <3>3, <3>5, <4>1, Zenon
      <3>6. QED
        BY <2>1, <3>4, <3>5, Zenon
    <2>4. ASSUME NEW j \in Items, stage'[j] = "queued"
          PROVE  \E p \in DOMAIN send_queue'[owner'[j]] : send_queue'[owner'[j]][p] = j
      <3>1. CASE j = i
        BY <1>2, <1>4, <3>1
      <3>2. CASE j # i
        <4>1. stage[j] = "queued" /\ owner'[j] = owner[j] /\ owner[j] \in Sessions
          BY <1>2, <2>4, <3>2, Owned, Zenon DEF WriteChainInv
        <4>2. PICK p \in DOMAIN send_queue[owner[j]] : send_queue[owner[j]][p] = j
          BY <4>1, Zenon DEF WriteChainInv, QueueShape
        <4>3. p \in DOMAIN send_queue'[owner[j]] /\ send_queue'[owner[j]][p] = j
          <5>1. CASE owner[j] # s
            BY <1>4, <4>1, <4>2, <5>1, Zenon
          <5>2. CASE owner[j] = s
            <6>1. p \in DOMAIN q /\ q[p] = j
              BY <4>2, <5>2
            <6>2. p \in DOMAIN Append(q, i) /\ Append(q, i)[p] = q[p]
              BY <1>4, <6>1
            <6>3. QED
              BY <1>4, <5>2, <6>1, <6>2, Zenon
          <5>3. QED
            BY <5>1, <5>2, Zenon
        <4>4. QED
          BY <4>1, <4>3, Zenon
      <3>3. QED
        BY <3>1, <3>2, Zenon
    <2>5. QED
      BY <2>2, <2>3, <2>4, Zenon DEF QueueShape
  <1>9. RankShape'
    <2>1. Phase(i)' = 2 /\ \A j \in Items : Phase(j)' \in 0 .. 2
      BY <1>2 DEF Phase, WriteStages
    <2>2. \A j \in Items \ {i} : Phase(j)' = Phase(j)
      BY <1>2 DEF Phase
    <2>3. SUFFICES ASSUME NEW j \in Items, NEW k \in Items, owner'[j] \in Sessions,
                          owner'[j] = owner'[k], Phase(j)' < Phase(k)'
                   PROVE  ticket'[j] < ticket'[k]
      BY DEF RankShape
    <2>4. j # i
      BY <2>1, <2>3
    <2>5. CASE k = i
      BY <1>2, <1>5, <2>3, <2>4, <2>5, Zenon
    <2>6. CASE k # i
      BY <1>2, <2>2, <2>3, <2>4, <2>6 DEF WriteChainInv, RankShape
    <2>7. QED
      BY <2>5, <2>6
  <1>10. \A j \in Items : owner'[j] = s /\ EndsChain(j)' => owner[j] = s /\ EndsChain(j)
    BY <1>2, <1>3 DEF EndsChain
  <1>11. \A j \in Items \ {i} : EndsChain(j)' = EndsChain(j)
    BY <1>2, <1>3 DEF EndsChain
  <1>12. ~EndsChain(i)'
    BY <1>2 DEF EndsChain
  <1>13. ChainShape'
    <2>1. SUFFICES ASSUME NEW t \in Sessions
                   PROVE  /\ starting'[t] > 0 \/ Writing(t)' # {} => write_active'[t]
                          /\ send_queue'[t] # <<>> => write_active'[t]
                          /\ write_active'[t] =>
                                \/ starting'[t] > 0
                                \/ Writing(t)' # {}
                                \/ disconnecting'[t] > 0
                                \/ life'[t] # "live"
                          /\ (\E j \in Items : owner'[j] = t /\ EndsChain(j)') =>
                                starting'[t] = 0 /\ Writing(t)' = {} /\ write_active'[t]
      BY DEF ChainShape
    <2>2. CASE t # s
      <3>1. /\ starting'[t] = starting[t] /\ write_active'[t] = write_active[t]
            /\ send_queue'[t] = send_queue[t] /\ Writing(t)' = Writing(t)
            /\ disconnecting'[t] = disconnecting[t] /\ life'[t] = life[t]
        BY <1>3, <1>4, <1>6, <1>7, <2>2, Zenon
      <3>2. \A j \in Items : owner'[j] = t /\ EndsChain(j)' => owner[j] = t /\ EndsChain(j)
        BY <1>2, <1>11, <1>12, <2>2, Zenon
      <3>3. QED
        BY <3>1, <3>2 DEF WriteChainInv, ChainShape
    <2>3. CASE t = s
      <3>1. starting[s] \in Nat
        BY DEF TypeOK
      <3>2. Writing(s)' = Writing(s) /\ disconnecting'[s] = disconnecting[s] /\ life'[s] = life[s]
        BY <1>3, <1>7
      <3>3. ASSUME NEW j \in Items, owner'[j] = s, EndsChain(j)'
            PROVE  starting'[s] = 0 /\ Writing(s) = {}
        <4>1. starting[s] = 0 /\ Writing(s) = {} /\ write_active[s]
          BY <1>10, <3>3, Zenon DEF WriteChainInv, ChainShape
        <4>2. QED
          BY <1>6, <4>1
      <3>4. CASE write_active[s]
        <4>1. \/ starting[s] > 0 \/ Writing(s) # {}
              \/ disconnecting[s] > 0 \/ life[s] # "live"
          BY <3>4, Zenon DEF WriteChainInv, ChainShape
        <4>2. QED
          BY <1>6, <2>3, <3>2, <3>3, <3>4, <4>1, Zenon
      <3>5. CASE ~write_active[s]
        <4>1. starting'[s] > 0
          BY <1>6, <3>1, <3>5
        <4>2. QED
          BY <1>6, <2>3, <3>2, <3>3, <4>1, Zenon
      <3>6. QED
        BY <3>4, <3>5, Zenon
    <2>4. QED
      BY <2>2, <2>3, Zenon
  <1>14. DrainShape'
    <2>1. lock'[s] = NoItem /\ \A t \in Sessions \ {s} : lock'[t] = lock[t]
      BY Zenon DEF EnqueuePush, TypeOK
    <2>2. \A t \in Sessions \ {s} : lock[t] # i
      BY SendPathAssumption, Zenon DEF WriteChainInv, DrainShape, EnqueuePush
    <2>3. \A t \in Sessions : life'[t] = "drained" =>
              send_queue'[t] = <<>> /\ lock'[t] = NoItem
      BY <1>1, <1>3, <1>4, <2>1, Zenon DEF WriteChainInv, DrainShape
    <2>4. \A j \in Items : stage'[j] = "dropped" => life'[owner'[j]] = "drained"
      BY <1>2, <1>3 DEF WriteChainInv, DrainShape
    <2>5. \A t \in Sessions : lock'[t] # NoItem => lock[t] \in Items \ {i} /\ t # s
      BY <2>1, <2>2, Zenon DEF TypeOK
    <2>6. \A t \in Sessions : lock'[t] # NoItem => stage'[lock'[t]] = "entering"
      BY <1>2, <2>1, <2>5 DEF WriteChainInv, DrainShape
    <2>7. \A t, u \in Sessions : lock'[t] = lock'[u] /\ lock'[t] # NoItem => t = u
      BY <2>1 DEF WriteChainInv, DrainShape
    <2>8. QED
      BY <2>3, <2>4, <2>6, <2>7, Zenon DEF DrainShape
  <1>15. SingleWriter'
    <2>1. SUFFICES ASSUME NEW t \in Sessions
                   PROVE  /\ starting'[t] <= 1
                          /\ starting'[t] = 1 => Writing(t)' = {}
                          /\ \A j, k \in Writing(t)' : j = k
      BY DEF SingleWriter
    <2>2. CASE t # s
      BY <1>6, <1>7, <2>2 DEF WriteChainInv, SingleWriter
    <2>3. CASE t = s
      <3>1. starting[s] \in Nat
        BY DEF TypeOK
      <3>2. QED
        <4>1. /\ starting[s] <= 1 /\ (starting[s] = 1 => Writing(s) = {})
              /\ \A j, k \in Writing(s) : j = k
          BY DEF WriteChainInv, SingleWriter
        <4>2. ~write_active[s] => starting[s] = 0 /\ Writing(s) = {}
          BY <3>1 DEF WriteChainInv, ChainShape
        <4>3. Writing(s)' = Writing(s)
          BY <1>7
        <4>4. CASE write_active[s]
          BY <1>6, <2>3, <4>1, <4>3, <4>4, Zenon
        <4>5. CASE ~write_active[s]
          BY <1>6, <2>3, <4>2, <4>3, <4>5
        <4>6. QED
          BY <4>4, <4>5
    <2>4. QED
      BY <2>2, <2>3
  <1>16. WireOrder' /\ NothingAfterClose'
    <2>1. ASSUME NEW j \in Items, NEW k \in Items, owner'[k] \in Sessions,
                 Before(j, k)', txd'[k] > 0
          PROVE  owner[k] \in Sessions /\ Before(j, k) /\ txd[k] > 0
      <3>1. k # i /\ owner'[k] = owner[k] /\ ticket'[k] = ticket[k]
        BY <1>1, <1>2, <1>3, <2>1
      <3>2. j # i
        <4>1. SUFFICES ASSUME j = i PROVE FALSE
          OBVIOUS
        <4>2. owner[k] = s /\ accepted[s] + 1 < ticket[k] /\ ticket[k] < accepted[s] + 1
          BY <1>2, <1>5, <2>1, <3>1, <4>1, Zenon DEF Before
        <4>3. accepted[s] \in Nat /\ ticket[k] \in Nat
          BY DEF TypeOK
        <4>4. QED
          BY <4>2, <4>3
      <3>3. QED
        BY <1>2, <1>3, <2>1, <3>1, <3>2, Zenon DEF Before
    <2>2. \A k \in Items : txd'[k] = 0 \/ txd'[k] > 0
      BY <1>3 DEF TypeOK
    <2>3. WireOrder'
      BY <1>3, <2>1, Zenon DEF WriteChainInv, WireOrder
    <2>4. NothingAfterClose'
      BY <1>3, <2>1, <2>2, Zenon DEF WriteChainInv, NothingAfterClose
    <2>5. QED
      BY <2>3, <2>4
  <1>17. QED
    BY <1>8, <1>9, <1>13, <1>14, <1>15, <1>16

\* StartNextWrite on a non-empty queue keeps it: the head is the oldest queued
\* item and becomes the only write.
LEMMA PopStep ==
    ASSUME TypeOK, WriteChainInv, NEW s \in Sessions, StartNextWrite(s)
    PROVE  /\ QueueShape' /\ RankShape' /\ ChainShape' /\ DrainShape'
           /\ SingleWriter' /\ WireOrder' /\ NothingAfterClose'
  <1> DEFINE q == send_queue[s]
  <1>1. PICK i \in Items : /\ i = Head(q) /\ i = q[1] /\ 1 \in DOMAIN q
                           /\ stage[i] = "queued" /\ owner[i] = s
    <2>1. Head(q) \in Items /\ Head(q) = q[1] /\ 1 \in DOMAIN q
      BY DEF StartNextWrite, TypeOK
    <2>2. QED
      BY <2>1 DEF WriteChainInv, QueueShape
  <1>2. starting[s] = 1 /\ Writing(s) = {} /\ write_active[s]
    BY DEF StartNextWrite, WriteChainInv, SingleWriter, ChainShape, TypeOK
  <1>3. /\ starting'[s] = 0
        /\ \A t \in Sessions \ {s} : starting'[t] = starting[t]
    BY <1>2 DEF StartNextWrite, TypeOK
  <1>4. /\ stage'[i] = "popped" /\ \A j \in Items \ {i} : stage'[j] = stage[j]
    BY <1>1, Zenon DEF StartNextWrite, TypeOK
  <1>5. UNCHANGED <<life, lock, write_active, disconnecting, txd, owner, ticket>>
    BY DEF StartNextWrite, historyVars
  <1>6. Writing(s)' = {i} /\ \A t \in Sessions \ {s} : Writing(t)' = Writing(t)
    BY <1>1, <1>2, <1>4, <1>5 DEF Writing, WriteStages
  <1>7. /\ q \in Seq(Items) /\ q # <<>> /\ send_queue'[s] = Tail(q)
        /\ \A t \in Sessions \ {s} : send_queue'[t] = send_queue[t]
    BY Zenon DEF StartNextWrite, TypeOK
  <1>8. \A p \in DOMAIN Tail(q) : p + 1 \in DOMAIN q /\ p + 1 > 1 /\ Tail(q)[p] = q[p + 1]
    BY <1>7
  <1>9. \A j \in Items \ {i} : owner[j] = s /\ stage[j] = "queued" => ticket[i] < ticket[j]
    <2>1. SUFFICES ASSUME NEW j \in Items \ {i}, owner[j] = s, stage[j] = "queued"
                   PROVE  ticket[i] < ticket[j]
      OBVIOUS
    <2>2. PICK p \in DOMAIN q : q[p] = j
      BY <2>1, Zenon DEF WriteChainInv, QueueShape
    <2>3. p > 1
      BY <1>1, <1>7, <2>1, <2>2
    <2>4. QED
      BY <1>1, <2>2, <2>3, Zenon DEF WriteChainInv, QueueShape
  <1>10. QueueShape'
    <2>1. ASSUME NEW p \in DOMAIN Tail(q)
          PROVE  /\ Tail(q)[p] \in Items \ {i}
                 /\ owner[Tail(q)[p]] = s /\ stage[Tail(q)[p]] = "queued"
      <3>1. p + 1 \in DOMAIN q /\ p + 1 > 1 /\ Tail(q)[p] = q[p + 1]
        BY <1>8
      <3>2. q[p + 1] \in Items /\ owner[q[p + 1]] = s /\ stage[q[p + 1]] = "queued"
        BY <3>1, QueueElement, Zenon DEF WriteChainInv, QueueShape
      <3>3. ticket[q[1]] < ticket[q[p + 1]]
        BY <1>1, <3>1, Zenon DEF WriteChainInv, QueueShape
      <3>4. ticket[i] \in Nat
        BY DEF TypeOK
      <3>5. q[p + 1] # i
        <4>1. SUFFICES ASSUME q[p + 1] = i PROVE FALSE
          OBVIOUS
        <4>2. ticket[i] < ticket[i]
          BY <1>1, <3>3, <4>1, Zenon
        <4>3. QED
          BY <3>4, <4>2
      <3>6. QED
        BY <3>1, <3>2, <3>5, Zenon
    <2>2. \A t \in Sessions : \A p \in DOMAIN send_queue'[t] :
              owner'[send_queue'[t][p]] = t /\ stage'[send_queue'[t][p]] = "queued"
      <3>1. \A t \in Sessions \ {s} : \A p \in DOMAIN send_queue[t] :
                send_queue[t][p] \in Items \ {i}
        BY <1>1, QueueElement DEF WriteChainInv, QueueShape
      <3>2. \A p \in DOMAIN send_queue'[s] :
                owner'[send_queue'[s][p]] = s /\ stage'[send_queue'[s][p]] = "queued"
        BY <1>4, <1>5, <1>7, <2>1, Zenon
      <3>3. \A t \in Sessions \ {s} : \A p \in DOMAIN send_queue'[t] :
                owner'[send_queue'[t][p]] = t /\ stage'[send_queue'[t][p]] = "queued"
        BY <1>4, <1>5, <1>7, <3>1 DEF WriteChainInv, QueueShape
      <3>4. QED
        BY <3>2, <3>3, Zenon
    <2>3. \A t \in Sessions : \A p, r \in DOMAIN send_queue'[t] :
              p < r => ticket'[send_queue'[t][p]] < ticket'[send_queue'[t][r]]
      <3>1. \A p, r \in DOMAIN Tail(q) : p < r => ticket[Tail(q)[p]] < ticket[Tail(q)[r]]
        <4>1. \A p, r \in DOMAIN Tail(q) : p < r => p + 1 < r + 1
          BY <1>7
        <4>2. \A p, r \in DOMAIN q : p < r => ticket[q[p]] < ticket[q[r]]
          BY Zenon DEF WriteChainInv, QueueShape
        <4>3. SUFFICES ASSUME NEW p \in DOMAIN Tail(q), NEW r \in DOMAIN Tail(q), p < r
                       PROVE  ticket[Tail(q)[p]] < ticket[Tail(q)[r]]
          BY Zenon
        <4>4. /\ p + 1 \in DOMAIN q /\ r + 1 \in DOMAIN q /\ p + 1 < r + 1
              /\ Tail(q)[p] = q[p + 1] /\ Tail(q)[r] = q[r + 1]
          BY <1>8, <4>1, <4>3, Zenon
        <4>5. QED
          BY <4>2, <4>4, Zenon
      <3>2. QED
        BY <1>5, <1>7, <3>1, Zenon DEF WriteChainInv, QueueShape
    <2>4. ASSUME NEW j \in Items, stage'[j] = "queued"
          PROVE  \E p \in DOMAIN send_queue'[owner'[j]] : send_queue'[owner'[j]][p] = j
      <3>1. j # i /\ stage[j] = "queued" /\ owner[j] \in Sessions
        BY <1>4, <2>4, Owned DEF WriteChainInv
      <3>2. PICK p \in DOMAIN send_queue[owner[j]] : send_queue[owner[j]][p] = j
        BY <3>1, Zenon DEF WriteChainInv, QueueShape
      <3>3. CASE owner[j] = s
        <4>1. p \in DOMAIN q /\ q[p] = j /\ p # 1
          BY <1>1, <3>1, <3>2, <3>3, Zenon
        <4>2. p - 1 \in DOMAIN Tail(q)
          BY <1>7, <4>1
        <4>3. Tail(q)[p - 1] = q[(p - 1) + 1] /\ (p - 1) + 1 = p
          BY <1>7, <1>8, <4>1, <4>2
        <4>4. Tail(q)[p - 1] = j
          BY <4>1, <4>3, Zenon
        <4>5. QED
          BY <1>5, <1>7, <3>3, <4>2, <4>4, Zenon
      <3>4. CASE owner[j] # s
        BY <1>5, <1>7, <3>1, <3>2, <3>4, Zenon
      <3>5. QED
        BY <3>3, <3>4, Zenon
    <2>5. QED
      BY <2>2, <2>3, <2>4, Zenon DEF QueueShape
  <1>11. RankShape'
    <2>1. Phase(i) = 2 /\ Phase(i)' = 1
      BY <1>1, <1>4, Zenon DEF Phase, WriteStages
    <2>2. \A j \in Items \ {i} : Phase(j)' = Phase(j) /\ Phase(j) \in 0 .. 2
      BY <1>4 DEF Phase
    <2>3. SUFFICES ASSUME NEW j \in Items, NEW k \in Items, owner[j] \in Sessions,
                          owner[j] = owner[k], Phase(j)' < Phase(k)'
                   PROVE  ticket[j] < ticket[k]
      BY <1>5 DEF RankShape
    <2>4. CASE k = i
      BY <2>1, <2>2, <2>3, <2>4 DEF WriteChainInv, RankShape
    <2>5. CASE j = i
      <3>1. k # i /\ Phase(k) = 2 /\ owner[k] = s
        BY <1>1, <2>1, <2>2, <2>3, <2>5
      <3>2. stage[k] # "dropped"
        <4>1. life[s] # "drained"
          BY <1>7, Zenon DEF WriteChainInv, DrainShape
        <4>2. QED
          BY <3>1, <4>1, Zenon DEF WriteChainInv, DrainShape
      <3>3. stage[k] \notin {"new", "entering", "refused"}
        BY <3>1, SendPathAssumption, Zenon DEF WriteChainInv, ItemShape
      <3>4. stage[k] = "queued"
        <4>1. stage[k] \in Stages
          BY DEF TypeOK
        <4>2. QED
          BY <3>1, <3>2, <3>3, <4>1
          DEF Phase, Stages, ReservedStages, HeldStages, WriteStages
      <3>5. QED
        BY <1>9, <2>5, <3>1, <3>4
    <2>6. CASE j # i /\ k # i
      BY <2>2, <2>3, <2>6, Zenon DEF WriteChainInv, RankShape
    <2>7. QED
      BY <2>4, <2>5, <2>6
  <1>12. \A j \in Items : EndsChain(j)' => EndsChain(j)
    BY <1>4, <1>5 DEF EndsChain
  <1>13. ~\E j \in Items : owner[j] = s /\ EndsChain(j)
    BY <1>2 DEF WriteChainInv, ChainShape
  <1>14. ChainShape'
    <2>1. ASSUME NEW t \in Sessions \ {s}
          PROVE  /\ starting'[t] = starting[t] /\ write_active'[t] = write_active[t]
                 /\ send_queue'[t] = send_queue[t] /\ Writing(t)' = Writing(t)
                 /\ disconnecting'[t] = disconnecting[t] /\ life'[t] = life[t]
      BY <1>3, <1>5, <1>6, <1>7, Zenon
    <2>2. \A t \in Sessions : \A j \in Items :
              owner'[j] = t /\ EndsChain(j)' => owner[j] = t /\ EndsChain(j)
      BY <1>5, <1>12
    <2>3. /\ write_active'[s] /\ Writing(s)' # {}
          /\ ~\E j \in Items : owner'[j] = s /\ EndsChain(j)'
      BY <1>2, <1>5, <1>6, <1>13, <2>2, Zenon
    <2>4. ASSUME NEW t \in Sessions \ {s}
          PROVE  /\ starting'[t] > 0 \/ Writing(t)' # {} => write_active'[t]
                 /\ send_queue'[t] # <<>> => write_active'[t]
                 /\ write_active'[t] =>
                        \/ starting'[t] > 0
                        \/ Writing(t)' # {}
                        \/ disconnecting'[t] > 0
                        \/ life'[t] # "live"
                 /\ (\E j \in Items : owner'[j] = t /\ EndsChain(j)') =>
                        starting'[t] = 0 /\ Writing(t)' = {} /\ write_active'[t]
      <3>1. \A j \in Items : owner'[j] = t /\ EndsChain(j)' => owner[j] = t /\ EndsChain(j)
        BY <2>2
      <3>2. QED
        BY <2>1, <3>1 DEF WriteChainInv, ChainShape
    <2>5. QED
      BY <2>3, <2>4, Zenon DEF ChainShape
  <1>15. DrainShape'
    <2>1. life[s] # "drained"
      BY <1>7 DEF WriteChainInv, DrainShape
    <2>2. \A t \in Sessions : lock[t] # NoItem => lock[t] \in Items \ {i}
      BY <1>1 DEF WriteChainInv, DrainShape, TypeOK
    <2>3. \A t \in Sessions : life'[t] = "drained" =>
              send_queue'[t] = <<>> /\ lock'[t] = NoItem
      BY <1>5, <1>7, <2>1, Zenon DEF WriteChainInv, DrainShape
    <2>4. \A j \in Items : stage'[j] = "dropped" => life'[owner'[j]] = "drained"
      BY <1>4, <1>5 DEF WriteChainInv, DrainShape
    <2>5. \A t \in Sessions : lock'[t] # NoItem => stage'[lock'[t]] = "entering"
      BY <1>4, <1>5, <2>2, Zenon DEF WriteChainInv, DrainShape
    <2>6. \A t, u \in Sessions : lock'[t] = lock'[u] /\ lock'[t] # NoItem => t = u
      BY <1>5, Zenon DEF WriteChainInv, DrainShape
    <2>7. QED
      BY <2>3, <2>4, <2>5, <2>6, Zenon DEF DrainShape
  <1>16. SingleWriter'
    <2>1. \A t \in Sessions \ {s} : starting'[t] = starting[t] /\ Writing(t)' = Writing(t)
      BY <1>3, <1>6
    <2>2. starting'[s] = 0 /\ \A j, k \in Writing(s)' : j = k
      BY <1>3, <1>6
    <2>3. SUFFICES ASSUME NEW t \in Sessions
                   PROVE  /\ starting'[t] <= 1
                          /\ starting'[t] = 1 => Writing(t)' = {}
                          /\ \A j, k \in Writing(t)' : j = k
      BY DEF SingleWriter
    <2>4. CASE t = s
      BY <2>2, <2>4
    <2>5. CASE t # s
      BY <2>1, <2>5 DEF WriteChainInv, SingleWriter
    <2>6. QED
      BY <2>4, <2>5
  <1>17. WireOrder' /\ NothingAfterClose'
    BY <1>5, Zenon DEF WriteChainInv, WireOrder, NothingAfterClose, Before
  <1>18. QED
    BY <1>10, <1>11, <1>14, <1>15, <1>16, <1>17

\* StartNextWrite on an empty queue keeps it: the writer role is given up with
\* nothing left behind.
LEMMA StopWritingStep ==
    ASSUME TypeOK, WriteChainInv, NEW s \in Sessions, StopWriting(s)
    PROVE  /\ QueueShape' /\ RankShape' /\ ChainShape' /\ DrainShape'
           /\ SingleWriter' /\ WireOrder' /\ NothingAfterClose'
  <1>1. starting[s] = 1 /\ Writing(s) = {} /\ send_queue[s] = <<>>
    BY DEF StopWriting, WriteChainInv, SingleWriter, TypeOK
  <1>2. /\ starting'[s] = 0 /\ write_active'[s] = FALSE
        /\ \A t \in Sessions \ {s} : /\ starting'[t] = starting[t]
                                     /\ write_active'[t] = write_active[t]
    BY <1>1 DEF StopWriting, TypeOK
  <1>3. UNCHANGED <<life, lock, send_queue, disconnecting, stage, txd, owner, ticket,
                    accepted>>
    BY DEF StopWriting, historyVars
  <1>4. QueueShape' /\ RankShape' /\ DrainShape' /\ WireOrder' /\ NothingAfterClose'
    BY <1>3 DEF WriteChainInv, QueueShape, RankShape, Phase, DrainShape, WireOrder,
                NothingAfterClose, Before
  <1>5. \A t \in Sessions : Writing(t)' = Writing(t)
    BY <1>3 DEF Writing
  <1>6. \A j \in Items : EndsChain(j)' = EndsChain(j)
    BY <1>3 DEF EndsChain
  <1>7. ~\E j \in Items : owner[j] = s /\ EndsChain(j)
    BY <1>1 DEF WriteChainInv, ChainShape
  <1>8. ChainShape'
    BY <1>1, <1>2, <1>3, <1>5, <1>6, <1>7 DEF WriteChainInv, ChainShape
  <1>9. SingleWriter'
    BY <1>2, <1>5 DEF WriteChainInv, SingleWriter
  <1>10. QED
    BY <1>4, <1>8, <1>9

\* The drain of Disconnect keeps it.
LEMMA DrainStep ==
    ASSUME TypeOK, WriteChainInv, NEW s \in Sessions, DrainQueue(s)
    PROVE  /\ QueueShape' /\ RankShape' /\ ChainShape' /\ DrainShape'
           /\ SingleWriter' /\ WireOrder' /\ NothingAfterClose'
  <1>1. QueueItems(s) = {j \in Items : stage[j] = "queued" /\ owner[j] = s}
    BY QueueElement DEF WriteChainInv, QueueShape, QueueItems
  <1>2. \A j \in Items : stage'[j] = IF stage[j] = "queued" /\ owner[j] = s
                                     THEN "dropped" ELSE stage[j]
    BY <1>1 DEF DrainQueue
  <1>3. UNCHANGED <<lock, write_active, starting, disconnecting, txd, owner, ticket,
                    accepted>>
    BY DEF DrainQueue, callVars, historyVars
  <1>4. /\ life'[s] = "drained" /\ lock[s] = NoItem /\ life[s] = "closed"
        /\ \A t \in Sessions \ {s} : life'[t] = life[t]
    BY Zenon DEF DrainQueue, Unlocked, TypeOK
  <1>5. /\ send_queue'[s] = <<>>
        /\ \A t \in Sessions \ {s} : send_queue'[t] = send_queue[t]
    BY Zenon DEF DrainQueue, TypeOK
  <1>6. /\ \A t \in Sessions : Writing(t)' = Writing(t)
        /\ \A j \in Items : EndsChain(j)' = EndsChain(j)
        /\ \A j \in Items : Phase(j)' = Phase(j)
    BY <1>2, <1>3 DEF Writing, EndsChain, Phase, WriteStages
  <1>7. QueueShape'
    <2>1. \A t \in Sessions \ {s} : \A p \in DOMAIN send_queue[t] :
              /\ send_queue[t][p] \in Items
              /\ stage'[send_queue[t][p]] = stage[send_queue[t][p]]
      BY <1>2, QueueElement DEF WriteChainInv, QueueShape
    <2>2. \A j \in Items : stage'[j] = "queued" =>
              stage[j] = "queued" /\ owner[j] \in Sessions \ {s}
      BY <1>2, Owned DEF WriteChainInv
    <2>3. QED
      BY <1>3, <1>5, <2>1, <2>2 DEF WriteChainInv, QueueShape
  <1>8. RankShape'
    BY <1>3, <1>6, Zenon DEF WriteChainInv, RankShape
  <1>9. ChainShape'
    BY <1>3, <1>4, <1>5, <1>6, Zenon DEF WriteChainInv, ChainShape
  <1>10. DrainShape'
    <2>1. \A t \in Sessions : lock[t] # NoItem => stage'[lock[t]] = "entering"
      BY <1>2 DEF WriteChainInv, DrainShape, TypeOK
    <2>2. \A j \in Items : stage'[j] = "dropped" => life'[owner[j]] = "drained"
      <3>1. \A j \in Items : stage[j] = "dropped" => owner[j] \in Sessions
        BY Owned DEF WriteChainInv
      <3>2. QED
        BY <1>2, <1>4, <3>1 DEF WriteChainInv, DrainShape
    <2>3. QED
      BY <1>3, <1>4, <1>5, <2>1, <2>2 DEF WriteChainInv, DrainShape
  <1>11. SingleWriter'
    BY <1>3, <1>6 DEF WriteChainInv, SingleWriter
  <1>12. WireOrder' /\ NothingAfterClose'
    BY <1>3, Zenon DEF WriteChainInv, WireOrder, NothingAfterClose, Before
  <1>13. QED
    BY <1>7, <1>8, <1>9, <1>10, <1>11, <1>12

\* When a write transmits, every earlier item of its session is finished, was
\* sent whole and does not close the connection.
LEMMA EarlierSent ==
    ASSUME TypeOK, WriteChainInv, NEW i \in Items, stage[i] \in WriteStages,
           NEW j \in Items, Before(j, i)
    PROVE  txd[j] = Size[j] /\ j \notin CloseAfter
  <1>1. PICK s \in Sessions : owner[i] = s /\ owner[j] = s
    BY Owned DEF WriteChainInv, WriteStages, Before
  <1>2. ticket[i] \in Nat /\ ticket[j] \in Nat /\ ticket[j] < ticket[i]
    BY DEF Before, TypeOK
  <1>3. Phase(i) = 1
    BY DEF Phase, WriteStages
  <1>4. Phase(j) # 2
    BY <1>1, <1>2, <1>3 DEF WriteChainInv, RankShape
  <1>5. Writing(s) = {i}
    BY <1>1 DEF WriteChainInv, SingleWriter, Writing
  <1>6. stage[j] = "gone"
    BY <1>1, <1>2, <1>4, <1>5 DEF Phase, Writing
  <1>7. ~EndsChain(j)
    BY <1>1, <1>5, Zenon DEF WriteChainInv, ChainShape
  <1>8. txd[j] \in Nat /\ txd[j] <= Size[j] /\ Size[j] \in Nat
    BY SizeNat, Zenon DEF WriteChainInv, ItemShape, TypeOK
  <1>9. QED
    BY <1>6, <1>7, <1>8 DEF EndsChain

\* Bytes put on the connection keep the wire order.
LEMMA TransmitStep ==
    ASSUME TypeOK, WriteChainInv, NEW i \in Items, NEW n \in 1 .. Size[i],
           Transmit(i, n)
    PROVE  /\ QueueShape' /\ RankShape' /\ ChainShape' /\ DrainShape'
           /\ SingleWriter' /\ WireOrder' /\ NothingAfterClose'
  <1>1. stage[i] = "kernel" /\ stage'[i] = "packet"
    BY Zenon DEF Transmit, TypeOK
  <1>2. \A j \in Items \ {i} : stage'[j] = stage[j] /\ txd'[j] = txd[j]
    BY Zenon DEF Transmit, TypeOK
  <1>3. UNCHANGED <<life, lock, send_queue, write_active, starting, disconnecting,
                    owner, ticket, accepted>>
    BY DEF Transmit, sessionVars, callVars, historyVars
  <1>4. /\ \A t \in Sessions : Writing(t)' = Writing(t)
        /\ \A j \in Items : EndsChain(j)' = EndsChain(j)
        /\ \A j \in Items : Phase(j)' = Phase(j)
    BY <1>1, <1>2, <1>3 DEF Writing, EndsChain, Phase, WriteStages
  <1>5. QueueShape'
    <2>1. \A t \in Sessions : \A p \in DOMAIN send_queue[t] : send_queue[t][p] \in Items
      BY QueueElement
    <2>2. \A j \in Items : stage'[j] = "queued" <=> stage[j] = "queued"
      BY <1>1, <1>2
    <2>3. QED
      BY <1>3, <2>1, <2>2 DEF WriteChainInv, QueueShape
  <1>6. RankShape' /\ ChainShape' /\ SingleWriter'
    BY <1>3, <1>4, Zenon DEF WriteChainInv, RankShape, ChainShape, SingleWriter
  <1>7. DrainShape'
    <2>1. \A j \in Items : /\ stage'[j] = "dropped" <=> stage[j] = "dropped"
                           /\ stage'[j] = "entering" <=> stage[j] = "entering"
      BY <1>1, <1>2
    <2>2. QED
      BY <1>3, <2>1 DEF WriteChainInv, DrainShape, TypeOK
  <1>8. \A j \in Items : Before(j, i) => j # i /\ txd[j] = Size[j] /\ j \notin CloseAfter
    BY <1>1, EarlierSent DEF WriteStages, Before, TypeOK
  <1>9. \A j, k \in Items : Before(j, k)' = Before(j, k)
    BY <1>3 DEF Before
  <1>10. ASSUME NEW k \in Items, Before(i, k), owner[k] \in Sessions
         PROVE  txd[k] = 0 /\ k # i
    <2>1. owner[k] = owner[i] /\ ticket[i] < ticket[k] /\ k # i
      BY <1>10 DEF Before, TypeOK
    <2>2. Phase(i) = 1 /\ Phase(k) \in 0 .. 2
      BY <1>1 DEF Phase, WriteStages
    <2>3. Phase(k) # 0
      <3>1. ticket[i] \in Nat /\ ticket[k] \in Nat
        BY DEF TypeOK
      <3>2. QED
        BY <1>10, <2>1, <2>2, <3>1 DEF WriteChainInv, RankShape
    <2>4. Writing(owner[k]) = {i}
      BY <1>1, <1>10, <2>1 DEF WriteChainInv, SingleWriter, Writing, WriteStages
    <2>5. stage[k] \notin WriteStages \cup {"gone"}
      BY <2>1, <2>3, <2>4 DEF Phase, Writing
    <2>6. txd[k] \in Nat
      BY DEF TypeOK
    <2>7. QED
      BY <2>1, <2>5, <2>6 DEF WriteChainInv, ItemShape
  <1>11. WireOrder'
    <2>1. SUFFICES ASSUME NEW j \in Items, NEW k \in Items, owner[k] \in Sessions,
                          Before(j, k), txd'[k] > 0
                   PROVE  txd'[j] = Size[j]
      BY <1>3, <1>9, Zenon DEF WireOrder
    <2>2. CASE k = i
      BY <1>2, <1>8, <2>1, <2>2
    <2>3. CASE k # i
      <3>1. txd[k] > 0
        BY <1>2, <2>1, <2>3
      <3>2. j # i
        BY <1>10, <2>1, <3>1
      <3>3. QED
        BY <1>2, <2>1, <3>1, <3>2, Zenon DEF WriteChainInv, WireOrder
    <2>4. QED
      BY <2>2, <2>3
  <1>12. NothingAfterClose'
    <2>1. SUFFICES ASSUME NEW j \in CloseAfter, NEW k \in Items, owner[k] \in Sessions,
                          j \in Items, Before(j, k)
                   PROVE  txd'[k] = 0
      BY <1>3, <1>9 DEF NothingAfterClose
    <2>2. k # i
      BY <1>8, <2>1
    <2>3. QED
      BY <1>2, <2>1, <2>2 DEF WriteChainInv, NothingAfterClose
  <1>13. QED
    BY <1>5, <1>6, <1>7, <1>11, <1>12

\* The write chain's invariant survives every step.
LEMMA ChainStep ==
    ASSUME TypeOK, TypeOK', WriteChainInv, Next
    PROVE  WriteChainInv'
  <1> DEFINE Rest == /\ QueueShape /\ RankShape /\ ChainShape /\ DrainShape
                     /\ SingleWriter /\ WireOrder /\ NothingAfterClose
  <1>1. ItemShape'
    BY ItemShapeStep
  <1>2. SUFFICES Rest'
    BY <1>1 DEF WriteChainInv
  <1>3. ASSUME NEW i \in Items,
               \/ CreateFails(i) \/ FirstPost(i) \/ WSASend(i) \/ WSASendFails(i)
               \/ SendFails(i) \/ HandleWrite(i) \/ FinishWrite(i)
        PROVE  Rest'
    <2>1. Moves(i)
      BY <1>3, Zenon DEF Moves, CreateFails, FirstPost, WSASend, WSASendFails, SendFails,
         HandleWrite, FinishWrite, PostWrite, WriteStages, sessionVars, callVars,
         historyVars
    <2>2. QED
      BY <2>1, MovesStep
  <1>4. ASSUME NEW s \in Sessions,
               WriterDisconnect(s) \/ OtherDisconnect(s) \/ CloseSocket(s)
        PROVE  Rest'
    <2>1. /\ \E x \in {"disconnecting", "closed"} :
                 life' = [life EXCEPT ![s] = IF @ = "drained" THEN @ ELSE x]
      <3>1. life[s] \in {"live", "disconnecting", "closed", "drained"}
        BY Zenon DEF TypeOK
      <3>2. QED
        BY <1>4, <3>1, Zenon
        DEF WriterDisconnect, OtherDisconnect, CloseSocket, BeginDisconnect, TypeOK
    <2>2. \A t \in Sessions \ {s} : disconnecting'[t] = disconnecting[t]
      BY <1>4, Zenon DEF WriterDisconnect, OtherDisconnect, CloseSocket,
         callVars, TypeOK
    <2>3. Closes(s)
      BY <1>4, <2>1, <2>2, Zenon DEF Closes, WriterDisconnect,
         OtherDisconnect, CloseSocket, sessionVars, callVars,
         historyVars
    <2>4. QED
      BY <2>3, ClosesStep
  <1>5. ASSUME NEW s \in Sessions, NEW i \in Items,
               EnqueueLock(s, i) \/ EnqueueDisconnected(s, i) \/ EnqueueOverLimit(s, i)
        PROVE  Rest'
    <2>1. \A t \in Sessions : disconnecting'[t] >= disconnecting[t]
      <3>1. \A t \in Sessions : disconnecting[t] \in Nat
        BY Zenon DEF TypeOK
      <3>2. \/ disconnecting' = disconnecting
            \/ disconnecting' = [disconnecting EXCEPT ![s] =
                     IF i \in CloseAfter THEN disconnecting[s] + 1 ELSE disconnecting[s]]
        BY <1>5, Zenon DEF EnqueueLock, EnqueueDisconnected, EnqueueOverLimit, Refuse, callVars
      <3>3. DOMAIN disconnecting = Sessions
        BY Zenon DEF TypeOK
      <3>4. QED
        BY <3>1, <3>2, <3>3
    <2>2. stage[i] = "new" \/ (lock[s] = i /\ stage[i] = "entering")
      BY <1>5, SendPathAssumption, Zenon DEF EnqueueLock, EnqueueDisconnected, EnqueueOverLimit,
         WriteChainInv, DrainShape
    <2>3. Enters(s, i)
      BY <1>5, <2>1, <2>2, Zenon DEF Enters, EnqueueLock,
         EnqueueDisconnected, EnqueueOverLimit, Refuse, Unlocked,
         sessionVars, callVars, historyVars, TypeOK
    <2>4. QED
      BY <2>3, EntersStep
  <1>6. ASSUME NEW i \in Items,
               Abandon(i) \/ ReleaseAndDisconnect(i) \/ ReleaseAndContinue(i)
        PROVE  Rest'
    <2>1. ReleaseAndContinue(i) => txd[i] = Size[i] /\ i \notin CloseAfter
      <3>1. SUFFICES ASSUME ReleaseAndContinue(i)
                     PROVE  txd[i] = Size[i] /\ i \notin CloseAfter
        OBVIOUS
      <3>2. /\ stage[i] = "settled" /\ sent[i] >= Size[i] /\ i \notin CloseAfter
        BY <3>1 DEF ReleaseAndContinue, ReleaseWrite, DisconnectsAfter, Complete
      <3>3. sent[i] \in Nat /\ txd[i] \in Nat /\ Size[i] \in Nat
        BY SizeNat, Zenon DEF TypeOK
      <3>4. QED
        BY <3>2, <3>3 DEF WriteChainInv, ItemShape
    <2>2. Retires(i)
      BY <1>6, <2>1, Zenon DEF Retires, Abandon, ReleaseAndDisconnect, ReleaseAndContinue,
         ReleaseWrite, WriteStages, sessionVars, historyVars
    <2>3. QED
      BY <2>2, RetiresStep
  <1>7. ASSUME NEW s \in Sessions, NEW i \in Items, EnqueuePush(s, i)
        PROVE  Rest'
    BY <1>7, PushStep
  <1>8. ASSUME NEW s \in Sessions, StartNextWrite(s) \/ StopWriting(s) \/ DrainQueue(s)
        PROVE  Rest'
    BY <1>8, PopStep, StopWritingStep, DrainStep, Zenon
  <1>9. ASSUME NEW i \in Items, NEW n \in 1 .. Size[i], Transmit(i, n)
        PROVE  Rest'
    BY <1>9, TransmitStep
  <1> HIDE DEF Rest
  <1>10. QED
    BY <1>3, <1>4, <1>5, <1>6, <1>7, <1>8, <1>9, Zenon DEF Next, SessionStep, ItemStep

\* A server without connections satisfies the invariant.
LEMMA InitInv == Init => TypeOK /\ WriteChainInv
  <1> SUFFICES ASSUME Init PROVE TypeOK /\ WriteChainInv
    OBVIOUS
  <1>1. TypeOK
    BY SendPathAssumption, StageNames DEF Init, TypeOK
  <1>2. QueueShape /\ RankShape /\ DrainShape
    BY SendPathAssumption DEF Init, QueueShape, RankShape, DrainShape
  <1>3. ItemShape
    BY SendPathAssumption, SizeNat DEF Init, ItemShape
  <1>4. \A s \in Sessions : Writing(s) = {}
    BY DEF Init, Writing, WriteStages
  <1>5. ChainShape /\ SingleWriter
    BY <1>4, SendPathAssumption DEF Init, ChainShape, SingleWriter, EndsChain
  <1>6. WireOrder /\ NothingAfterClose
    BY SendPathAssumption DEF Init, WireOrder, NothingAfterClose
  <1>7. QED
    BY <1>1, <1>2, <1>3, <1>5, <1>6 DEF WriteChainInv

\* A step of some other component leaves the invariant alone.
LEMMA StutterInv ==
    ASSUME TypeOK, WriteChainInv, UNCHANGED vars
    PROVE  TypeOK' /\ WriteChainInv'
  <1> USE DEF vars, sessionVars, callVars, counterVars, historyVars
  <1>1. TypeOK'
    BY Zenon DEF TypeOK
  <1>2. QueueShape' /\ DrainShape'
    <2>1. QueueShape'
      BY DEF WriteChainInv, QueueShape
    <2>2. DrainShape'
      BY Zenon DEF WriteChainInv, DrainShape
    <2>3. QED
      BY <2>1, <2>2
  <1>3. ItemShape' /\ RankShape'
    BY DEF WriteChainInv, ItemShape, RankShape, Phase
  <1>4. (\A s \in Sessions : Writing(s)' = Writing(s)) /\ \A i \in Items : EndsChain(i)' = EndsChain(i)
    BY DEF Writing, EndsChain
  <1>5. ChainShape'
    BY <1>4, Zenon DEF WriteChainInv, ChainShape
  <1>6. SingleWriter'
    BY <1>4 DEF WriteChainInv, SingleWriter
  <1>7. WireOrder' /\ NothingAfterClose'
    BY Zenon DEF WriteChainInv, WireOrder, NothingAfterClose, Before
  <1>8. QED
    BY <1>1, <1>2, <1>3, <1>5, <1>6, <1>7, Zenon DEF WriteChainInv

-----------------------------------------------------------------------------
(* The ordered channel, and the silence after the drain, step by step.     *)

\* Steps that neither accept, transmit nor drain do not move the channel.
LEMMA Invisible ==
    ASSUME TypeOK, UNCHANGED <<owner, ticket, accepted, txd>>,
           \A s \in Sessions : life'[s] = "drained" <=> life[s] = "drained"
    PROVE  UNCHANGED Channel!vars
  BY DEF Channel!vars

\* A successful Enqueue is the channel's Accept: send_mutex keeps it from
\* falling behind Disconnect's drain.
LEMMA PushAccepts ==
    ASSUME TypeOK, WriteChainInv, NEW s \in Sessions, NEW i \in Items, EnqueuePush(s, i)
    PROVE  Channel!Accept(s, i)
  <1>1. stage[i] = "entering" /\ owner[i] = NoSession /\ life[s] # "drained"
    BY SendPathAssumption, Zenon DEF EnqueuePush, WriteChainInv, DrainShape, ItemShape
  <1>2. QED
    BY <1>1, Zenon DEF EnqueuePush, Channel!Accept

\* Bytes put on the connection are the channel's Deliver.
LEMMA TransmitDelivers ==
    ASSUME TypeOK, WriteChainInv, NEW i \in Items, NEW n \in 1 .. Size[i],
           Transmit(i, n)
    PROVE  \E s \in Sessions : Channel!Deliver(s, i, n)
  <1>1. PICK s \in Sessions : owner[i] = s
    BY Owned DEF WriteChainInv, Transmit
  <1>2. \A j \in Items : owner[j] = s /\ ticket[j] < ticket[i] =>
            txd[j] = Size[j] /\ j \notin CloseAfter
    BY <1>1, EarlierSent, Zenon DEF Transmit, Before, WriteStages
  <1>3. life[s] # "drained"
    BY <1>1 DEF Transmit, SocketOpen
  <1>4. Channel!Deliver(s, i, n)
    BY <1>1, <1>2, <1>3, Zenon DEF Channel!Deliver, Transmit, historyVars
  <1>5. QED
    BY <1>4

\* Disconnect's drain is the channel going down.
LEMMA DrainGoesDown ==
    ASSUME TypeOK, NEW s \in Sessions, DrainQueue(s)
    PROVE  Channel!GoDown(s)
  <1>1. life[s] # "drained" /\ life' = [life EXCEPT ![s] = "drained"]
    BY DEF DrainQueue
  <1>2. [t \in Sessions |-> life'[t] # "drained"] =
            [[t \in Sessions |-> life[t] # "drained"] EXCEPT ![s] = FALSE]
    BY <1>1, Zenon DEF TypeOK
  <1>3. QED
    BY <1>1, <1>2, Zenon DEF DrainQueue, historyVars, Channel!GoDown

\* Every step of the send path is a step of the channel or leaves it alone.
LEMMA ChannelStep ==
    ASSUME TypeOK, WriteChainInv, Next
    PROVE  Channel!Next \/ UNCHANGED Channel!vars
  <1>1. ASSUME NEW s \in Sessions, NEW i \in Items,
               EnqueueLock(s, i) \/ EnqueueDisconnected(s, i) \/ EnqueueOverLimit(s, i)
        PROVE  UNCHANGED Channel!vars
    <2>1. UNCHANGED <<life, owner, ticket, accepted, txd>>
      BY <1>1, Zenon DEF EnqueueLock, EnqueueDisconnected, EnqueueOverLimit, historyVars
    <2>2. QED
      BY <2>1, Invisible
  <1>2. ASSUME NEW s \in Sessions, StartNextWrite(s) \/ StopWriting(s)
        PROVE  UNCHANGED Channel!vars
    <2>1. UNCHANGED <<life, owner, ticket, accepted, txd>>
      BY <1>2, Zenon DEF StartNextWrite, StopWriting, historyVars
    <2>2. QED
      BY <2>1, Invisible
  <1>3. ASSUME NEW s \in Sessions,
               WriterDisconnect(s) \/ OtherDisconnect(s) \/ CloseSocket(s)
        PROVE  UNCHANGED Channel!vars
    <2>1. UNCHANGED <<owner, ticket, accepted, txd>>
      BY <1>3 DEF WriterDisconnect, OtherDisconnect, CloseSocket, historyVars
    <2>2. \A t \in Sessions : life'[t] = "drained" <=> life[t] = "drained"
      BY <1>3 DEF WriterDisconnect, OtherDisconnect, CloseSocket, BeginDisconnect, TypeOK
    <2>3. QED
      BY <2>1, <2>2, Invisible
  <1>4. ASSUME NEW i \in Items,
               \/ CreateFails(i) \/ Abandon(i) \/ FirstPost(i) \/ WSASend(i)
               \/ WSASendFails(i) \/ SendFails(i) \/ HandleWrite(i) \/ FinishWrite(i)
               \/ ReleaseAndDisconnect(i) \/ ReleaseAndContinue(i)
        PROVE  UNCHANGED Channel!vars
    <2>1. UNCHANGED <<life, owner, ticket, accepted, txd>>
      BY <1>4, Zenon DEF CreateFails, Abandon, FirstPost, WSASend, WSASendFails, SendFails,
         HandleWrite, FinishWrite, ReleaseAndDisconnect, ReleaseAndContinue,
         ReleaseWrite, historyVars
    <2>2. QED
      BY <2>1, Invisible
  <1>5. ASSUME NEW s \in Sessions, NEW i \in Items, EnqueuePush(s, i)
        PROVE  Channel!Next
    BY <1>5, PushAccepts DEF Channel!Next
  <1>6. ASSUME NEW i \in Items, NEW n \in 1 .. Size[i], Transmit(i, n)
        PROVE  Channel!Next
    BY <1>6, TransmitDelivers DEF Channel!Next
  <1>7. ASSUME NEW s \in Sessions, DrainQueue(s)
        PROVE  Channel!Next
    BY <1>7, DrainGoesDown DEF Channel!Next
  <1>8. QED
    BY <1>1, <1>2, <1>3, <1>4, <1>5, <1>6, <1>7, Zenon DEF Next, SessionStep, ItemStep

\* The step that may not happen to a drained session.
Silent(s) ==
    /\ send_queue'[s] = send_queue[s]
    /\ \A i \in Items : owner[i] = s /\ stage[i] # "kernel" => stage'[i] # "kernel"

\* No step pushes or posts for a drained session: send_mutex is free and the
\* socket is gone.
LEMMA SilentStep ==
    ASSUME TypeOK, WriteChainInv, Next, NEW s \in Sessions, life[s] = "drained"
    PROVE  Silent(s)
  <1>1. send_queue[s] = <<>> /\ lock[s] = NoItem
    BY DEF WriteChainInv, DrainShape
  <1>2. ASSUME NEW i \in Items, NEW x, stage' = [stage EXCEPT ![i] = x],
               x # "kernel" \/ owner[i] # s, send_queue'[s] = send_queue[s]
        PROVE  Silent(s)
    BY <1>2 DEF Silent, TypeOK
  <1>3. ASSUME NEW t \in Sessions, NEW i \in Items,
               EnqueueLock(t, i) \/ EnqueueDisconnected(t, i) \/ EnqueueOverLimit(t, i)
        PROVE  Silent(s)
    BY <1>2, <1>3, Zenon DEF EnqueueLock, EnqueueDisconnected, EnqueueOverLimit, Refuse,
                      sessionVars
  <1>4. ASSUME NEW t \in Sessions, NEW i \in Items, EnqueuePush(t, i)
        PROVE  Silent(s)
    <2>1. t # s
      BY <1>1, <1>4, SendPathAssumption, Zenon DEF EnqueuePush
    <2>2. send_queue'[s] = send_queue[s] /\ stage' = [stage EXCEPT ![i] = "queued"]
      BY <1>4, <2>1, Zenon DEF EnqueuePush, TypeOK
    <2>3. QED
      BY <1>2, <2>2, Zenon
  <1>5. ASSUME NEW t \in Sessions, StartNextWrite(t)
        PROVE  Silent(s)
    <2>1. t # s
      BY <1>1, <1>5, Zenon DEF StartNextWrite
    <2>2. send_queue'[s] = send_queue[s]
      BY <1>5, <2>1, Zenon DEF StartNextWrite, TypeOK
    <2>3. stage' = [stage EXCEPT ![Head(send_queue[t])] = "popped"]
      BY <1>5 DEF StartNextWrite
    <2>4. QED
      BY <2>2, <2>3, Zenon DEF Silent, TypeOK
  <1>6. ASSUME NEW t \in Sessions,
               \/ StopWriting(t) \/ WriterDisconnect(t) \/ OtherDisconnect(t)
               \/ CloseSocket(t)
        PROVE  Silent(s)
    BY <1>6, ZenonT(30) DEF StopWriting, WriterDisconnect, OtherDisconnect, CloseSocket,
                sessionVars, Silent
  <1>7. ASSUME NEW t \in Sessions, DrainQueue(t)
        PROVE  Silent(s)
    <2>1. t # s
      BY <1>7 DEF DrainQueue
    <2>2. send_queue'[s] = send_queue[s]
      BY <1>7, <2>1, Zenon DEF DrainQueue, TypeOK
    <2>3. \A i \in Items : stage'[i] = stage[i] \/ stage'[i] = "dropped"
      BY <1>7 DEF DrainQueue
    <2>4. QED
      BY <2>2, <2>3 DEF Silent
  <1>8. ASSUME NEW i \in Items, WSASend(i)
        PROVE  Silent(s)
    BY <1>2, <1>8, Zenon DEF WSASend, SocketOpen, sessionVars
  <1>9. ASSUME NEW i \in Items,
               \/ CreateFails(i) \/ Abandon(i) \/ FirstPost(i) \/ WSASendFails(i)
               \/ SendFails(i) \/ HandleWrite(i) \/ FinishWrite(i)
               \/ ReleaseAndDisconnect(i) \/ ReleaseAndContinue(i)
               \/ \E n \in 1 .. Size[i] : Transmit(i, n)
        PROVE  Silent(s)
    <2>1. send_queue' = send_queue
      BY <1>9, ZenonT(30) DEF CreateFails, Abandon, FirstPost, WSASendFails, SendFails,
         HandleWrite, FinishWrite, ReleaseAndDisconnect, ReleaseAndContinue,
         ReleaseWrite, Transmit, sessionVars
    <2>2. \E x \in {"orphaned", "gone", "posting", "finish", "packet", "settled"} :
              stage' = [stage EXCEPT ![i] = x]
      BY <1>9, Zenon DEF CreateFails, Abandon, FirstPost, WSASendFails, SendFails,
         HandleWrite, FinishWrite, ReleaseAndDisconnect, ReleaseAndContinue,
         ReleaseWrite, Transmit, PostWrite
    <2>3. QED
      BY <1>2, <2>1, <2>2, ZenonT(30)
  <1>10. QED
    BY <1>3, <1>4, <1>5, <1>6, <1>7, <1>8, <1>9, Zenon DEF Next, SessionStep, ItemStep

-----------------------------------------------------------------------------
(* The bytes of sets of items.                                             *)

\* The interval 1 .. n, which stands for the bytes of one item, has n elements.
LEMMA IntervalCardinality ==
    ASSUME NEW n \in Nat
    PROVE  IsFiniteSet(1 .. n) /\ Cardinality(1 .. n) = n
  <1>1. IsFiniteSet(1 .. n) /\ Cardinality(1 .. n) = IF 1 > n THEN 0 ELSE n - 1 + 1
    BY FS_Interval, 1 \in Int, n \in Int, Zenon
  <1>2. QED
    BY <1>1

\* The byte tokens of a set of items are finitely many.
LEMMA BytesFinite ==
    ASSUME NEW S \in SUBSET Items
    PROVE  IsFiniteSet(Bytes(S)) /\ ByteCount(S) \in Nat
  <1> DEFINE chunk == [i \in S |-> {i} \X (1 .. Size[i])]
  <1>1. IsFiniteSet(S)
    BY FS_Subset, SendPathAssumption
  <1>2. chunk \in Surjection(S, {chunk[i] : i \in S})
    BY DEF Surjection
  <1>3. IsFiniteSet({chunk[i] : i \in S})
    BY <1>1, <1>2, FS_Surjection
  <1>4. ASSUME NEW T \in {chunk[i] : i \in S}
        PROVE  IsFiniteSet(T)
    <2>1. PICK i \in S : T = {i} \X (1 .. Size[i])
      BY <1>4
    <2>2. Size[i] \in Nat
      BY SizeNat
    <2>3. IsFiniteSet({i}) /\ IsFiniteSet(1 .. Size[i])
      BY <2>2, FS_Singleton, IntervalCardinality, Zenon
    <2>4. QED
      BY <2>1, <2>3, FS_Product, Zenon
  <1>5. IsFiniteSet(UNION {chunk[i] : i \in S})
    BY <1>3, <1>4, FS_UNION, Zenon
  <1>6. Bytes(S) = UNION {chunk[i] : i \in S}
    BY DEF Bytes
  <1>7. QED
    BY <1>5, <1>6, FS_CardinalityType DEF ByteCount

\* Disjoint sets of items have the sum of their bytes.
LEMMA ByteCountUnion ==
    ASSUME NEW S \in SUBSET Items, NEW T \in SUBSET Items, S \cap T = {}
    PROVE  ByteCount(S \cup T) = ByteCount(S) + ByteCount(T)
  <1>1. IsFiniteSet(Bytes(S)) /\ IsFiniteSet(Bytes(T))
    BY BytesFinite
  <1>2. Bytes(S \cup T) = Bytes(S) \cup Bytes(T)
    BY DEF Bytes
  <1>3. Bytes(S) \cap Bytes(T) = {}
    BY DEF Bytes
  <1>4. Cardinality(Bytes(S) \cup Bytes(T))
          = Cardinality(Bytes(S)) + Cardinality(Bytes(T)) - 0
    BY <1>1, <1>3, FS_Union, FS_EmptySet
  <1>5. ByteCount(S) \in Nat /\ ByteCount(T) \in Nat
    BY BytesFinite
  <1>6. ByteCount(S \cup T) = ByteCount(S) + ByteCount(T) - 0
    BY <1>2, <1>4, Zenon DEF ByteCount
  <1>7. QED
    BY <1>5, <1>6

\* One item has Size[i] bytes: header_size + payload->size().
LEMMA ByteCountOne ==
    ASSUME NEW i \in Items
    PROVE  ByteCount({i}) = Size[i]
  <1>1. Bytes({i}) = {i} \X (1 .. Size[i])
    BY DEF Bytes
  <1>2. Size[i] \in Nat
    BY SizeNat
  <1>3. IsFiniteSet({i}) /\ Cardinality({i}) = 1
    BY FS_Singleton
  <1>4. IsFiniteSet(1 .. Size[i]) /\ Cardinality(1 .. Size[i]) = Size[i]
    BY <1>2, IntervalCardinality
  <1>5. Cardinality({i} \X (1 .. Size[i])) = Cardinality({i}) * Cardinality(1 .. Size[i])
    BY <1>3, <1>4, FS_Product, Zenon
  <1>6. Cardinality({i} \X (1 .. Size[i])) = 1 * Size[i]
    BY <1>3, <1>4, <1>5, Zenon
  <1>7. 1 * Size[i] = Size[i]
    BY <1>2
  <1>8. QED
    BY <1>1, <1>6, <1>7, Zenon DEF ByteCount

\* Enqueue's additions: one more item adds its size ...
LEMMA ByteCountAdd ==
    ASSUME NEW S \in SUBSET Items, NEW i \in Items, i \notin S
    PROVE  ByteCount(S \cup {i}) = ByteCount(S) + Size[i]
  BY ByteCountUnion, ByteCountOne, Zenon

\* ... and the subtractions of FinishWrite and Disconnect take it away again.
LEMMA ByteCountRemove ==
    ASSUME NEW S \in SUBSET Items, NEW T \in SUBSET S
    PROVE  ByteCount(S \ T) = ByteCount(S) - ByteCount(T)
  <1>1. S = (S \ T) \cup T /\ (S \ T) \cap T = {}
    OBVIOUS
  <1>2. ByteCount(S) = ByteCount(S \ T) + ByteCount(T)
    BY <1>1, ByteCountUnion
  <1>3. QED
    BY <1>2, BytesFinite

-----------------------------------------------------------------------------
(* The write chain.                                                        *)

\* The code's Enqueue, StartNextWrite, FinishWrite and Disconnect keep the
\* types and the write chain's invariant in every reachable state.
THEOREM WriteChain == Spec => [](TypeOK /\ WriteChainInv)
  <1>1. ASSUME TypeOK /\ WriteChainInv, [Next]_vars
        PROVE  (TypeOK /\ WriteChainInv)'
    <2>1. BytesCounted
      BY BytesFinite DEF BytesCounted
    <2>2. CASE Next
      <3>1. TypeOK'
        BY <1>1, <2>1, <2>2, TypeStep DEF WriteChainInv
      <3>2. QED
        BY <1>1, <2>2, <3>1, ChainStep
    <2>3. CASE UNCHANGED vars
      BY <1>1, <2>3, StutterInv
    <2>4. QED
      BY <1>1, <2>2, <2>3
  <1>2. QED
    BY <1>1, InitInv, PTL DEF Spec

\* Every reachable state is well typed.
THEOREM TypeCorrect == Spec => []TypeOK
  BY WriteChain, PTL

\* The writer role is never held twice.
THEOREM OneWriter == Spec => []SingleWriter
  <1>1. WriteChainInv => SingleWriter
    BY DEF WriteChainInv
  <1>2. QED
    BY <1>1, WriteChain, PTL

\* Bytes leave in the order the items were accepted.
THEOREM InOrder == Spec => []WireOrder
  <1>1. WriteChainInv => WireOrder
    BY DEF WriteChainInv
  <1>2. QED
    BY <1>1, WriteChain, PTL

\* Nothing leaves behind a close frame or a rejection response.
THEOREM CloseIsLast == Spec => []NothingAfterClose
  <1>1. WriteChainInv => NothingAfterClose
    BY DEF WriteChainInv
  <1>2. QED
    BY <1>1, WriteChain, PTL

\* A queued item always has somebody working for it.
THEOREM NothingStranded == Spec => []NoStrandedItem
  <1>1. TypeOK /\ WriteChainInv => NoStrandedItem
    BY ZenonT(30) DEF TypeOK, WriteChainInv, ChainShape, DrainShape, NoStrandedItem
  <1>2. QED
    BY <1>1, WriteChain, PTL

\* The outbound path of a session is an ordered channel: what Enqueue accepts
\* comes out in order and complete, up to the point where the session ends,
\* and nothing comes out behind a close.
THEOREM SendPathIsChannel == Spec => RefinesChannel
  <1>1. Init => Channel!Init
    BY Zenon DEF Init, Channel!Init
  <1>2. TypeOK /\ WriteChainInv /\ [Next]_vars => [Channel!Next]_(Channel!vars)
    <2>1. UNCHANGED vars => UNCHANGED Channel!vars
      BY DEF vars, historyVars, Channel!vars
    <2>2. QED
      BY <2>1, ChannelStep
  <1>3. QED
    BY <1>1, <1>2, WriteChain, PTL DEF Spec, RefinesChannel, Channel!Spec

\* Nothing is pushed or posted for a session after Disconnect's drain.
THEOREM SilentAfterDrain == Spec => NothingAfterDrain
  <1>1. TypeOK /\ WriteChainInv /\ [Next]_vars =>
            [\A s \in Sessions : life[s] = "drained" =>
                /\ send_queue'[s] = send_queue[s]
                /\ \A i \in Items : owner[i] = s /\ stage[i] # "kernel" =>
                       stage'[i] # "kernel"]_vars
    BY SilentStep DEF Silent
  <1>2. QED
    BY <1>1, WriteChain, PTL DEF Spec, NothingAfterDrain

-----------------------------------------------------------------------------
(* The counters.                                                           *)

Accounting == SessionAccounting /\ GlobalAccounting

\* One item less has its size less.
LEMMA ByteCountTake ==
    ASSUME NEW S \in SUBSET Items, NEW i \in S
    PROVE  ByteCount(S \ {i}) = ByteCount(S) - Size[i]
  <1>1. ByteCount(S \ {i}) = ByteCount(S) - ByteCount({i})
    BY ByteCountRemove
  <1>2. QED
    BY <1>1, ByteCountOne, Zenon

\* Items change stage without crossing a charge, and no counter moves: most
\* steps of the write chain.
LEMMA ChargesSame ==
    ASSUME Accounting, UNCHANGED <<owner, queued_bytes, global_queued>>,
           \A j \in Items :
               /\ stage'[j] \in HeldStages <=> stage[j] \in HeldStages
               /\ stage'[j] \in ReservedStages <=> stage[j] \in ReservedStages
    PROVE  Accounting'
  <1>1. \A s \in Sessions : Held(s)' = Held(s)
    BY DEF Held
  <1>2. Reserved' = Reserved
    BY DEF Reserved
  <1>3. SessionAccounting'
    BY <1>1 DEF Accounting, SessionAccounting
  <1>4. GlobalAccounting'
    BY <1>2 DEF Accounting, GlobalAccounting
  <1>5. QED
    BY <1>3, <1>4 DEF Accounting

\* Enqueue charges the session and the server, each within its limit.
LEMMA PushCharges ==
    ASSUME TypeOK, WriteChainInv, Accounting,
           NEW s \in Sessions, NEW i \in Items, EnqueuePush(s, i)
    PROVE  Accounting'
  <1>1. /\ stage[i] = "entering" /\ owner[i] = NoSession
        /\ stage'[i] = "queued" /\ owner'[i] = s
        /\ \A j \in Items \ {i} : stage'[j] = stage[j] /\ owner'[j] = owner[j]
    <2>1. stage[i] = "entering" /\ owner[i] = NoSession
      BY SendPathAssumption, Zenon
      DEF EnqueuePush, WriteChainInv, DrainShape, ItemShape
    <2>2. QED
      BY <2>1, Zenon DEF EnqueuePush, TypeOK
  <1>2. /\ i \notin Held(s) /\ Held(s)' = Held(s) \cup {i}
        /\ i \notin Reserved /\ Reserved' = Reserved \cup {i}
        /\ Held(s) \subseteq Items /\ Reserved \subseteq Items
    BY <1>1, Zenon DEF Held, Reserved, HeldStages, ReservedStages
  <1>3. \A t \in Sessions \ {s} : Held(t)' = Held(t)
    BY <1>1, SendPathAssumption DEF Held, HeldStages
  <1>4. /\ ByteCount(Held(s) \cup {i}) = ByteCount(Held(s)) + Size[i]
        /\ ByteCount(Reserved \cup {i}) = ByteCount(Reserved) + Size[i]
    BY <1>2, ByteCountAdd
  <1>5. /\ queued_bytes[s] \in Int /\ global_queued \in Int /\ Size[i] \in Int
        /\ MaxSessionQueued \in Int /\ MaxGlobalQueued \in Int
    BY SizeNat, SendPathAssumption DEF TypeOK
  <1>6. /\ queued_bytes'[s] = queued_bytes[s] + Size[i]
        /\ \A t \in Sessions \ {s} : queued_bytes'[t] = queued_bytes[t]
        /\ global_queued' = global_queued + Size[i]
        /\ queued_bytes[s] <= MaxSessionQueued - Size[i]
        /\ global_queued <= MaxGlobalQueued - Size[i]
    BY Zenon DEF EnqueuePush, FitsSession, ReserveGlobalQueued, TypeOK
  <1>7. queued_bytes'[s] <= MaxSessionQueued /\ global_queued' <= MaxGlobalQueued
    BY <1>5, <1>6
  <1>8. SessionAccounting'
    BY <1>2, <1>3, <1>4, <1>6, <1>7, Zenon DEF Accounting, SessionAccounting
  <1>9. GlobalAccounting'
    BY <1>2, <1>4, <1>6, <1>7, Zenon DEF Accounting, GlobalAccounting
  <1>10. QED
    BY <1>8, <1>9 DEF Accounting

\* The first section of FinishWrite, and of StartNextWrite without memory,
\* takes the item off its session: the clamp at zero is never needed.
LEMMA SettleCharges ==
    ASSUME TypeOK, WriteChainInv, Accounting,
           NEW i \in Items, CreateFails(i) \/ FinishWrite(i)
    PROVE  Accounting'
  <1>1. PICK s \in Sessions : owner[i] = s
    BY Owned, Zenon DEF WriteChainInv, CreateFails, FinishWrite
  <1>2. /\ stage[i] \in {"popped", "finish"} /\ stage'[i] \in {"orphaned", "settled"}
        /\ owner' = owner /\ global_queued' = global_queued
        /\ \A j \in Items \ {i} : stage'[j] = stage[j]
    BY Zenon DEF CreateFails, FinishWrite, TypeOK, counterVars, historyVars
  <1>3. /\ i \in Held(s) /\ Held(s)' = Held(s) \ {i}
        /\ Reserved' = Reserved /\ Held(s) \subseteq Items
    BY <1>1, <1>2, Zenon DEF Held, Reserved, HeldStages, ReservedStages
  <1>4. \A t \in Sessions \ {s} : Held(t)' = Held(t)
    BY <1>1, <1>2 DEF Held
  <1>5. /\ ByteCount(Held(s)) = queued_bytes[s]
        /\ ByteCount(Held(s) \ {i}) = queued_bytes[s] - Size[i]
        /\ ByteCount(Held(s) \ {i}) \in Nat
    BY <1>3, ByteCountTake, BytesFinite DEF Accounting, SessionAccounting
  <1>6. queued_bytes[s] \in Int /\ Size[i] \in Nat /\ MaxSessionQueued \in Int
    BY SizeNat, SendPathAssumption DEF TypeOK
  <1>7. ~(Size[i] > queued_bytes[s])
    BY <1>5, <1>6
  <1>8. /\ queued_bytes'[s] = queued_bytes[s] - Size[i]
        /\ \A t \in Sessions \ {s} : queued_bytes'[t] = queued_bytes[t]
    BY <1>1, <1>7, Zenon DEF CreateFails, FinishWrite, TypeOK
  <1>9. queued_bytes'[s] <= MaxSessionQueued
    BY <1>6, <1>8 DEF Accounting, SessionAccounting
  <1>10. SessionAccounting'
    BY <1>3, <1>4, <1>5, <1>8, <1>9, Zenon DEF Accounting, SessionAccounting
  <1>11. GlobalAccounting'
    BY <1>2, <1>3 DEF Accounting, GlobalAccounting
  <1>12. QED
    BY <1>10, <1>11 DEF Accounting

\* The end of FinishWrite gives the global bytes of the item back.
LEMMA ReleaseCharges ==
    ASSUME TypeOK, Accounting, NEW i \in Items,
           Abandon(i) \/ ReleaseAndDisconnect(i) \/ ReleaseAndContinue(i)
    PROVE  Accounting'
  <1>1. /\ stage[i] \in {"orphaned", "settled"} /\ stage'[i] = "gone"
        /\ UNCHANGED <<owner, queued_bytes>>
        /\ global_queued' = global_queued - Size[i]
        /\ \A j \in Items \ {i} : stage'[j] = stage[j]
    BY Zenon DEF Abandon, ReleaseAndDisconnect, ReleaseAndContinue, ReleaseWrite, TypeOK,
           sessionVars, historyVars
  <1>2. /\ i \in Reserved /\ Reserved' = Reserved \ {i} /\ Reserved \subseteq Items
        /\ \A s \in Sessions : Held(s)' = Held(s)
    BY <1>1 DEF Held, Reserved, HeldStages, ReservedStages
  <1>3. ByteCount(Reserved \ {i}) = global_queued - Size[i]
    BY <1>2, ByteCountTake DEF Accounting, GlobalAccounting
  <1>4. global_queued' <= MaxGlobalQueued
    <2>1. global_queued \in Int /\ Size[i] \in Nat /\ MaxGlobalQueued \in Int
      BY SizeNat, SendPathAssumption DEF TypeOK
    <2>2. QED
      BY <1>1, <2>1 DEF Accounting, GlobalAccounting
  <1>5. SessionAccounting'
    BY <1>1, <1>2 DEF Accounting, SessionAccounting
  <1>6. GlobalAccounting'
    BY <1>1, <1>2, <1>3, <1>4 DEF Accounting, GlobalAccounting
  <1>7. QED
    BY <1>5, <1>6 DEF Accounting

\* Disconnect's drain takes the bytes of the whole queue off both counters.
LEMMA DrainCharges ==
    ASSUME TypeOK, WriteChainInv, Accounting, NEW s \in Sessions, DrainQueue(s)
    PROVE  Accounting'
  <1> DEFINE Q == QueueItems(s)
  <1>1. \A i \in Q : i \in Items /\ owner[i] = s /\ stage[i] = "queued"
    BY QueueElement DEF QueueItems, WriteChainInv, QueueShape
  <1>2. /\ owner' = owner
        /\ \A i \in Q : stage'[i] = "dropped"
        /\ \A i \in Items \ Q : stage'[i] = stage[i]
    BY <1>1, Zenon DEF DrainQueue, historyVars
  <1> HIDE DEF Q
  <1>3. /\ Q \subseteq Held(s) /\ Held(s)' = Held(s) \ Q /\ Held(s) \subseteq Items
        /\ \A t \in Sessions \ {s} : Held(t)' = Held(t)
    BY <1>1, <1>2, Zenon DEF Held, HeldStages
  <1>4. Q \subseteq Reserved /\ Reserved' = Reserved \ Q /\ Reserved \subseteq Items
    BY <1>1, <1>2 DEF Reserved, ReservedStages, HeldStages
  <1>5. /\ ByteCount(Held(s) \ Q) = queued_bytes[s] - ByteCount(Q)
        /\ ByteCount(Reserved \ Q) = global_queued - ByteCount(Q)
    BY <1>3, <1>4, ByteCountRemove DEF Accounting, SessionAccounting, GlobalAccounting
  <1>6. /\ queued_bytes'[s] = queued_bytes[s] - ByteCount(Q)
        /\ \A t \in Sessions \ {s} : queued_bytes'[t] = queued_bytes[t]
        /\ global_queued' = global_queued - ByteCount(Q)
    BY Zenon DEF DrainQueue, TypeOK, Q
  <1>7. queued_bytes'[s] <= MaxSessionQueued /\ global_queued' <= MaxGlobalQueued
    <2>1. /\ queued_bytes[s] \in Int /\ global_queued \in Int
          /\ MaxSessionQueued \in Int /\ MaxGlobalQueued \in Int
      BY SendPathAssumption DEF TypeOK
    <2>2. ByteCount(Q) \in Nat
      BY <1>1, BytesFinite
    <2>3. QED
      BY <1>6, <2>1, <2>2 DEF Accounting, SessionAccounting, GlobalAccounting
  <1>8. SessionAccounting'
    BY <1>3, <1>5, <1>6, <1>7, Zenon DEF Accounting, SessionAccounting
  <1>9. GlobalAccounting'
    BY <1>4, <1>5, <1>6, <1>7 DEF Accounting, GlobalAccounting
  <1>10. QED
    BY <1>8, <1>9 DEF Accounting

\* Every step keeps both byte counters exact.
LEMMA AccountStep ==
    ASSUME TypeOK, WriteChainInv, Accounting, Next
    PROVE  Accounting'
  <1>1. ASSUME NEW i \in Items, NEW x \in Stages, stage' = [stage EXCEPT ![i] = x],
               UNCHANGED <<owner, queued_bytes, global_queued>>,
               \/ stage[i] \in HeldStages /\ x \in HeldStages
               \/ stage[i] \in {"new", "entering"} /\ x \in {"entering", "refused"}
        PROVE  Accounting'
    <2>1. \A j \in Items :
              /\ stage'[j] \in HeldStages <=> stage[j] \in HeldStages
              /\ stage'[j] \in ReservedStages <=> stage[j] \in ReservedStages
      BY <1>1, Zenon DEF HeldStages, ReservedStages, TypeOK
    <2>2. QED
      BY <1>1, <2>1, ChargesSame
  <1>2. ASSUME NEW s \in Sessions, NEW i \in Items,
               EnqueueLock(s, i) \/ EnqueueDisconnected(s, i) \/ EnqueueOverLimit(s, i)
        PROVE  Accounting'
    <2>1. stage[i] \in {"new", "entering"}
      BY <1>2, SendPathAssumption, Zenon
      DEF EnqueueLock, EnqueueDisconnected, EnqueueOverLimit, WriteChainInv, DrainShape
    <2>2. \E x \in {"entering", "refused"} : stage' = [stage EXCEPT ![i] = x]
      BY <1>2, Zenon DEF EnqueueLock, EnqueueDisconnected, EnqueueOverLimit, Refuse
    <2>3. UNCHANGED <<owner, queued_bytes, global_queued>>
      BY <1>2, Zenon DEF EnqueueLock, EnqueueDisconnected, EnqueueOverLimit,
                  sessionVars, counterVars, historyVars
    <2>4. QED
      BY <1>1, <2>1, <2>2, <2>3, Zenon DEF Stages
  <1>3. ASSUME NEW s \in Sessions, StartNextWrite(s)
        PROVE  Accounting'
    <2>1. PICK i \in Items : stage[i] = "queued" /\ stage' = [stage EXCEPT ![i] = "popped"]
      <3>1. Head(send_queue[s]) = send_queue[s][1] /\ 1 \in DOMAIN send_queue[s]
        BY <1>3 DEF StartNextWrite, TypeOK
      <3>2. send_queue[s][1] \in Items /\ stage[send_queue[s][1]] = "queued"
        BY <3>1, QueueElement, Zenon DEF WriteChainInv, QueueShape
      <3>3. QED
        BY <1>3, <3>1, <3>2, Zenon DEF StartNextWrite
    <2>2. UNCHANGED <<owner, queued_bytes, global_queued>>
      BY <1>3 DEF StartNextWrite, counterVars, historyVars
    <2>3. QED
      BY <1>1, <2>1, <2>2, Zenon DEF HeldStages, Stages, ReservedStages
  <1>4. ASSUME NEW i \in Items,
               \/ FirstPost(i) \/ WSASend(i) \/ WSASendFails(i) \/ SendFails(i)
               \/ HandleWrite(i) \/ \E n \in 1 .. Size[i] : Transmit(i, n)
        PROVE  Accounting'
    <2>1. stage[i] \in {"popped", "posting", "kernel", "packet"}
      BY <1>4, Zenon DEF FirstPost, WSASend, WSASendFails, SendFails, HandleWrite, Transmit
    <2>2. \E x \in {"posting", "kernel", "packet", "finish"} :
              stage' = [stage EXCEPT ![i] = x]
      BY <1>4, Zenon DEF FirstPost, WSASend, WSASendFails, SendFails, HandleWrite, Transmit,
                  PostWrite
    <2>3. UNCHANGED <<owner, queued_bytes, global_queued>>
      BY <1>4, Zenon DEF FirstPost, WSASend, WSASendFails, SendFails, HandleWrite, Transmit,
                  sessionVars, counterVars, historyVars
    <2>4. QED
      BY <1>1, <2>1, <2>2, <2>3, Zenon DEF HeldStages, Stages, ReservedStages
  <1>5. ASSUME NEW s \in Sessions,
               \/ StopWriting(s) \/ WriterDisconnect(s) \/ OtherDisconnect(s)
               \/ CloseSocket(s)
        PROVE  Accounting'
    <2>1. UNCHANGED <<stage, owner, queued_bytes, global_queued>>
      BY <1>5, Zenon DEF StopWriting, WriterDisconnect, OtherDisconnect, CloseSocket,
                  sessionVars, counterVars, historyVars
    <2>2. QED
      BY <2>1, ChargesSame
  <1>6. QED
    BY <1>2, <1>3, <1>4, <1>5, PushCharges, SettleCharges, ReleaseCharges, DrainCharges, ZenonT(30)
    DEF Next, SessionStep, ItemStep

Tracked == {i \in Items : stage[i] \in TrackedStages}

\* outstanding_operations moves with the set of write operations: TrackOperation
\* in StartNextWrite, CompleteOperation in FinishWrite, and no other step.
LEMMA CountStep ==
    ASSUME TypeOK, WriteChainInv, OperationsCounted, Next
    PROVE  OperationsCounted'
  <1>1. Tracked \in SUBSET Items /\ IsFiniteSet(Tracked)
    BY SendPathAssumption, FS_Subset DEF Tracked
  <1>2. ASSUME UNCHANGED outstanding_operations,
               \A j \in Items : stage'[j] \in TrackedStages <=> stage[j] \in TrackedStages
        PROVE  OperationsCounted'
    BY <1>2 DEF OperationsCounted
  <1>3. ASSUME NEW i \in Items, FirstPost(i)
        PROVE  OperationsCounted'
    <2>1. i \notin Tracked /\ Tracked' = Tracked \cup {i}
      BY <1>3, Zenon DEF FirstPost, PostWrite, Tracked, TrackedStages, TypeOK
    <2>2. Cardinality(Tracked \cup {i}) = Cardinality(Tracked) + 1
      BY <1>1, <2>1, FS_AddElement
    <2>3. outstanding_operations' = outstanding_operations + 1
      BY <1>3 DEF FirstPost
    <2>4. QED
      BY <2>1, <2>2, <2>3 DEF OperationsCounted, Tracked
  <1>4. ASSUME NEW i \in Items, ReleaseAndDisconnect(i) \/ ReleaseAndContinue(i)
        PROVE  OperationsCounted'
    <2>1. i \in Tracked /\ Tracked' = Tracked \ {i}
      BY <1>4, Zenon DEF ReleaseAndDisconnect, ReleaseAndContinue, ReleaseWrite, Tracked,
                  TrackedStages, TypeOK
    <2>2. Cardinality(Tracked \ {i}) = Cardinality(Tracked) - 1
      BY <1>1, <2>1, FS_RemoveElement
    <2>3. outstanding_operations' = outstanding_operations - 1
      BY <1>4, Zenon DEF ReleaseAndDisconnect, ReleaseAndContinue, ReleaseWrite
    <2>4. QED
      BY <2>1, <2>2, <2>3 DEF OperationsCounted, Tracked
  <1>5. ASSUME NEW i \in Items, NEW x, stage' = [stage EXCEPT ![i] = x],
               UNCHANGED outstanding_operations,
               stage[i] \in TrackedStages <=> x \in TrackedStages
        PROVE  OperationsCounted'
    BY <1>2, <1>5 DEF TypeOK
  <1>6. ASSUME NEW s \in Sessions, NEW i \in Items,
               \/ EnqueueLock(s, i) \/ EnqueueDisconnected(s, i)
               \/ EnqueueOverLimit(s, i) \/ EnqueuePush(s, i)
        PROVE  OperationsCounted'
    <2>1. stage[i] \in {"new", "entering"}
      BY <1>6, SendPathAssumption, Zenon DEF EnqueueLock, EnqueueDisconnected,
         EnqueueOverLimit, EnqueuePush, WriteChainInv, DrainShape
    <2>2. \E x \in {"entering", "refused", "queued"} : stage' = [stage EXCEPT ![i] = x]
      BY <1>6, Zenon DEF EnqueueLock, EnqueueDisconnected, EnqueueOverLimit, EnqueuePush, Refuse
    <2>3. UNCHANGED outstanding_operations
      BY <1>6, Zenon DEF EnqueueLock, EnqueueDisconnected, EnqueueOverLimit, EnqueuePush,
                  counterVars
    <2>4. QED
      BY <1>5, <2>1, <2>2, <2>3, Zenon DEF TrackedStages
  <1>7. ASSUME NEW s \in Sessions, StartNextWrite(s)
        PROVE  OperationsCounted'
    <2>1. PICK i \in Items : stage[i] = "queued" /\ stage' = [stage EXCEPT ![i] = "popped"]
      <3>1. Head(send_queue[s]) = send_queue[s][1] /\ 1 \in DOMAIN send_queue[s]
        BY <1>7 DEF StartNextWrite, TypeOK
      <3>2. send_queue[s][1] \in Items /\ stage[send_queue[s][1]] = "queued"
        BY <3>1, QueueElement, Zenon DEF WriteChainInv, QueueShape
      <3>3. QED
        BY <1>7, <3>1, <3>2, Zenon DEF StartNextWrite
    <2>2. UNCHANGED outstanding_operations
      BY <1>7 DEF StartNextWrite, counterVars
    <2>3. QED
      BY <1>5, <2>1, <2>2, Zenon DEF TrackedStages
  <1>8. ASSUME NEW i \in Items,
               \/ WSASend(i) \/ WSASendFails(i) \/ SendFails(i) \/ HandleWrite(i)
               \/ FinishWrite(i) \/ \E n \in 1 .. Size[i] : Transmit(i, n)
        PROVE  OperationsCounted'
    <2>1. stage[i] \in TrackedStages
      BY <1>8, Zenon DEF WSASend, WSASendFails, SendFails, HandleWrite, FinishWrite, Transmit,
                  TrackedStages
    <2>2. \E x \in TrackedStages : stage' = [stage EXCEPT ![i] = x]
      BY <1>8, Zenon DEF WSASend, WSASendFails, SendFails, HandleWrite, FinishWrite, Transmit,
                  PostWrite, TrackedStages
    <2>3. UNCHANGED outstanding_operations
      BY <1>8, Zenon DEF WSASend, WSASendFails, SendFails, HandleWrite, FinishWrite, Transmit,
                  counterVars
    <2>4. QED
      BY <1>5, <2>1, <2>2, <2>3, Zenon
  <1>9. ASSUME NEW i \in Items, CreateFails(i) \/ Abandon(i)
        PROVE  OperationsCounted'
    BY <1>5, <1>9, Zenon DEF CreateFails, Abandon, TrackedStages, counterVars
  <1>10. ASSUME NEW s \in Sessions,
               \/ StopWriting(s) \/ WriterDisconnect(s) \/ OtherDisconnect(s)
               \/ CloseSocket(s)
        PROVE  OperationsCounted'
    BY <1>2, <1>10, Zenon DEF StopWriting, WriterDisconnect, OtherDisconnect, CloseSocket,
                       counterVars
  <1>11. ASSUME NEW s \in Sessions, DrainQueue(s)
         PROVE  OperationsCounted'
    <2>1. \A j \in QueueItems(s) : stage[j] = "queued"
      BY QueueElement DEF QueueItems, WriteChainInv, QueueShape
    <2>2. QED
      BY <1>2, <1>11, <2>1 DEF DrainQueue, TrackedStages
  <1>12. QED
    BY <1>3, <1>4, <1>6, <1>7, <1>8, <1>9, <1>10, <1>11, ZenonT(30) DEF Next, SessionStep, ItemStep

\* A server without connections has nothing charged and nothing outstanding.
LEMMA AccountInit == Init => Accounting /\ OperationsCounted
  <1> SUFFICES ASSUME Init PROVE Accounting /\ OperationsCounted
    OBVIOUS
  <1>1. /\ \A s \in Sessions : Held(s) = {}
        /\ Reserved = {}
        /\ {i \in Items : stage[i] \in TrackedStages} = {}
    BY DEF Init, Held, Reserved, HeldStages, ReservedStages, TrackedStages
  <1>2. Cardinality({}) = 0
    BY FS_EmptySet
  <1>3. ByteCount({}) = 0
    <2>1. Bytes({}) = {}
      BY DEF Bytes
    <2>2. QED
      BY <1>2, <2>1 DEF ByteCount
  <1>4. SessionAccounting
    <2>1. MaxSessionQueued \in Nat /\ \A s \in Sessions : queued_bytes[s] = 0
      BY SendPathAssumption DEF Init
    <2>2. QED
      BY <1>1, <1>3, <2>1 DEF SessionAccounting
  <1>5. GlobalAccounting
    BY <1>1, <1>3, SendPathAssumption DEF Init, GlobalAccounting
  <1>6. OperationsCounted
    BY <1>1, <1>2, Zenon DEF Init, OperationsCounted
  <1>7. QED
    BY <1>4, <1>5, <1>6 DEF Accounting

\* A step of some other component moves none of the counters.
LEMMA AccountStutter ==
    ASSUME Accounting, OperationsCounted, UNCHANGED vars
    PROVE  Accounting' /\ OperationsCounted'
  <1> USE DEF vars, sessionVars, callVars, counterVars, historyVars
  <1>1. Accounting'
    BY ChargesSame
  <1>2. OperationsCounted'
    BY DEF OperationsCounted
  <1>3. QED
    BY <1>1, <1>2

\* The counters are exact in every reachable state.
THEOREM CountersExact == Spec => [](Accounting /\ OperationsCounted)
  <1>1. ASSUME TypeOK /\ WriteChainInv, Accounting /\ OperationsCounted, [Next]_vars
        PROVE  (Accounting /\ OperationsCounted)'
    BY <1>1, AccountStep, CountStep, AccountStutter
  <1>2. QED
    BY <1>1, AccountInit, WriteChain, PTL DEF Spec

\* queued_bytes of a session is the bytes of its unfinished items and stays
\* within max_session_queued_bytes.
THEOREM SessionBytesExact == Spec => []SessionAccounting
  <1>1. Accounting => SessionAccounting
    BY DEF Accounting
  <1>2. QED
    BY <1>1, CountersExact, PTL

\* metrics.queued_bytes is the bytes not yet given back: the unchecked
\* fetch_subs of FinishWrite and Disconnect never wrap it.
THEOREM GlobalBytesExact == Spec => []GlobalAccounting
  <1>1. Accounting => GlobalAccounting
    BY DEF Accounting
  <1>2. QED
    BY <1>1, CountersExact, PTL

\* The counter Stop waits on reaches zero exactly when no write is left.
THEOREM WritesCounted == Spec => []OperationsCounted
  BY CountersExact, PTL

\* Every counter of the send path is exact and within its limit.
THEOREM AccountingIsExact == Spec => []AccountingExact
  <1>1. SessionAccounting /\ GlobalAccounting /\ OperationsCounted => AccountingExact
    BY DEF AccountingExact
  <1>2. QED
    BY <1>1, SessionBytesExact, GlobalBytesExact, WritesCounted, PTL
=============================================================================
