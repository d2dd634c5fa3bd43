------------------------ MODULE SendPathStepProofs --------------------------
(***************************************************************************)
(* The invariants of SendPath, part by part: the type invariant, given that*)
(* a set of items has a number of bytes (which SendPathProofs shows); and  *)
(* the write chain's, for which the actions fall into classes (a write     *)
(* moves on, a session closes, an item enters, a write ends) with a lemma  *)
(* for each, and one more about the items, whatever the action.            *)
(***************************************************************************)
EXTENDS SendPath, TLAPS

\* SMT is tried first and Zenon next, except where a leaf names Zenon.
USE SMTT(30), ZenonT(20)

\* Every item has a positive number of bytes.
LEMMA SizeNat == \A i \in Items : Size[i] \in Nat /\ Size[i] > 0
  BY SendPathAssumption

\* The stage sets of SendPath spelled out.
LEMMA StageNames ==
    /\ "new" \in Stages /\ "entering" \in Stages /\ "refused" \in Stages
    /\ "dropped" \in Stages /\ "gone" \in Stages /\ "queued" \in Stages
    /\ "popped" \in Stages /\ "posting" \in Stages /\ "kernel" \in Stages
    /\ "packet" \in Stages /\ "finish" \in Stages /\ "settled" \in Stages
    /\ "orphaned" \in Stages
  BY DEF Stages, ReservedStages, HeldStages

\* An item past Enqueue has a session.
LEMMA Owned ==
    ASSUME TypeOK, ItemShape, NEW i \in Items,
           stage[i] \notin {"new", "entering", "refused"}
    PROVE  owner[i] \in Sessions
  BY DEF TypeOK, ItemShape

\* A queue position holds an item.
LEMMA QueueElement ==
    ASSUME TypeOK, NEW s \in Sessions, NEW p \in DOMAIN send_queue[s]
    PROVE  send_queue[s][p] \in Items
  BY DEF TypeOK

\* A set of items has a number of bytes.
BytesCounted == \A S \in SUBSET Items : ByteCount(S) \in Nat

\* Every step keeps the types.
LEMMA TypeStep ==
    ASSUME TypeOK, ItemShape, Next, BytesCounted
    PROVE  TypeOK'
  <1>1. ASSUME NEW s \in Sessions, NEW i \in Items, EnqueueLock(s, i)
         PROVE  TypeOK'
    <2>1. lock' \in [Sessions -> Items \cup {NoItem}] /\ stage' \in [Items -> Stages]
      BY <1>1, StageNames, Zenon DEF EnqueueLock, TypeOK
    <2>2. QED
      BY <1>1, <2>1, Zenon
      DEF EnqueueLock, sessionVars, callVars, counterVars, historyVars, TypeOK
  <1>2. ASSUME NEW s \in Sessions, NEW i \in Items, EnqueueDisconnected(s, i)
         PROVE  TypeOK'
    <2>1. stage' \in [Items -> Stages]
      BY <1>2, SizeNat, StageNames, Zenon DEF EnqueueDisconnected, Refuse, TypeOK
    <2>2. disconnecting' \in [Sessions -> Nat]
      BY <1>2, SizeNat, StageNames DEF EnqueueDisconnected, Refuse, TypeOK
    <2>3. QED
      BY <1>2, <2>1, <2>2, Zenon
      DEF EnqueueDisconnected, Refuse, sessionVars, counterVars, historyVars,
          TypeOK
  <1>3. ASSUME NEW s \in Sessions, NEW i \in Items, EnqueuePush(s, i)
         PROVE  TypeOK'
    <2>1. global_queued' \in Int
      BY <1>3, SizeNat, StageNames DEF EnqueuePush, ClaimWriter, TypeOK
    <2>2. queued_bytes' \in [Sessions -> Int]
      <3>1. queued_bytes' = [queued_bytes EXCEPT ![s] = queued_bytes[s] + Size[i]]
        BY <1>3 DEF EnqueuePush
      <3>2. queued_bytes \in [Sessions -> Int] /\ Size[i] \in Int
        BY SizeNat DEF TypeOK
      <3>3. QED
        BY <3>1, <3>2
    <2>3. send_queue' \in [Sessions -> Seq(Items)]
      BY <1>3, SizeNat, StageNames DEF EnqueuePush, ClaimWriter, TypeOK
    <2>4. write_active' \in [Sessions -> BOOLEAN]
      BY <1>3, SizeNat, StageNames, Zenon DEF EnqueuePush, ClaimWriter, TypeOK
    <2>5. starting' \in [Sessions -> Nat]
      <3>1. starting \in [Sessions -> Nat]
        BY DEF TypeOK
      <3>2. PICK n \in Nat : starting' = [starting EXCEPT ![s] = n]
        <4>1. starting' = [starting EXCEPT ![s] = IF write_active[s] THEN starting[s]
                                                  ELSE starting[s] + 1]
          BY <1>3, Zenon DEF EnqueuePush, ClaimWriter
        <4>2. starting[s] \in Nat /\ starting[s] + 1 \in Nat
          BY <3>1
        <4>3. QED
          BY <4>1, <4>2, Zenon
      <3>3. QED
        BY <3>1, <3>2
    <2>6. lock' \in [Sessions -> Items \cup {NoItem}]
      BY <1>3, SizeNat, StageNames, Zenon DEF EnqueuePush, ClaimWriter, TypeOK
    <2>7. stage' \in [Items -> Stages]
      BY <1>3, SizeNat, StageNames, Zenon DEF EnqueuePush, ClaimWriter, TypeOK
    <2>8. owner' \in [Items -> Sessions \cup {NoSession}]
      BY <1>3, SizeNat, StageNames, Zenon DEF EnqueuePush, ClaimWriter, TypeOK
    <2>9. accepted' \in [Sessions -> Nat] /\ ticket' \in [Items -> Nat]
      <3>1. accepted \in [Sessions -> Nat] /\ ticket \in [Items -> Nat]
        BY DEF TypeOK
      <3>2. /\ accepted' = [accepted EXCEPT ![s] = accepted[s] + 1]
            /\ ticket' = [ticket EXCEPT ![i] = accepted[s] + 1]
        BY <1>3 DEF EnqueuePush
      <3>3. accepted[s] + 1 \in Nat
        BY <3>1
      <3>4. QED
        BY <3>1, <3>2, <3>3
    <2>10. QED
      BY <1>3, <2>1, <2>2, <2>3, <2>4, <2>5, <2>6, <2>7, <2>8, <2>9, Zenon
      DEF EnqueuePush, ClaimWriter, TypeOK
  <1>4. ASSUME NEW s \in Sessions, NEW i \in Items, EnqueueOverLimit(s, i)
         PROVE  TypeOK'
    <2>1. stage' \in [Items -> Stages]
      BY <1>4, SizeNat, StageNames, Zenon DEF EnqueueOverLimit, Refuse, TypeOK
    <2>2. disconnecting' \in [Sessions -> Nat]
      BY <1>4, SizeNat, StageNames DEF EnqueueOverLimit, Refuse, TypeOK
    <2>3. lock' \in [Sessions -> Items \cup {NoItem}]
      BY <1>4, SizeNat, StageNames, Zenon DEF EnqueueOverLimit, Refuse, TypeOK
    <2>4. QED
      BY <1>4, <2>1, <2>2, <2>3, Zenon
      DEF EnqueueOverLimit, Refuse, sessionVars, counterVars, historyVars,
          TypeOK
  <1>5. ASSUME NEW s \in Sessions, StartNextWrite(s)
         PROVE  TypeOK'
    <2>1. Head(send_queue[s]) \in Items /\ Tail(send_queue[s]) \in Seq(Items)
      BY <1>5 DEF StartNextWrite, TypeOK
    <2>2. starting' \in [Sessions -> Nat]
      <3>1. /\ starting \in [Sessions -> Nat] /\ starting[s] > 0
            /\ starting' = [starting EXCEPT ![s] = starting[s] - 1]
        BY <1>5, Zenon DEF StartNextWrite, TypeOK
      <3>2. QED
        BY <3>1
    <2>3. send_queue' \in [Sessions -> Seq(Items)]
      BY <1>5, <2>1, SizeNat, StageNames, Zenon DEF StartNextWrite, TypeOK
    <2>4. stage' \in [Items -> Stages]
      BY <1>5, <2>1, SizeNat, StageNames, Zenon DEF StartNextWrite, TypeOK
    <2>5. QED
      BY <1>5, <2>1, <2>2, <2>3, <2>4, Zenon DEF StartNextWrite,
         counterVars, historyVars, TypeOK
  <1>6. ASSUME NEW s \in Sessions, StopWriting(s)
         PROVE  TypeOK'
    BY <1>6, SizeNat, StageNames
    DEF StopWriting, counterVars, historyVars, TypeOK
  <1>7. ASSUME NEW s \in Sessions, WriterDisconnect(s)
         PROVE  TypeOK'
    <2>1. life' \in [Sessions -> {"live", "disconnecting", "closed", "drained"}]
      BY <1>7, Zenon DEF WriterDisconnect, BeginDisconnect, TypeOK
    <2>2. disconnecting' \in [Sessions -> Nat]
      <3>1. /\ disconnecting \in [Sessions -> Nat] /\ disconnecting[s] > 0
            /\ disconnecting' = [disconnecting EXCEPT ![s] = disconnecting[s] - 1]
        BY <1>7 DEF WriterDisconnect, TypeOK
      <3>2. QED
        BY <3>1
    <2>3. QED
      BY <1>7, <2>1, <2>2, Zenon
      DEF WriterDisconnect, sessionVars, counterVars, historyVars, TypeOK
  <1>8. ASSUME NEW s \in Sessions, OtherDisconnect(s)
         PROVE  TypeOK'
    BY <1>8, SizeNat, StageNames, Zenon
    DEF OtherDisconnect, BeginDisconnect, sessionVars, callVars, counterVars,
        historyVars, TypeOK
  <1>9. ASSUME NEW s \in Sessions, CloseSocket(s)
         PROVE  TypeOK'
    BY <1>9, SizeNat, StageNames, Zenon
    DEF CloseSocket, sessionVars, callVars, counterVars, historyVars, TypeOK
  <1>10. ASSUME NEW s \in Sessions, DrainQueue(s)
         PROVE  TypeOK'
    <2>1. ByteCount(QueueItems(s)) \in Int
      <3>1. QueueItems(s) \in SUBSET Items
        BY QueueElement DEF QueueItems
      <3>2. ByteCount(QueueItems(s)) \in Nat
        BY <3>1 DEF BytesCounted
      <3>3. QED
        BY <3>2
    <2>2. global_queued' \in Int
      BY <1>10, <2>1, SizeNat, StageNames DEF DrainQueue, TypeOK
    <2>3. queued_bytes' \in [Sessions -> Int]
      BY <1>10, <2>1, SizeNat, StageNames DEF DrainQueue, TypeOK
    <2>4. send_queue' \in [Sessions -> Seq(Items)]
      BY <1>10, <2>1, SizeNat, StageNames DEF DrainQueue, TypeOK
    <2>5. stage' \in [Items -> Stages]
      BY <1>10, <2>1, SizeNat, StageNames, Zenon DEF DrainQueue, TypeOK
    <2>6. QED
      BY <1>10, <2>1, <2>2, <2>3, <2>4, <2>5, Zenon DEF DrainQueue,
         callVars, historyVars, TypeOK
  <1>11. ASSUME NEW i \in Items, CreateFails(i)
         PROVE  TypeOK'
    <2>1. owner[i] \in Sessions
      BY <1>11, Owned DEF CreateFails
    <2>2. queued_bytes' \in [Sessions -> Int]
      BY <1>11, <2>1, SizeNat, StageNames DEF CreateFails, TypeOK
    <2>3. stage' \in [Items -> Stages]
      BY <1>11, <2>1, SizeNat, StageNames, Zenon DEF CreateFails, TypeOK
    <2>4. QED
      BY <1>11, <2>1, <2>2, <2>3, Zenon
      DEF CreateFails, callVars, counterVars, historyVars, TypeOK
  <1>12. ASSUME NEW i \in Items, Abandon(i)
         PROVE  TypeOK'
    <2>1. owner[i] \in Sessions
      BY <1>12, Owned DEF Abandon
    <2>2. global_queued' \in Int
      BY <1>12, <2>1, SizeNat, StageNames DEF Abandon, TypeOK
    <2>3. stage' \in [Items -> Stages]
      BY <1>12, <2>1, SizeNat, StageNames, Zenon DEF Abandon, TypeOK
    <2>4. disconnecting' \in [Sessions -> Nat]
      <3>1. disconnecting \in [Sessions -> Nat]
        BY DEF TypeOK
      <3>2. disconnecting' = [disconnecting EXCEPT ![owner[i]] = disconnecting[owner[i]] + 1]
        BY <1>12 DEF Abandon
      <3>3. QED
        BY <2>1, <3>1, <3>2
    <2>5. QED
      BY <1>12, <2>1, <2>2, <2>3, <2>4, Zenon DEF Abandon, sessionVars,
         historyVars, TypeOK
  <1>13. ASSUME NEW i \in Items, FirstPost(i)
         PROVE  TypeOK'
    BY <1>13, SizeNat, StageNames
    DEF FirstPost, PostWrite, sessionVars, callVars, historyVars, TypeOK
  <1>14. ASSUME NEW i \in Items, WSASend(i)
         PROVE  TypeOK'
    BY <1>14, SizeNat, StageNames, Zenon
    DEF WSASend, sessionVars, callVars, counterVars, historyVars, TypeOK
  <1>15. ASSUME NEW i \in Items, WSASendFails(i)
         PROVE  TypeOK'
    BY <1>15, SizeNat, StageNames, Zenon
    DEF WSASendFails, sessionVars, callVars, counterVars, historyVars, TypeOK
  <1>16. ASSUME NEW i \in Items, SendFails(i)
         PROVE  TypeOK'
    BY <1>16, SizeNat, StageNames, Zenon
    DEF SendFails, sessionVars, callVars, counterVars, historyVars, TypeOK
  <1>17. ASSUME NEW i \in Items, HandleWrite(i)
         PROVE  TypeOK'
    <2>1. Consume(i, txd[i] - sent[i]) \in Nat
      BY SizeNat DEF ItemShape, Consume, TypeOK
    <2>2. sent' \in [Items -> Nat]
      BY <1>17, <2>1, SizeNat, StageNames, Zenon DEF HandleWrite, PostWrite, TypeOK
    <2>3. stage' \in [Items -> Stages]
      BY <1>17, <2>1, SizeNat, StageNames, Zenon DEF HandleWrite,
         PostWrite, TypeOK
    <2>4. QED
      BY <1>17, <2>1, <2>2, <2>3, Zenon
      DEF HandleWrite, PostWrite, sessionVars, callVars, counterVars,
          historyVars, TypeOK
  <1>18. ASSUME NEW i \in Items, FinishWrite(i)
         PROVE  TypeOK'
    <2>1. owner[i] \in Sessions
      BY <1>18, Owned DEF FinishWrite
    <2>2. queued_bytes' \in [Sessions -> Int]
      BY <1>18, <2>1, SizeNat, StageNames DEF FinishWrite, TypeOK
    <2>3. stage' \in [Items -> Stages]
      BY <1>18, <2>1, SizeNat, StageNames, Zenon DEF FinishWrite, TypeOK
    <2>4. QED
      BY <1>18, <2>1, <2>2, <2>3, Zenon
      DEF FinishWrite, callVars, counterVars, historyVars, TypeOK
  <1>19. ASSUME NEW i \in Items, ReleaseAndDisconnect(i)
         PROVE  TypeOK'
    <2>1. owner[i] \in Sessions
      BY <1>19, Owned DEF ReleaseAndDisconnect, ReleaseWrite
    <2>2. global_queued' \in Int
      BY <1>19, <2>1, SizeNat,
         StageNames DEF ReleaseAndDisconnect, ReleaseWrite, TypeOK
    <2>3. outstanding_operations' \in Int
      BY <1>19, <2>1, SizeNat,
         StageNames DEF ReleaseAndDisconnect, ReleaseWrite, TypeOK
    <2>4. stage' \in [Items -> Stages]
      BY <1>19, <2>1, SizeNat,
         StageNames, Zenon DEF ReleaseAndDisconnect, ReleaseWrite, TypeOK
    <2>5. disconnecting' \in [Sessions -> Nat]
      <3>1. disconnecting \in [Sessions -> Nat]
        BY DEF TypeOK
      <3>2. disconnecting' = [disconnecting EXCEPT ![owner[i]] = disconnecting[owner[i]] + 1]
        BY <1>19 DEF ReleaseAndDisconnect, ReleaseWrite
      <3>3. QED
        BY <2>1, <3>1, <3>2
    <2>6. QED
      BY <1>19, <2>1, <2>2, <2>3, <2>4, <2>5, Zenon DEF
         ReleaseAndDisconnect, ReleaseWrite, sessionVars, historyVars,
         TypeOK
  <1>20. ASSUME NEW i \in Items, ReleaseAndContinue(i)
         PROVE  TypeOK'
    <2>1. owner[i] \in Sessions
      BY <1>20, Owned DEF ReleaseAndContinue, ReleaseWrite
    <2>2. global_queued' \in Int
      BY <1>20, <2>1, SizeNat,
         StageNames DEF ReleaseAndContinue, ReleaseWrite, TypeOK
    <2>3. outstanding_operations' \in Int
      BY <1>20, <2>1, SizeNat,
         StageNames DEF ReleaseAndContinue, ReleaseWrite, TypeOK
    <2>4. stage' \in [Items -> Stages]
      BY <1>20, <2>1, SizeNat,
         StageNames, Zenon DEF ReleaseAndContinue, ReleaseWrite, TypeOK
    <2>5. starting' \in [Sessions -> Nat]
      BY <1>20, <2>1, SizeNat,
         StageNames DEF ReleaseAndContinue, ReleaseWrite, TypeOK
    <2>6. QED
      BY <1>20, <2>1, <2>2, <2>3, <2>4, <2>5, Zenon DEF
         ReleaseAndContinue, ReleaseWrite, sessionVars, historyVars,
         TypeOK
  <1>21. ASSUME NEW i \in Items, NEW n \in 1 .. Size[i], Transmit(i, n)
         PROVE  TypeOK'
    BY <1>21, SizeNat, StageNames
    DEF Transmit, sessionVars, callVars, counterVars, historyVars, TypeOK
  <1>22. QED
    BY <1>1, <1>2, <1>3, <1>4, <1>5, <1>6, <1>7, <1>8, <1>9, <1>10, <1>11,
       <1>12, <1>13, <1>14, <1>15, <1>16, <1>17, <1>18, <1>19, <1>20, <1>21, Zenon
    DEF Next, SessionStep, ItemStep

-----------------------------------------------------------------------------
(* The write chain's invariant, one class of actions at a time.            *)

\* What a step does to the item it works for, as the write chain sees it: the
\* item moves between two write stages and nothing else of the chain changes.
Moves(i) ==
    /\ stage[i] \in WriteStages
    /\ \E x \in WriteStages : stage' = [stage EXCEPT ![i] = x]
    /\ UNCHANGED <<life, lock, send_queue, write_active, starting,
                   disconnecting, txd, owner, ticket, accepted>>

\* PostWrite, WSASend, its completion, HandleWrite and the first section of
\* FinishWrite keep the write chain's invariant.
LEMMA MovesStep ==
    ASSUME TypeOK, WriteChainInv, NEW i \in Items, Moves(i)
    PROVE  /\ QueueShape' /\ RankShape' /\ ChainShape' /\ DrainShape'
           /\ SingleWriter' /\ WireOrder' /\ NothingAfterClose'
  <1>1. \A j \in Items :
           /\ stage'[j] \in WriteStages <=> stage[j] \in WriteStages
           /\ stage'[j] = "queued" <=> stage[j] = "queued"
           /\ stage'[j] = "gone" <=> stage[j] = "gone"
           /\ stage'[j] = "dropped" <=> stage[j] = "dropped"
           /\ stage'[j] = "entering" <=> stage[j] = "entering"
    BY Zenon DEF Moves, WriteStages, TypeOK
  <1>2. QueueShape'
    BY <1>1, QueueElement DEF WriteChainInv, QueueShape, Moves
  <1>3. RankShape'
    BY <1>1 DEF WriteChainInv, RankShape, Phase, Moves
  <1>4. \A s \in Sessions : Writing(s)' = Writing(s)
    BY <1>1 DEF Writing, Moves
  <1>5. ChainShape'
    BY <1>1, <1>4 DEF WriteChainInv, ChainShape, EndsChain, Moves
  <1>6. DrainShape'
    BY <1>1 DEF WriteChainInv, DrainShape, Moves, TypeOK
  <1>7. SingleWriter'
    BY <1>4 DEF WriteChainInv, SingleWriter, Moves
  <1>8. WireOrder' /\ NothingAfterClose'
    BY DEF WriteChainInv, WireOrder, NothingAfterClose, Before, Moves
  <1>9. QED
    BY <1>2, <1>3, <1>5, <1>6, <1>7, <1>8

\* A step of Disconnect before the queue is drained.
Closes(s) ==
    /\ \E x \in {"disconnecting", "closed"} :
           life' = [life EXCEPT ![s] = IF @ = "drained" THEN @ ELSE x]
    /\ \A t \in Sessions \ {s} : disconnecting'[t] = disconnecting[t]
    /\ UNCHANGED <<lock, send_queue, write_active, starting, stage, txd,
                   owner, ticket, accepted>>

\* The part of Disconnect before the drain keeps it.
LEMMA ClosesStep ==
    ASSUME TypeOK, WriteChainInv, NEW s \in Sessions, Closes(s)
    PROVE  /\ QueueShape' /\ RankShape' /\ ChainShape' /\ DrainShape'
           /\ SingleWriter' /\ WireOrder' /\ NothingAfterClose'
  <1>1. QueueShape' /\ RankShape'
    BY DEF WriteChainInv, QueueShape, RankShape, Phase, Closes
  <1>2. \A t \in Sessions : Writing(t)' = Writing(t)
    BY DEF Writing, Closes
  <1>3. ChainShape'
    BY <1>2 DEF WriteChainInv, ChainShape, EndsChain, Closes, TypeOK
  <1>4. DrainShape'
    BY DEF WriteChainInv, DrainShape, Closes, TypeOK
  <1>5. SingleWriter'
    BY <1>2 DEF WriteChainInv, SingleWriter, Closes
  <1>6. WireOrder' /\ NothingAfterClose'
    BY Zenon DEF WriteChainInv, WireOrder, NothingAfterClose, Before, Closes
  <1>7. QED
    BY <1>1, <1>3, <1>4, <1>5, <1>6

\* A step of Enqueue before the push: the item is not in the chain yet.
Enters(s, i) ==
    /\ stage[i] \in {"new", "entering"}
    /\ \E x \in {"entering", "refused"} : stage' = [stage EXCEPT ![i] = x]
    /\ \A t \in Sessions : disconnecting'[t] >= disconnecting[t]
    /\ \/ /\ lock[s] = NoItem /\ stage[i] = "new" /\ life[s] = "live"
          /\ stage'[i] = "entering"
          /\ lock' = [lock EXCEPT ![s] = i]
       \/ stage[i] = "new" /\ UNCHANGED lock
       \/ lock[s] = i /\ lock' = [lock EXCEPT ![s] = NoItem]
    /\ UNCHANGED <<life, send_queue, write_active, starting, txd, owner,
                   ticket, accepted>>

\* Entering Enqueue, and an Enqueue that returns false, keep it.
LEMMA EntersStep ==
    ASSUME TypeOK, TypeOK', WriteChainInv, NEW s \in Sessions, NEW i \in Items,
           Enters(s, i)
    PROVE  /\ QueueShape' /\ RankShape' /\ ChainShape' /\ DrainShape'
           /\ SingleWriter' /\ WireOrder' /\ NothingAfterClose'
  <1>1. \A j \in Items :
           /\ stage'[j] \in WriteStages <=> stage[j] \in WriteStages
           /\ stage'[j] = "queued" <=> stage[j] = "queued"
           /\ stage'[j] = "gone" <=> stage[j] = "gone"
           /\ stage'[j] = "dropped" <=> stage[j] = "dropped"
    <2>1. /\ stage[i] \in {"new", "entering"} /\ stage'[i] \in {"entering", "refused"}
          /\ \A j \in Items \ {i} : stage'[j] = stage[j]
      BY DEF Enters, TypeOK
    <2>2. QED
      BY <2>1 DEF WriteStages
  <1>2. QueueShape'
    BY <1>1, QueueElement DEF WriteChainInv, QueueShape, Enters
  <1>3. RankShape'
    BY <1>1 DEF WriteChainInv, RankShape, Phase, Enters
  <1>4. \A t \in Sessions : Writing(t)' = Writing(t)
    BY <1>1, Zenon DEF Writing, Enters
  <1>5. ChainShape'
    <2>1. \A t \in Sessions : disconnecting[t] > 0 => disconnecting'[t] > 0
      <3>1. \A t \in Sessions : disconnecting[t] \in Nat /\ disconnecting'[t] \in Nat
        BY Zenon DEF TypeOK
      <3>2. QED
        BY <3>1 DEF Enters
    <2>2. \A j \in Items : EndsChain(j)' = EndsChain(j)
      BY <1>1, Zenon DEF EndsChain, Enters
    <2>3. QED
      BY <1>4, <2>1, <2>2, Zenon DEF WriteChainInv, ChainShape, Enters
  <1>6. DrainShape'
    <2>0. \A t \in Sessions : lock[t] \in Items => stage[lock[t]] = "entering"
      BY SendPathAssumption DEF WriteChainInv, DrainShape
    <2>1. /\ \A t \in Sessions : lock'[t] # NoItem => stage'[lock'[t]] = "entering"
          /\ \A t, u \in Sessions : lock'[t] = lock'[u] /\ lock'[t] # NoItem => t = u
      <3>1. CASE lock[s] = i /\ lock' = [lock EXCEPT ![s] = NoItem]
        <4>1. \A t \in Sessions \ {s} : lock'[t] = lock[t] /\ lock[t] # i
          BY <3>1, SendPathAssumption DEF WriteChainInv, DrainShape, TypeOK
        <4>2. lock'[s] = NoItem
          BY <3>1, Zenon DEF TypeOK
        <4>3. \A j \in Items \ {i} : stage'[j] = stage[j]
          BY DEF Enters, TypeOK
        <4>4. QED
          <5>1. \A t \in Sessions : lock'[t] # NoItem => lock[t] \in Items \ {i} /\ t # s
            BY <4>1, <4>2, Zenon DEF TypeOK
          <5>2. QED
            BY <2>0, <4>1, <4>3, <5>1 DEF WriteChainInv, DrainShape
      <3>2. CASE stage[i] = "new" /\ UNCHANGED lock
        <4>1. \A j \in Items : stage[j] = "entering" => stage'[j] = "entering"
          BY <3>2 DEF Enters, TypeOK
        <4>2. \A t \in Sessions : lock[t] \in Items \cup {NoItem}
          BY Zenon DEF TypeOK
        <4>3. \A t, u \in Sessions : lock[t] = lock[u] /\ lock[t] # NoItem => t = u
          BY DEF WriteChainInv, DrainShape
        <4>4. lock' = lock
          BY <3>2
        <4>5. QED
          BY <2>0, <4>1, <4>2, <4>3, <4>4, Zenon
      <3>3. CASE /\ lock[s] = NoItem /\ stage[i] = "new"
                 /\ stage'[i] = "entering"
                 /\ lock' = [lock EXCEPT ![s] = i]
        <4>1. \A t \in Sessions \ {s} : lock'[t] = lock[t] /\ lock[t] # i
          BY <2>0, <3>3 DEF TypeOK
        <4>2. lock'[s] = i
          BY <3>3, Zenon DEF TypeOK
        <4>3. \A j \in Items : stage[j] = "entering" => stage'[j] = "entering"
          BY <3>3 DEF Enters, TypeOK
        <4>4. QED
          <5>1. \A t \in Sessions \ {s} : lock[t] = NoItem \/ lock[t] \in Items
            BY Zenon DEF TypeOK
          <5>2. QED
            BY <2>0, <3>3, <4>1, <4>2, <4>3, <5>1 DEF WriteChainInv, DrainShape
      <3>4. QED
        BY <3>1, <3>2, <3>3, Zenon DEF Enters
    <2>3. \A t \in Sessions : life'[t] = "drained" =>
              send_queue'[t] = <<>> /\ lock'[t] = NoItem
      <3>1. \A t \in Sessions : life[t] = "drained" => send_queue[t] = <<>> /\ lock[t] = NoItem
        BY DEF WriteChainInv, DrainShape
      <3>2. life' = life /\ send_queue' = send_queue
        BY DEF Enters
      <3>3. \A t \in Sessions : lock'[t] = lock[t] \/ lock'[t] = NoItem \/ life[t] = "live"
        <4>1. DOMAIN lock = Sessions
          BY Zenon DEF TypeOK
        <4>2. CASE lock' = lock
          BY <4>2
        <4>3. CASE lock' = [lock EXCEPT ![s] = NoItem]
          BY <4>1, <4>3
        <4>4. CASE life[s] = "live" /\ lock' = [lock EXCEPT ![s] = i]
          BY <4>1, <4>4
        <4>5. QED
          BY <4>2, <4>3, <4>4, Zenon DEF Enters
      <3>4. QED
        BY <3>1, <3>2, <3>3
    <2>4. \A j \in Items : stage'[j] = "dropped" => life'[owner'[j]] = "drained"
      BY <1>1, Zenon DEF WriteChainInv, DrainShape, Enters
    <2>5. QED
      BY <2>1, <2>3, <2>4, Zenon DEF DrainShape
  <1>7. SingleWriter'
    BY <1>4 DEF WriteChainInv, SingleWriter, Enters
  <1>8. WireOrder' /\ NothingAfterClose'
    BY Zenon DEF WriteChainInv, WireOrder, NothingAfterClose, Before, Enters
  <1>9. QED
    BY <1>2, <1>3, <1>5, <1>6, <1>7, <1>8

\* A write ends, and its thread goes on to StartNextWrite or to Disconnect.
Retires(i) ==
    /\ stage[i] \in WriteStages
    /\ stage' = [stage EXCEPT ![i] = "gone"]
    /\ \/ /\ txd[i] = Size[i] /\ i \notin CloseAfter
          /\ starting' = [starting EXCEPT ![owner[i]] = @ + 1]
          /\ UNCHANGED disconnecting
       \/ /\ disconnecting' = [disconnecting EXCEPT ![owner[i]] = @ + 1]
          /\ UNCHANGED starting
    /\ UNCHANGED <<life, lock, send_queue, write_active, txd, owner, ticket,
                   accepted>>

\* The end of FinishWrite keeps it: StartNextWrite or Disconnect follows.
LEMMA RetiresStep ==
    ASSUME TypeOK, WriteChainInv, NEW i \in Items, Retires(i)
    PROVE  /\ QueueShape' /\ RankShape' /\ ChainShape' /\ DrainShape'
           /\ SingleWriter' /\ WireOrder' /\ NothingAfterClose'
  <1>1. PICK s \in Sessions : owner[i] = s
    BY Owned DEF WriteChainInv, Retires, WriteStages
  <1>2. Writing(s) = {i} /\ starting[s] = 0 /\ write_active[s]
    BY <1>1 DEF WriteChainInv, SingleWriter, ChainShape, Writing, Retires, TypeOK
  <1>3. \A j \in Items \ {i} : stage'[j] = stage[j]
    BY Zenon DEF Retires, TypeOK
  <1>4. stage'[i] = "gone"
    BY Zenon DEF Retires, TypeOK
  <1>5. Writing(s)' = {} /\ \A t \in Sessions \ {s} : Writing(t)' = Writing(t)
    BY <1>2, <1>3, <1>4 DEF Writing, Retires, WriteStages
  <1>6. QueueShape'
    BY <1>3, <1>4, QueueElement
    DEF WriteChainInv, QueueShape, Retires, WriteStages
  <1>7. RankShape'
    <2>1. UNCHANGED <<owner, ticket>>
      BY DEF Retires
    <2>2. Phase(i) = 1 /\ Phase(i)' = 0
      BY <1>4 DEF Phase, Retires, WriteStages
    <2>3. \A j \in Items \ {i} : Phase(j)' = Phase(j) /\ Phase(j) \in 0 .. 2
      BY <1>3 DEF Phase
    <2>4. \A j \in Items \ {i} : owner[j] = s => Phase(j) # 1
      BY <1>2 DEF Phase, Writing
    <2>5. SUFFICES ASSUME NEW j \in Items, NEW k \in Items, owner[j] \in Sessions,
                          owner[j] = owner[k], Phase(j)' < Phase(k)'
                   PROVE  ticket[j] < ticket[k]
      BY <2>1 DEF RankShape
    <2>6. k # i
      <3>1. Phase(j)' \in 0 .. 2
        BY <2>2, <2>3
      <3>2. QED
        BY <2>2, <2>5, <3>1
    <2>7. Phase(j) < Phase(k)
      <3>1. CASE j = i
        <4>1. Phase(k) # 1 /\ Phase(k) \in 0 .. 2 /\ Phase(k)' = Phase(k)
          BY <1>1, <2>3, <2>4, <2>5, <2>6, <3>1, Zenon
        <4>2. QED
          BY <2>2, <2>5, <3>1, <4>1
      <3>2. CASE j # i
        BY <2>3, <2>5, <2>6, <3>2
      <3>3. QED
        BY <3>1, <3>2
    <2>8. QED
      BY <2>5, <2>7 DEF WriteChainInv, RankShape
  <1>8. ChainShape'
    <2>1. ASSUME NEW t \in Sessions \ {s}
          PROVE  starting'[t] = starting[t] /\ disconnecting'[t] = disconnecting[t]
      BY <1>1, Zenon DEF Retires, TypeOK
    <2>2. \/ starting'[s] = 1 /\ disconnecting'[s] = disconnecting[s]
             /\ ~EndsChain(i)'
          \/ starting'[s] = 0 /\ disconnecting'[s] > 0
      BY <1>1, <1>2, SizeNat DEF Retires, EndsChain, TypeOK
    <2>3. \A j \in Items \ {i} : EndsChain(j)' = EndsChain(j)
      BY <1>3 DEF EndsChain, Retires
    <2>4. UNCHANGED <<life, send_queue, write_active, owner>>
      BY DEF Retires
    <2>5. ASSUME NEW t \in Sessions \ {s}
          PROVE  /\ starting'[t] > 0 \/ Writing(t)' # {} => write_active'[t]
                 /\ send_queue'[t] # <<>> => write_active'[t]
                 /\ write_active'[t] =>
                        \/ starting'[t] > 0
                        \/ Writing(t)' # {}
                        \/ disconnecting'[t] > 0
                        \/ life'[t] # "live"
                 /\ (\E j \in Items : owner'[j] = t /\ EndsChain(j)') =>
                        starting'[t] = 0 /\ Writing(t)' = {} /\ write_active'[t]
      <3>1. Writing(t)' = Writing(t)
        BY <1>5
      <3>2. \A j \in Items : owner[j] = t /\ EndsChain(j)' => EndsChain(j)
        BY <1>1, <2>3
      <3>3. QED
        BY <2>1, <2>4, <3>1, <3>2, Zenon DEF WriteChainInv, ChainShape
    <2>6. write_active'[s] /\ Writing(s)' = {}
      BY <1>2, <1>5, <2>4
    <2>7. ~\E j \in Items \ {i} : owner'[j] = s /\ EndsChain(j)'
      <3>1. Writing(s) # {}
        BY <1>2
      <3>2. ~\E j \in Items : owner[j] = s /\ EndsChain(j)
        BY <3>1 DEF WriteChainInv, ChainShape
      <3>3. QED
        BY <2>3, <2>4, <3>2
    <2>8. (\E j \in Items : owner'[j] = s /\ EndsChain(j)') => starting'[s] = 0
      BY <2>2, <2>7
    <2>9. starting'[s] > 0 \/ disconnecting'[s] > 0
      BY <2>2
    <2>10. QED
      BY <2>5, <2>6, <2>8, <2>9, Zenon DEF ChainShape
  <1>9. DrainShape'
    <2>1. \A t \in Sessions : lock[t] # NoItem => lock[t] \in Items \ {i}
      <3>1. \A t \in Sessions : lock[t] # NoItem => lock[t] \in Items
        BY DEF TypeOK
      <3>2. \A t \in Sessions : lock[t] # NoItem => stage[lock[t]] = "entering"
        BY DEF WriteChainInv, DrainShape
      <3>3. stage[i] # "entering"
        BY DEF Retires, WriteStages
      <3>4. QED
        BY <3>1, <3>2, <3>3
    <2>2. UNCHANGED <<life, lock, send_queue, owner>>
      BY DEF Retires
    <2>3. \A j \in Items : stage'[j] = "dropped" => stage[j] = "dropped"
      BY <1>3, <1>4
    <2>4. QED
      BY <1>3, <2>1, <2>2, <2>3 DEF WriteChainInv, DrainShape
  <1>10. SingleWriter'
    <2>1. \A t \in Sessions \ {s} : starting'[t] = starting[t]
      BY <1>1, Zenon DEF Retires, TypeOK
    <2>2. starting'[s] <= 1
      BY <1>1, <1>2 DEF Retires, TypeOK
    <2>3. QED
      BY <1>5, <2>1, <2>2 DEF WriteChainInv, SingleWriter, Retires
  <1>11. WireOrder' /\ NothingAfterClose'
    BY Zenon DEF WriteChainInv, WireOrder, NothingAfterClose, Before, Retires
  <1>12. QED
    BY <1>6, <1>7, <1>8, <1>9, <1>10, <1>11

\* What an item's stage says of its history survives every step.
LEMMA ItemShapeStep ==
    ASSUME TypeOK, TypeOK', WriteChainInv, Next
    PROVE  ItemShape'
  <1> DEFINE Shape(i) ==
        /\ owner[i] = NoSession <=> stage[i] \in {"new", "entering", "refused"}
        /\ owner[i] \in Sessions => ticket[i] <= accepted[owner[i]]
        /\ sent[i] <= txd[i] /\ txd[i] <= Size[i]
        /\ stage[i] # "packet" => sent[i] = txd[i]
        /\ txd[i] > 0 => stage[i] \in WriteStages \cup {"gone"}
  <1>1. SUFFICES ASSUME NEW j \in Items PROVE Shape(j)'
    BY DEF ItemShape
  <1>2. Shape(j)
    BY DEF WriteChainInv, ItemShape
  <1>3. /\ sent[j] \in Nat /\ txd[j] \in Nat /\ Size[j] \in Nat /\ ticket[j] \in Nat
        /\ sent'[j] \in Nat /\ txd'[j] \in Nat
    BY SizeNat, Zenon DEF TypeOK
  <1>4. ASSUME NEW i \in Items, NEW x, stage' = [stage EXCEPT ![i] = x],
               UNCHANGED <<sent, txd, owner, ticket, accepted>>,
               \/ stage[i] = "kernel" /\ x = "packet"
               \/ stage[i] \in WriteStages \ {"packet"} /\ x \in WriteStages \cup {"gone"}
               \/ stage[i] \in {"new", "entering"} /\ x \in {"entering", "refused"}
        PROVE  Shape(j)'
    <2>1. stage'[i] = x /\ \A k \in Items \ {i} : stage'[k] = stage[k]
      BY <1>4, Zenon DEF TypeOK
    <2>2. /\ sent'[j] = sent[j] /\ txd'[j] = txd[j] /\ owner'[j] = owner[j]
          /\ ticket'[j] = ticket[j] /\ accepted' = accepted
      BY <1>4
    <2>3. CASE j # i
      BY <1>2, <2>1, <2>2, <2>3, Zenon
    <2>4. CASE j = i
      <3>1. /\ stage[j] \in {"new", "entering", "refused"}
                 <=> stage'[j] \in {"new", "entering", "refused"}
            /\ stage'[j] # "packet" => stage[j] # "packet"
        BY <1>4, <2>1, <2>4, Zenon DEF WriteStages
      <3>2. txd[j] > 0 => stage'[j] \in WriteStages \cup {"gone"}
        BY <1>2, <1>4, <2>1, <2>4, Zenon DEF WriteStages
      <3>3. QED
        BY <1>2, <2>2, <3>1, <3>2, Zenon
    <2>5. QED
      BY <2>3, <2>4, Zenon
  <1>5. ASSUME UNCHANGED <<stage, sent, txd, owner, ticket, accepted>>
        PROVE  Shape(j)'
    BY <1>2, <1>5, Zenon
  <1>6. ASSUME NEW s \in Sessions, NEW i \in Items,
               EnqueueLock(s, i) \/ EnqueueDisconnected(s, i) \/ EnqueueOverLimit(s, i)
        PROVE  Shape(j)'
    <2>1. stage[i] \in {"new", "entering"}
      BY <1>6, SendPathAssumption, Zenon
      DEF EnqueueLock, EnqueueDisconnected, EnqueueOverLimit, WriteChainInv, DrainShape
    <2>2. QED
      BY <1>4, <1>6, <2>1, Zenon
      DEF EnqueueLock, EnqueueDisconnected, EnqueueOverLimit, Refuse, historyVars
  <1>7. ASSUME NEW s \in Sessions, NEW i \in Items, EnqueuePush(s, i)
        PROVE  Shape(j)'
    <2>1. stage[i] = "entering"
      BY <1>7, SendPathAssumption, Zenon DEF EnqueuePush, WriteChainInv, DrainShape
    <2>2. /\ stage'[i] = "queued" /\ owner'[i] = s /\ ticket'[i] = accepted[s] + 1
          /\ accepted'[s] = accepted[s] + 1
          /\ \A t \in Sessions : accepted'[t] >= accepted[t]
          /\ accepted[s] \in Nat
      <3>1. \A t \in Sessions : accepted[t] \in Nat
        BY Zenon DEF TypeOK
      <3>2. accepted' = [accepted EXCEPT ![s] = accepted[s] + 1] /\ DOMAIN accepted = Sessions
        BY <1>7, Zenon DEF EnqueuePush, TypeOK
      <3>3. \A t \in Sessions : accepted'[t] >= accepted[t]
        BY <3>1, <3>2
      <3>4. QED
        BY <1>7, <3>1, <3>2, <3>3, Zenon DEF EnqueuePush, TypeOK
    <2>3. UNCHANGED <<sent, txd>> /\ s # NoSession
      BY <1>7, SendPathAssumption, Zenon DEF EnqueuePush
    <2>4. CASE j = i
      <3>1. ~(txd[j] > 0) /\ sent[j] = txd[j]
        BY <1>2, <2>1, <2>4, Zenon DEF WriteStages
      <3>2. txd[j] = 0 /\ sent[j] = 0
        BY <1>3, <3>1
      <3>3. owner'[j] = s /\ stage'[j] = "queued" /\ ticket'[j] <= accepted'[s]
        BY <2>2, <2>4
      <3>4. sent'[j] = 0 /\ txd'[j] = 0
        BY <2>3, <3>2
      <3>5. QED
        BY <1>3, <2>3, <3>3, <3>4
    <2>5. CASE j # i
      <3>1. stage'[j] = stage[j] /\ owner'[j] = owner[j] /\ ticket'[j] = ticket[j]
        <4>1. /\ stage' = [stage EXCEPT ![i] = "queued"]
              /\ owner' = [owner EXCEPT ![i] = s]
              /\ ticket' = [ticket EXCEPT ![i] = accepted[s] + 1]
          BY <1>7, Zenon DEF EnqueuePush
        <4>2. QED
          BY <2>5, <4>1 DEF TypeOK
      <3>2. owner[j] \in Sessions => ticket[j] <= accepted'[owner[j]]
        <4>1. SUFFICES ASSUME owner[j] \in Sessions PROVE ticket[j] <= accepted'[owner[j]]
          OBVIOUS
        <4>2. accepted[owner[j]] \in Nat /\ accepted'[owner[j]] \in Nat
          BY <4>1, Zenon DEF TypeOK
        <4>3. ticket[j] <= accepted[owner[j]] /\ accepted'[owner[j]] >= accepted[owner[j]]
          BY <1>2, <2>2, <4>1, Zenon
        <4>4. QED
          BY <1>3, <4>2, <4>3
      <3>3. QED
        BY <1>2, <2>3, <3>1, <3>2, Zenon
    <2>6. QED
      BY <2>4, <2>5, Zenon
  <1>8. ASSUME NEW s \in Sessions, StartNextWrite(s)
        PROVE  Shape(j)'
    <2>1. PICK i \in Items : stage[i] = "queued" /\ stage' = [stage EXCEPT ![i] = "popped"]
      <3>1. Head(send_queue[s]) = send_queue[s][1] /\ 1 \in DOMAIN send_queue[s]
        <4>1. send_queue[s] \in Seq(Items) /\ send_queue[s] # <<>>
          BY <1>8, Zenon DEF StartNextWrite, TypeOK
        <4>2. QED
          BY <4>1
      <3>2. QED
        BY <1>8, <3>1, QueueElement, Zenon DEF StartNextWrite,
           WriteChainInv, QueueShape
    <2>2. UNCHANGED <<sent, txd, owner, ticket, accepted>>
      BY <1>8 DEF StartNextWrite, historyVars
    <2>3. stage'[j] = stage[j] \/ (stage[j] = "queued" /\ stage'[j] = "popped")
      BY <2>1, Zenon DEF TypeOK
    <2>4. QED
      BY <1>2, <2>2, <2>3, Zenon DEF WriteStages
  <1>9. ASSUME NEW s \in Sessions,
               \/ StopWriting(s) \/ WriterDisconnect(s) \/ OtherDisconnect(s)
               \/ CloseSocket(s)
        PROVE  Shape(j)'
    BY <1>5, <1>9, Zenon
    DEF StopWriting, WriterDisconnect, OtherDisconnect, CloseSocket, historyVars
  <1>10. ASSUME NEW s \in Sessions, DrainQueue(s)
         PROVE  Shape(j)'
    <2>1. stage'[j] = stage[j] \/ (stage[j] = "queued" /\ stage'[j] = "dropped")
      <3>1. j \in QueueItems(s) => stage[j] = "queued"
        <4>1. \A p \in DOMAIN send_queue[s] : stage[send_queue[s][p]] = "queued"
          BY Zenon DEF WriteChainInv, QueueShape
        <4>2. QED
          BY <4>1 DEF QueueItems
      <3>2. stage'[j] = IF j \in QueueItems(s) THEN "dropped" ELSE stage[j]
        BY <1>10, <1>1 DEF DrainQueue
      <3>3. QED
        BY <3>1, <3>2
    <2>2. QED
      BY <1>2, <1>10, <2>1, Zenon DEF DrainQueue, historyVars, WriteStages
  <1>11. ASSUME NEW i \in Items,
                \/ CreateFails(i) \/ Abandon(i) \/ WSASend(i) \/ WSASendFails(i)
                \/ SendFails(i) \/ FinishWrite(i) \/ FirstPost(i)
                \/ ReleaseAndDisconnect(i) \/ ReleaseAndContinue(i)
         PROVE  Shape(j)'
    <2>1. UNCHANGED <<sent, txd, owner, ticket, accepted>>
      BY <1>11, ZenonT(30) DEF CreateFails, Abandon, WSASend, WSASendFails, SendFails,
         FinishWrite, FirstPost, ReleaseAndDisconnect, ReleaseAndContinue,
         ReleaseWrite, historyVars
    <2>2. \E x : /\ stage' = [stage EXCEPT ![i] = x]
                 /\ \/ stage[i] = "kernel" /\ x = "packet"
                    \/ /\ stage[i] \in WriteStages \ {"packet"}
                       /\ x \in WriteStages \cup {"gone"}
      BY <1>11, ZenonT(30) DEF CreateFails, Abandon, WSASend, WSASendFails, SendFails,
         FinishWrite, FirstPost, PostWrite, ReleaseAndDisconnect,
         ReleaseAndContinue, ReleaseWrite, WriteStages
    <2>3. QED
      BY <1>4, <2>1, <2>2, ZenonT(30)
  <1>12. ASSUME NEW i \in Items, HandleWrite(i)
         PROVE  Shape(j)'
    <2>1. /\ stage[i] = "packet" /\ stage'[i] \in {"finish", "posting"}
          /\ sent'[i] = Consume(i, txd[i] - sent[i])
      BY <1>12 DEF HandleWrite, PostWrite, TypeOK
    <2>2. UNCHANGED <<txd, owner, ticket, accepted>>
      BY <1>12 DEF HandleWrite, historyVars
    <2>3. CASE j = i
      <3>1. sent'[j] = txd[j]
        <4>1. sent'[j] = Consume(j, txd[j] - sent[j]) /\ sent[j] <= txd[j] /\ txd[j] <= Size[j]
          BY <1>2, <2>1, <2>3, Zenon
        <4>2. QED
          BY <1>3, <4>1 DEF Consume
      <3>2. QED
        BY <1>2, <1>3, <2>1, <2>2, <2>3, <3>1 DEF WriteStages
    <2>4. CASE j # i
      <3>1. stage'[j] = stage[j] /\ sent'[j] = sent[j]
        BY <1>12, <2>4, Zenon DEF HandleWrite, PostWrite, TypeOK
      <3>2. QED
        BY <1>2, <2>2, <3>1, Zenon
    <2>5. QED
      BY <2>3, <2>4, Zenon
  <1>13. ASSUME NEW i \in Items, NEW n \in 1 .. Size[i], Transmit(i, n)
         PROVE  Shape(j)'
    <2>1. UNCHANGED <<sent, owner, ticket, accepted>>
      BY <1>13 DEF Transmit, historyVars
    <2>2. CASE j = i
      <3>1. /\ stage[j] = "kernel" /\ stage'[j] = "packet"
            /\ txd'[j] = txd[j] + n /\ n <= Size[j] - txd[j] /\ n \in Nat
        <4>1. /\ stage[i] = "kernel" /\ n <= Size[i] - txd[i]
              /\ txd' = [txd EXCEPT ![i] = txd[i] + n]
              /\ stage' = [stage EXCEPT ![i] = "packet"]
          BY <1>13 DEF Transmit
        <4>2. i \in DOMAIN txd /\ i \in DOMAIN stage
          BY Zenon DEF TypeOK
        <4>3. n \in Nat
          BY <1>3, <2>2
        <4>4. QED
          BY <2>2, <4>1, <4>2, <4>3
      <3>2. txd'[j] <= Size[j] /\ sent[j] <= txd'[j]
        BY <1>2, <1>3, <3>1
      <3>3. QED
        BY <1>2, <2>1, <3>1, <3>2, Zenon DEF WriteStages
    <2>3. CASE j # i
      <3>1. stage'[j] = stage[j] /\ txd'[j] = txd[j]
        BY <1>13, <2>3, Zenon DEF Transmit, TypeOK
      <3>2. QED
        BY <1>2, <2>1, <3>1, Zenon
    <2>4. QED
      BY <2>2, <2>3, Zenon
  <1> HIDE DEF Shape
  <1>14. QED
    BY <1>6, <1>7, <1>8, <1>9, <1>10, <1>11, <1>12, <1>13, Zenon
    DEF Next, SessionStep, ItemStep
=============================================================================
