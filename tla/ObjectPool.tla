----------------------------- MODULE ObjectPool -----------------------------
(***************************************************************************)
(* TypedObjectPool of memory_pool.hpp, the pool of the accept operations.  *)
(* Create and Destroy take the mutex for the free list only: the object is *)
(* constructed and destroyed outside it.                                   *)
(*                                                                         *)
(* A slot is a union: slot[s] is its next pointer while s is free, and     *)
(* Object, which overwrites the pointer, while an object lives in it.  An  *)
(* object goes from the thread that created it to any other, and one       *)
(* thread destroys it.                                                     *)
(***************************************************************************)
EXTENDS Naturals, FiniteSets

CONSTANTS
    Capacity,           \* capacity_
    Threads

ASSUME PoolAssumption == Capacity \in Nat \ {0}

Slots == 1 .. Capacity
Null == 0
Object == Capacity + 1

VARIABLES
    slot,               \* slots_: a next pointer, or Object
    free_head,
    allocated,          \* allocated_, kept in debug builds
    pc, held,           \* where each thread is, and the slot it works on
    thrown              \* a debug check has failed

vars == <<slot, free_head, allocated, pc, held, thrown>>

\* The constructor's links.
Link(s) == IF s < Capacity THEN s + 1 ELSE Null

Init ==
    /\ slot = [s \in Slots |-> Link(s)]
    /\ free_head = 1
    /\ allocated = [s \in Slots |-> FALSE]
    /\ pc = [t \in Threads |-> "idle"] /\ held = [t \in Threads |-> Null]
    /\ thrown = FALSE

\* Create's first section: the head of the list is taken; nullptr if there is none.
Create(t) ==
    /\ pc[t] = "idle" /\ free_head # Null
    /\ free_head' = slot[free_head]
    /\ IF allocated[free_head]
       THEN thrown' = TRUE /\ UNCHANGED <<allocated, pc, held>>
       ELSE /\ allocated' = [allocated EXCEPT ![free_head] = TRUE]
            /\ pc' = [pc EXCEPT ![t] = "constructing"]
            /\ held' = [held EXCEPT ![t] = free_head]
            /\ UNCHANGED thrown
    /\ UNCHANGED slot

\* construct_at succeeds; the object is the caller's.
Construct(t) ==
    /\ pc[t] = "constructing"
    /\ slot' = [slot EXCEPT ![held[t]] = Object]
    /\ pc' = [pc EXCEPT ![t] = "idle"] /\ held' = [held EXCEPT ![t] = Null]
    /\ UNCHANGED <<free_head, allocated, thrown>>

\* The slot a thread holds becomes the head of the list.
PushFree(t) ==
    /\ slot' = [slot EXCEPT ![held[t]] = free_head]
    /\ free_head' = held[t]
    /\ pc' = [pc EXCEPT ![t] = "idle"] /\ held' = [held EXCEPT ![t] = Null]
    /\ UNCHANGED thrown

\* Mutant: the slot goes back and its allocated_ bit stays.
MutantBitStays(t) == pc[t] = "constructing" /\ PushFree(t) /\ UNCHANGED allocated

\* The constructor throws: the slot goes back.
ConstructThrows(t) ==
    /\ pc[t] = "constructing"
    /\ PushFree(t)
    /\ allocated' = [allocated EXCEPT ![held[t]] = FALSE]

\* Mutant: the slot is linked in the first section, before destroy_at.
MutantLinksFirst(t, s) ==
    /\ pc[t] = "idle" /\ slot[s] = Object
    /\ \A u \in Threads : held[u] # s
    /\ allocated' = [allocated EXCEPT ![s] = FALSE]
    /\ pc' = [pc EXCEPT ![t] = "destroying"] /\ held' = [held EXCEPT ![t] = s]
    /\ slot' = [slot EXCEPT ![s] = free_head] /\ free_head' = s
    /\ UNCHANGED thrown

\* Destroy's first section, of an object nobody else is destroying.
Destroy(t, s) ==
    /\ pc[t] = "idle" /\ slot[s] = Object
    /\ \A u \in Threads : held[u] # s
    /\ IF allocated[s]
       THEN /\ allocated' = [allocated EXCEPT ![s] = FALSE]
            /\ pc' = [pc EXCEPT ![t] = "destroying"] /\ held' = [held EXCEPT ![t] = s]
            /\ UNCHANGED thrown
       ELSE thrown' = TRUE /\ UNCHANGED <<allocated, pc, held>>
    /\ UNCHANGED <<slot, free_head>>

\* Mutant: the head is read before the lock is taken again.
MutantStaleHead(t) ==
    /\ pc[t] = "destroying"
    /\ \E head \in {free_head, Null} :
           /\ slot' = [slot EXCEPT ![held[t]] = head]
           /\ free_head' = held[t]
    /\ pc' = [pc EXCEPT ![t] = "idle"] /\ held' = [held EXCEPT ![t] = Null]
    /\ UNCHANGED <<allocated, thrown>>

\* destroy_at, which only the destroying thread sees, and the second section.
Destroyed(t) == pc[t] = "destroying" /\ PushFree(t) /\ UNCHANGED allocated

Next ==
    \E t \in Threads :
        \/ Create(t) \/ Construct(t) \/ ConstructThrows(t)
        \/ \E s \in Slots : Destroy(t, s)
        \/ Destroyed(t)

Spec == Init /\ [][Next]_vars

-----------------------------------------------------------------------------
\* A slot is a link or an object, and a link is a slot or null.
TypeOK ==
    /\ slot \in [Slots -> Slots \cup {Null, Object}]
    /\ free_head \in Slots \cup {Null}
    /\ allocated \in [Slots -> BOOLEAN]
    /\ pc \in [Threads -> {"idle", "constructing", "destroying"}]
    /\ held \in [Threads -> Slots \cup {Null}]

\* The slots no object lives in and no thread works on.
Free == {s \in Slots : slot[s] # Object} \ {held[t] : t \in Threads}

\* What is found after n links of the list.
Chain[n \in 0 .. Capacity] ==
    IF n = 0 THEN free_head
    ELSE LET c == Chain[n - 1] IN IF c \in Slots THEN slot[c] ELSE Null

\* The free list is one chain through exactly the free slots: none is lost by a
\* Create or Destroy that another thread's overlaps, or by a constructor that
\* throws; none is in the list twice, or while an object lives in it.
FreeListSound ==
    /\ Chain[Cardinality(Free)] = Null
    /\ {Chain[n] : n \in 0 .. Capacity} \ {Null} = Free

\* The free list of TypedObjectPool is one chain through exactly the free slots.
FreeListIsChain == TypeOK /\ FreeListSound

\* A slot has one owner: no two threads construct or destroy in it at once, and no
\* object is constructed over a living one.
OneOwner ==
    /\ \A t, u \in Threads : t # u /\ held[t] # Null => held[t] # held[u]
    /\ \A t \in Threads : pc[t] = "constructing" => slot[held[t]] # Object

\* The debug checks of Create and Destroy, "free-list corruption" and "double free
\* detected", never fail: allocated_ follows the list although each Destroy clears
\* its bit in one section and links the slot in another.
ChecksSilent == ~thrown
=============================================================================
