----------------------- MODULE ConnectionManagerProofs ----------------------
(***************************************************************************)
(* Proofs about ConnectionManager, for any number of slots and clients.    *)
(*                                                                         *)
(* The argument: an id is handed out from the free ones or is the next     *)
(* one, so it was not listed; an id is only removed when it has been       *)
(* handed out before, because every id an actor, an event or an open       *)
(* socket refers to is at most max_id.                                     *)
(***************************************************************************)
EXTENDS ConnectionManager, FiniteSetTheorems, WellFoundedInduction, TLAPS

(* The slots and the sets that broadcasts share.                             *)
SlotInv ==
  /\ maxId \in Nat /\ size \in Nat
  /\ SlotsPartition /\ SizeNotOver /\ SnapshotStable
  /\ open \subseteq 1..maxId /\ keepAlive \subseteq 1..maxId
  /\ holders \subseteq Client
  /\ view \in [Client -> SUBSET (1..maxId)]
  /\ taken \in [Client -> SUBSET (1..maxId)]

(* The threads refer only to ids that have been handed out.                  *)
ThreadInv ==
  /\ pc \in [Actor -> {"idle", "opening", "removing", "cast"} \cup PollerPc]
  /\ on \in [Actor -> 0..maxId]
  /\ \A a \in Actor : pc[a] \in {"opening", "removing"} => on[a] \in 1..maxId
  /\ events \subseteq 1..maxId
  /\ {ctrl, running, listening} \subseteq BOOLEAN
  /\ spc \in {"none", "notify", "command", "join", "done"}
  /\ opens \in Nat

IInv == SlotInv /\ ThreadInv

(* A set of naturals that is not empty has a least element, which new_conn   *)
(* takes.                                                                    *)
LEMMA LowestFreeIsFree ==
  ASSUME freeIds \subseteq Nat, freeIds # {}
  PROVE  LowestFree \in freeIds
<1>1. PICK i \in freeIds : \A j \in freeIds : ~ <<j, i>> \in OpToRel(<, Nat)
  BY NatLessThanWellFounded, WFMin
<1>2. OpToRel(<, Nat) = {ss \in Nat \X Nat : ss[1] < ss[2]}
  BY Zenon DEF OpToRel
<1>3. \A j \in freeIds : ~ <<j, i>> \in {ss \in Nat \X Nat : ss[1] < ss[2]}
  BY <1>1, <1>2, Zenon
<1>4. ASSUME NEW j \in freeIds PROVE i <= j
  <2>1. i \in Nat /\ j \in Nat /\ <<j, i>> \in Nat \X Nat
    OBVIOUS
  <2>2. j < i => <<j, i>> \in {ss \in Nat \X Nat : ss[1] < ss[2]}
    BY <2>1
  <2> QED
    BY <1>3, <2>1, <2>2
<1> QED
  BY <1>4 DEF LowestFree

(* Listed ids are a finite set, whose size is at most max_id.                *)
LEMMA IdsFinite ==
  ASSUME SlotInv
  PROVE  IsFiniteSet(ids) /\ Cardinality(ids) \in Nat /\ Cardinality(ids) <= maxId
<1>1. maxId \in Nat /\ ids \in SUBSET (1..maxId)
  BY DEF SlotInv, SlotsPartition
<1>2. IsFiniteSet(1..maxId) /\ Cardinality(1..maxId) = maxId
  BY <1>1, FS_Interval
<1> QED
  BY <1>1, <1>2, FS_Subset, FS_CardinalityType

(* new_conn hands out an id that was not listed and keeps the slots right.   *)
LEMMA NewConnSlots ==
  ASSUME SlotInv, NEW a \in Actor, NewConn(a)
  PROVE  SlotInv' /\ NewId \notin ids /\ NewId \in 1..maxId' /\ maxId <= maxId'
<1> DEFINE i == NewId
<1> USE ManagerAssumption
<1>1. /\ i \notin ids /\ i \in 1..maxId' /\ maxId' \in Nat /\ maxId' <= MaxCount
      /\ maxId <= maxId'
      /\ ids' = ids \cup {i} /\ freeIds' = freeIds \ {i}
      /\ ids' \cup freeIds' = 1..maxId'
  <2>1. CASE freeIds # {}
    <3>1. i \in freeIds
      BY <2>1, LowestFreeIsFree DEF NewId, SlotInv, SlotsPartition
    <3> QED
      BY <2>1, <3>1 DEF SlotInv, SlotsPartition, NewConn, SetIds, FreeLess
  <2>2. CASE freeIds = {}
    <3>1. i = maxId + 1 /\ maxId < MaxCount
      BY <2>2 DEF NewId, NewConn, IsFull, SlotInv, SlotsPartition
    <3> QED
      BY <2>2, <3>1 DEF SlotInv, SlotsPartition, NewConn, SetIds, FreeLess
  <2> QED
    BY <2>1, <2>2
<1>2. SlotsPartition'
  BY <1>1 DEF SlotInv, SlotsPartition
<1>3. SizeNotOver' /\ size' \in Nat
  <2>1. Cardinality(ids') = Cardinality(ids) + 1
    BY <1>1, IdsFinite, FS_AddElement
  <2> QED
    BY <2>1, IdsFinite DEF SlotInv, SizeNotOver, NewConn
<1>4. /\ SnapshotStable' /\ holders' = {} /\ view' = view /\ taken' = taken
      /\ keepAlive' = keepAlive
  BY DEF SlotInv, SnapshotStable, NewConn, SetIds
<1>5. open' \subseteq 1..maxId' /\ 1..maxId \subseteq 1..maxId'
  BY <1>1 DEF SlotInv, NewConn
<1> QED
  BY <1>1, <1>2, <1>3, <1>4, <1>5 DEF SlotInv

(* remove keeps the slots right, also for an id that was removed before.     *)
LEMMA RemoveSlots ==
  ASSUME SlotInv, NEW i \in 1..maxId, Remove(i)
  PROVE  SlotInv' /\ maxId' = maxId
<1>1. CASE StaysListed(i)
  BY <1>1 DEF SlotInv, Remove, slotVars, castVars, SlotsPartition, SizeNotOver,
              SnapshotStable
<1>2. CASE ~StaysListed(i)
  <2>1. /\ ids' = ids \ {i} /\ freeIds' = freeIds \cup {i} /\ maxId' = maxId
        /\ size' = SizeLess /\ holders' = {} /\ view' = view /\ taken' = taken
        /\ open' = open \ {i} /\ keepAlive' = keepAlive
    BY <1>2 DEF Remove, SetIds
  <2>2. SlotsPartition'
    BY <2>1 DEF SlotInv, SlotsPartition
  <2>3. SizeNotOver' /\ size' \in Nat
    <3>1. Cardinality(ids') = IF i \in ids THEN Cardinality(ids) - 1
                                           ELSE Cardinality(ids)
      BY <2>1, IdsFinite, FS_RemoveElement
    <3>2. i \in ids => Cardinality(ids) # 0
      BY IdsFinite, FS_EmptySet
    <3> QED
      BY <2>1, <3>1, <3>2, IdsFinite DEF SlotInv, SizeNotOver, SizeLess
  <2> QED
    BY <2>1, <2>2, <2>3 DEF SlotInv, SnapshotStable
<1> QED
  BY <1>1, <1>2

(* The initial state satisfies the inductive invariant.                      *)
LEMMA InitIInv == Init => IInv
<1> SUFFICES ASSUME Init PROVE IInv
  OBVIOUS
<1>1. Cardinality({}) = 0
  BY FS_EmptySet
<1>2. SlotInv
  BY <1>1, ManagerAssumption
     DEF Init, SlotInv, SlotsPartition, SizeNotOver, SnapshotStable
<1>3. ThreadInv
  <2>1. pc \in [Actor -> {"idle", "check"}] /\ on \in [Actor -> 0..maxId]
    BY DEF Init, NoConn
  <2>2. {ctrl, running, listening} \subseteq BOOLEAN
    BY Zenon DEF Init
  <2> QED
    BY <2>1, <2>2 DEF Init, ThreadInv, PollerPc
<1> QED
  BY <1>2, <1>3 DEF IInv

(* A step that leaves the slots, connections and broadcasts alone.           *)
LEMMA SlotsUntouched ==
  ASSUME SlotInv, UNCHANGED <<slotVars, connVars, castVars>>
  PROVE  SlotInv' /\ maxId' = maxId
BY DEF SlotInv, SlotsPartition, SizeNotOver, SnapshotStable, slotVars, connVars, castVars

(* Every step keeps the inductive invariant.                                 *)
LEMMA NextIInv == IInv /\ [Next]_vars => IInv'
<1> SUFFICES ASSUME IInv, [Next]_vars PROVE IInv'
  OBVIOUS
<1> USE DEF IInv
<1>a. Poller \in Actor /\ Executor \in Actor /\ Client \subseteq Actor
  BY DEF Actor
<1>1. ASSUME NEW a \in Actor, Open(a) PROVE IInv'
  <2>1. NewConn(a)
    BY <1>1 DEF Open
  <2>2. SlotInv' /\ NewId \in 1..maxId' /\ maxId <= maxId' /\ maxId \in Nat /\ maxId' \in Nat
    BY <2>1, NewConnSlots DEF SlotInv
  <2>3. /\ on' = [on EXCEPT ![a] = NewId]
        /\ pc' = [pc EXCEPT ![Poller] = Notified, ![a] = "opening"]
    BY <2>1 DEF NewConn
  <2>4. ThreadInv'
    BY <1>1, <1>a, <2>2, <2>3 DEF Open, ThreadInv, Notified, stopVars, PollerPc
  <2> QED
    BY <2>2, <2>4
<1>2. ASSUME NEW a \in Actor, OpenSucceeds(a) PROVE IInv'
  <2>1. on[a] \in 1..maxId
    BY <1>2 DEF OpenSucceeds, ThreadInv
  <2>2. SlotInv' /\ maxId' = maxId
    BY <1>2, <2>1 DEF OpenSucceeds, SlotInv, SlotsPartition, SizeNotOver,
                      SnapshotStable, slotVars, castVars
  <2>3. ThreadInv'
    BY <1>2, <2>2 DEF OpenSucceeds, ThreadInv, SlotInv, Rest, Goto, Home, NoConn,
                      PollerPc, stopVars
  <2> QED
    BY <2>2, <2>3
<1>3. ASSUME NEW a \in Actor, OpenFails(a) \/ RemoveBy(a) PROVE IInv'
  <2>1. on[a] \in 1..maxId /\ Remove(on[a])
    BY <1>3 DEF OpenFails, RemoveBy, ThreadInv
  <2>2. SlotInv' /\ maxId' = maxId
    BY <2>1, RemoveSlots
  <2>3. Rest(a) /\ UNCHANGED <<events, ctrl, stopVars, opens>>
    BY <1>3, Zenon DEF OpenFails, RemoveBy
  <2>4. ThreadInv'
    BY <2>2, <2>3 DEF ThreadInv, SlotInv, Rest, Goto, Home, NoConn, PollerPc, stopVars
  <2> QED
    BY <2>2, <2>4
<1>4. ASSUME NEW i \in Id, NEW flag \in BOOLEAN, SetKeepAlive(i, flag) PROVE IInv'
  <2>1. SlotInv' /\ maxId' = maxId
    BY <1>4 DEF SetKeepAlive, Id, SlotInv, SlotsPartition, SizeNotOver,
                SnapshotStable, slotVars, castVars
  <2> QED
    BY <1>4, <2>1 DEF SetKeepAlive, ThreadInv, stopVars
<1>5. ASSUME NEW i \in Id, Reconnect(i) PROVE IInv'
  <2>1. SlotInv' /\ maxId' = maxId
    BY <1>5 DEF Reconnect, SlotInv, SlotsPartition, SizeNotOver,
                SnapshotStable, slotVars, castVars
  <2> QED
    BY <1>5, <2>1 DEF Reconnect, ThreadInv, stopVars
<1>6. ASSUME NEW i \in Id, WorkFails(i) PROVE IInv'
  <2>1. SlotInv' /\ maxId' = maxId
    BY <1>6, SlotsUntouched DEF WorkFails
  <2> QED
    BY <1>6, <1>a, <2>1 DEF WorkFails, ThreadInv, SlotInv, Goto, stopVars
<1>7. ASSUME NEW c \in Client, BroadcastBegin(c) \/ BroadcastEnd(c) PROVE IInv'
  <2>1. SlotInv' /\ maxId' = maxId
    BY <1>7 DEF BroadcastBegin, BroadcastEnd, SlotInv, SlotsPartition, SizeNotOver,
                SnapshotStable, slotVars, connVars
  <2> QED
    BY <1>7, <1>a, <2>1 DEF BroadcastBegin, BroadcastEnd, ThreadInv, Goto, stopVars
<1>8. CASE WaitCheck \/ WaitPredicate \/ FallAsleep \/ SpuriousWake \/ RunningCheck
  <2>1. SlotInv' /\ maxId' = maxId
    BY <1>8, SlotsUntouched DEF WaitCheck, WaitPredicate, FallAsleep, SpuriousWake,
                                RunningCheck, PollerOnly
  <2> QED
    BY <1>8, <1>a, <2>1 DEF WaitCheck, WaitPredicate, FallAsleep, SpuriousWake,
         RunningCheck, PollerOnly, ThreadInv, Goto, PollerPc, stopVars
<1>9. CASE Poll \/ Handled
  <2>1. SlotInv' /\ maxId' = maxId
    BY <1>9, SlotsUntouched DEF Poll, Handled, PollerOnly
  <2>2. ThreadInv'
    <3>1. CASE Poll
      <4>1. events' \subseteq 1..maxId
        BY <3>1 DEF Poll, SlotInv
      <4> QED
        BY <3>1, <4>1, <1>a, <2>1 DEF Poll, PollerOnly, ThreadInv, Goto, PollerPc, stopVars
    <3>2. CASE Handled
      BY <3>2, <1>a, <2>1 DEF Handled, PollerOnly, ThreadInv, Goto, PollerPc, stopVars
    <3> QED
      BY <1>9, <3>1, <3>2
  <2> QED
    BY <2>1, <2>2
<1>10. ASSUME NEW i \in Id, HandleEvent(i) PROVE IInv'
  <2>1. SlotInv' /\ maxId' = maxId
    BY <1>10, SlotsUntouched DEF HandleEvent
  <2> QED
    BY <1>10, <1>a, <2>1 DEF HandleEvent, ThreadInv, SlotInv, Goto, stopVars
<1>11. CASE StopFlag \/ StopStep
  <2>1. SlotInv' /\ maxId' = maxId
    BY <1>11, SlotsUntouched DEF StopFlag, StopStep, StopNotify, SendStop, StopJoin
  <2> QED
    BY <1>11, <1>a, <2>1 DEF StopFlag, StopStep, StopNotify, SendStop, StopJoin,
         StopCommand, Notified, ThreadInv, Goto, PollerPc
<1>12. CASE UNCHANGED vars
  <2>1. SlotInv' /\ maxId' = maxId
    BY <1>12, SlotsUntouched DEF vars
  <2> QED
    BY <1>12, <2>1 DEF vars, ThreadInv, stopVars
<1> QED
  BY <1>1, <1>2, <1>3, <1>4, <1>5, <1>6, <1>7, <1>8, <1>9, <1>10, <1>11, <1>12
     DEF Next, ConnStep, PollerStep

(* The inductive invariant holds in every reachable state.                   *)
LEMMA Invariance == Spec => []IInv
BY InitIInv, NextIInv, PTL DEF Spec

(* Ids, sockets and the threads' references stay within the manager's slots. *)
THEOREM TypeCorrect == Spec => []TypeOK
<1>1. IInv => TypeOK
  <2> SUFFICES ASSUME IInv PROVE TypeOK
    OBVIOUS
  <2>1. maxId \in Nat /\ maxId <= MaxCount /\ 1..maxId \subseteq Id
    BY ManagerAssumption DEF IInv, SlotInv, SlotsPartition, Id
  <2>2. size \in 0..MaxCount
    BY <2>1, IdsFinite, ManagerAssumption DEF IInv, SlotInv, SizeNotOver
  <2> QED
    BY <2>1, <2>2, ManagerAssumption DEF IInv, SlotInv, SlotsPartition, ThreadInv, TypeOK
<1> QED
  BY <1>1, Invariance, PTL

(* No slot is lost or handed out twice by new_conn and remove.               *)
THEOREM NoSlotLost == Spec => []SlotsPartition
<1>1. IInv => SlotsPartition
  BY DEF IInv, SlotInv
<1> QED
  BY <1>1, Invariance, PTL

(* The poller's size never exceeds the number of listed connections, even    *)
(* when several threads remove the same connection.                          *)
THEOREM SizeBounded == Spec => []SizeNotOver
<1>1. IInv => SizeNotOver
  BY DEF IInv, SlotInv
<1> QED
  BY <1>1, Invariance, PTL

(* What broadcast goes through without the mutex is what it took under it.   *)
THEOREM BroadcastSnapshot == Spec => []SnapshotStable
<1>1. IInv => SnapshotStable
  BY DEF IInv, SlotInv
<1> QED
  BY <1>1, Invariance, PTL
=============================================================================
