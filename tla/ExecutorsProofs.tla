-------------------------- MODULE ExecutorsProofs ---------------------------
(***************************************************************************)
(* Proofs about ThreadExecutor, for any set of tasks, about the Task that  *)
(* executors run, for any callables, and about the ThreadPool of sys, for  *)
(* any number of workers and tasks.                                        *)
(*                                                                         *)
(* ThreadExecutor: threads retire one at a time, so they have ranks 1, 2,  *)
(* ...; a thread joins the one of the rank below, hence a thread that has  *)
(* ended leaves no running thread of a lower rank.  shutdown joins the     *)
(* thread of the highest rank after workers_ became empty.                 *)
(*                                                                         *)
(* Task: what its vtable says of the buffer tells who holds a callable.    *)
(* ThreadPool: an accepted task is in one place, and a worker leaves only  *)
(* after it saw stop with an empty queue.                                  *)
(***************************************************************************)
EXTENDS ThreadExecutor, Sequences, TLAPS

Working(t) == pc[t] \in {"task", "retire"}
HasRetired(t) == pc[t] \in {"notify", "join", "ended"}

(* workers_ holds the threads that have not retired; ranks are what they     *)
(* should be.                                                                *)
RankTable ==
  /\ workers = {t \in Task : Working(t)}
  /\ \A t \in Task : IF HasRetired(t) THEN rank[t] \in 1..retired
                                      ELSE rank[t] = 0
  /\ \A t, u \in Task : HasRetired(t) /\ rank[t] = rank[u] => t = u

(* Who joins whom.                                                           *)
JoinTable ==
  /\ \A t \in Task : \A u \in toJoin[t] :
       HasRetired(u) /\ HasRetired(t) /\ rank[t] = rank[u] + 1
  /\ \A t \in Task : HasRetired(t) /\ toJoin[t] = {} => rank[t] = 1
  /\ \A t \in lastRetired : HasRetired(t) /\ rank[t] = retired
  /\ lastRetired = {} /\ spc # "done" => retired = 0

(* A thread that has ended was the last of those up to its rank.             *)
EndedInOrder ==
  \A t, u \in Task :
    pc[u] = "ended" /\ HasRetired(t) /\ rank[t] < rank[u] => pc[t] = "ended"

ShutdownTable ==
  /\ abort <=> spc \notin {"none", "lock"}
  /\ spc \in {"join", "done"} => workers = {}
  /\ spc = "done" => lastRetired = {}

(* The inductive invariant: workers_, last_retired_ and the joins agree with *)
(* the order in which threads retired, and shutdown with all of them.        *)
IInv ==
  /\ TypeOK /\ RankTable /\ JoinTable /\ EndedInOrder /\ ShutdownTable
  /\ ShutdownJoinsAll /\ WakerExists

(* The initial state satisfies the inductive invariant.                      *)
LEMMA InitIInv == Init => IInv
<1> SUFFICES ASSUME Init PROVE IInv
  OBVIOUS
<1> USE DEF Init, Working, HasRetired
<1>1. TypeOK /\ ShutdownTable
  BY Zenon DEF TypeOK, ShutdownTable, ThreadPc, ShutdownPc
<1>2. RankTable /\ EndedInOrder
  BY DEF RankTable, EndedInOrder
<1>3. JoinTable /\ ShutdownJoinsAll /\ WakerExists
  BY DEF JoinTable, ShutdownJoinsAll, WakerExists
<1> QED
  BY <1>1, <1>2, <1>3 DEF IInv

(* Every step of the executor, of a thread or of shutdown keeps it.          *)
LEMMA NextIInv == IInv /\ [Next]_vars => IInv'
<1> USE DEF IInv, TypeOK, ShutdownTable, ThreadPc, ShutdownPc, joinVars
<1> SUFFICES ASSUME IInv, [Next]_vars PROVE IInv'
  OBVIOUS
<1>1. ASSUME NEW batch \in SUBSET Task, Enqueue(batch) PROVE IInv'
  <2>1. TypeOK' /\ ShutdownTable'
    BY <1>1 DEF Enqueue, LockIsFree
  <2>2. \A t \in Task : HasRetired(t)' = HasRetired(t)
    BY <1>1 DEF Enqueue, HasRetired
  <2>3. RankTable'
    BY <1>1, <2>2 DEF Enqueue, RankTable, Working, HasRetired
  <2>4. JoinTable'
    BY <1>1, <2>2 DEF Enqueue, JoinTable
  <2>5. EndedInOrder'
    BY <1>1, <2>2 DEF Enqueue, EndedInOrder
  <2>6. ShutdownJoinsAll' /\ WakerExists'
    BY <1>1 DEF Enqueue, ShutdownJoinsAll, WakerExists
  <2> QED
    BY <2>1, <2>3, <2>4, <2>5, <2>6
<1>2. ASSUME NEW t \in Task, TaskReturns(t) PROVE IInv'
  <2>1. TypeOK' /\ ShutdownTable'
    BY <1>2 DEF TaskReturns
  <2>2. \A u \in Task : HasRetired(u)' = HasRetired(u) /\ Working(u)' = Working(u)
    BY <1>2 DEF TaskReturns, HasRetired, Working
  <2>3. RankTable'
    BY <1>2, <2>2 DEF TaskReturns, RankTable
  <2>4. JoinTable'
    BY <1>2, <2>2 DEF TaskReturns, JoinTable
  <2>5. EndedInOrder'
    BY <1>2, <2>2 DEF TaskReturns, EndedInOrder
  <2>6. ShutdownJoinsAll' /\ WakerExists'
    BY <1>2 DEF TaskReturns, ShutdownJoinsAll, WakerExists
  <2> QED
    BY <2>1, <2>3, <2>4, <2>5, <2>6
<1>3. ASSUME NEW t \in Task, RetireWorker(t) PROVE IInv'
  <2>0. /\ ~HasRetired(t) /\ HasRetired(t)' /\ Working(t) /\ ~Working(t)'
        /\ \A u \in Task \ {t} : /\ HasRetired(u)' = HasRetired(u)
                                 /\ Working(u)' = Working(u)
    BY <1>3 DEF RetireWorker, HasRetired, Working
  <2>1. TypeOK' /\ ShutdownTable'
    BY <1>3, <2>0 DEF RetireWorker, MovedOut, Retired, WorkersLeft, LockIsFree, RankTable
  <2>2. RankTable'
    BY <1>3, <2>0 DEF RetireWorker, WorkersLeft, RankTable
  <2>3. spc # "done"
    BY <1>3 DEF RetireWorker, ShutdownJoinsAll
  <2>4. JoinTable'
    BY <1>3, <2>0, <2>3 DEF RetireWorker, MovedOut, Retired, JoinTable, RankTable
  <2>5. EndedInOrder'
    BY <1>3, <2>0 DEF RetireWorker, EndedInOrder, RankTable, HasRetired
  <2>6. ShutdownJoinsAll' /\ WakerExists'
    BY <1>3 DEF RetireWorker, ShutdownJoinsAll, WakerExists
  <2> QED
    BY <2>1, <2>2, <2>4, <2>5, <2>6
<1>4. ASSUME NEW t \in Task, NotifyOne(t) PROVE IInv'
  <2>1. \A u \in Task : HasRetired(u)' = HasRetired(u) /\ Working(u)' = Working(u)
    BY <1>4 DEF NotifyOne, HasRetired, Working
  <2>2. TypeOK' /\ ShutdownTable'
    BY <1>4 DEF NotifyOne, Notified
  <2>3. RankTable'
    BY <1>4, <2>1 DEF NotifyOne, RankTable
  <2>4. JoinTable'
    BY <1>4, <2>1 DEF NotifyOne, Notified, JoinTable
  <2>5. EndedInOrder'
    BY <1>4, <2>1 DEF NotifyOne, EndedInOrder
  <2>6. ShutdownJoinsAll' /\ WakerExists'
    BY <1>4 DEF NotifyOne, Notified, ShutdownJoinsAll, WakerExists
  <2> QED
    BY <2>2, <2>3, <2>4, <2>5, <2>6
<1>5. ASSUME NEW t \in Task, JoinOlder(t) PROVE IInv'
  <2>1. \A u \in Task : HasRetired(u)' = HasRetired(u) /\ Working(u)' = Working(u)
    BY <1>5 DEF JoinOlder, HasRetired, Working
  <2>2. TypeOK' /\ ShutdownTable'
    BY <1>5 DEF JoinOlder
  <2>3. RankTable'
    BY <1>5, <2>1 DEF JoinOlder, RankTable
  <2>4. JoinTable'
    BY <1>5, <2>1 DEF JoinOlder, JoinTable
  <2>5. \A u \in Task : HasRetired(u) /\ rank[u] < rank[t] => pc[u] = "ended"
    <3> SUFFICES ASSUME NEW u \in Task, HasRetired(u), rank[u] < rank[t]
                 PROVE  pc[u] = "ended"
      OBVIOUS
    <3>1. HasRetired(t)
      BY <1>5 DEF JoinOlder, HasRetired
    <3>2. rank[u] >= 1 /\ rank[t] # 1
      BY DEF RankTable
    <3>3. PICK v \in toJoin[t] : TRUE
      BY <3>1, <3>2 DEF JoinTable
    <3>4. v \in Task /\ pc[v] = "ended" /\ rank[t] = rank[v] + 1 /\ HasRetired(v)
      BY <1>5, <3>3 DEF JoinOlder, CanEnd, JoinTable
    <3>5. rank[u] < rank[v] \/ rank[u] = rank[v]
      BY <3>4
    <3> QED
      BY <3>4, <3>5 DEF EndedInOrder, RankTable
  <2>6. EndedInOrder'
    BY <1>5, <2>1, <2>5 DEF JoinOlder, EndedInOrder
  <2>7. ShutdownJoinsAll' /\ WakerExists'
    BY <1>5 DEF JoinOlder, ShutdownJoinsAll, WakerExists
  <2> QED
    BY <2>2, <2>3, <2>4, <2>6, <2>7
<1>6. CASE ShutdownBegin \/ ShutdownLock \/ ShutdownWait \/ SpuriousWakeup
  <2> USE <1>6 DEF ShutdownBegin, ShutdownLock, ShutdownWait, SpuriousWakeup,
                   WaitOver
  <2>1. \A u \in Task : HasRetired(u)' = HasRetired(u) /\ Working(u)' = Working(u)
    BY DEF HasRetired, Working
  <2>2. TypeOK' /\ ShutdownTable'
    <3>1. CASE ShutdownBegin
      BY <3>1
    <3>2. CASE ShutdownLock
      BY <3>2
    <3>3. CASE ShutdownWait
      BY <3>3
    <3>4. CASE SpuriousWakeup
      BY <3>4
    <3> QED
      BY <3>1, <3>2, <3>3, <3>4, Zenon
  <2>3. RankTable'
    BY <2>1 DEF RankTable
  <2>4. JoinTable'
    BY <2>1 DEF JoinTable
  <2>5. EndedInOrder'
    BY <2>1 DEF EndedInOrder
  <2>6. ShutdownJoinsAll' /\ WakerExists'
    BY DEF ShutdownJoinsAll, WakerExists, RankTable, Working
  <2> QED
    BY <2>2, <2>3, <2>4, <2>5, <2>6
<1>7. CASE ShutdownJoin
  <2>1. \A u \in Task : HasRetired(u)' = HasRetired(u) /\ Working(u)' = Working(u)
    BY <1>7 DEF ShutdownJoin, HasRetired, Working
  <2>2. TypeOK' /\ ShutdownTable' /\ WakerExists'
    BY <1>7 DEF ShutdownJoin, WakerExists
  <2>3. RankTable' /\ EndedInOrder'
    BY <1>7, <2>1 DEF ShutdownJoin, RankTable, EndedInOrder
  <2>4. JoinTable'
    BY <1>7, <2>1 DEF ShutdownJoin, JoinTable
  <2>5. ASSUME NEW t \in Task PROVE pc[t] \in {"none", "rejected", "ended"}
    <3>1. ~Working(t)
      BY <1>7 DEF ShutdownJoin, RankTable
    <3>2. CASE HasRetired(t)
      <4>1. retired # 0 /\ rank[t] \in 1..retired
        BY <3>2 DEF RankTable
      <4>2. PICK v \in lastRetired : TRUE
        BY <1>7, <4>1 DEF ShutdownJoin, JoinTable
      <4>3. v \in Task /\ pc[v] = "ended" /\ rank[v] = retired
        BY <1>7, <4>2 DEF ShutdownJoin, JoinTable
      <4>4. rank[t] < rank[v] \/ rank[t] = rank[v]
        BY <4>1, <4>3
      <4> QED
        BY <3>2, <4>3, <4>4 DEF EndedInOrder, RankTable
    <3> QED
      BY <3>1, <3>2 DEF Working, HasRetired
  <2>6. ShutdownJoinsAll'
    BY <1>7, <2>5 DEF ShutdownJoin, ShutdownJoinsAll
  <2> QED
    BY <2>2, <2>3, <2>4, <2>6
<1>8. CASE Finished \/ UNCHANGED vars
  BY <1>8 DEF Finished, vars, RankTable, JoinTable, EndedInOrder,
              ShutdownJoinsAll, WakerExists, Working, HasRetired
<1> QED
  BY <1>1, <1>2, <1>3, <1>4, <1>5, <1>6, <1>7, <1>8
     DEF Next, ThreadStep, ShutdownStep

(* The inductive invariant holds in every reachable state.                   *)
THEOREM Invariance == Spec => []IInv
BY InitIInv, NextIInv, PTL DEF Spec

(* When Thread::shutdown has returned, every thread the executor ever made   *)
(* has ended, however many there were and in whatever order they retired.    *)
THEOREM ShutdownIsComplete == Spec => []ShutdownJoinsAll
<1>1. IInv => ShutdownJoinsAll
  BY DEF IInv
<1> QED
  BY <1>1, Invariance, PTL

(* The asserts of ~Thread() hold after shutdown.                             *)
THEOREM Destructor == Spec => []DestructorAsserts
<1>1. IInv => DestructorAsserts
  BY DEF IInv, DestructorAsserts, ShutdownTable
<1> QED
  BY <1>1, Invariance, PTL

(* The asserts on the size of last_retired_ hold in shutdown and in every    *)
(* retire_worker.                                                            *)
THEOREM AtMostOneRetired == Spec => []OneRetired
<1>1. IInv => OneRetired
  BY DEF IInv, TypeOK, OneRetired, RankTable, JoinTable
<1> QED
  BY <1>1, Invariance, PTL

(* No thread is joined twice.                                                *)
THEOREM EachJoinedOnce == Spec => []JoinedOnce
<1>1. IInv => JoinedOnce
  <2> SUFFICES ASSUME IInv PROVE JoinedOnce
    OBVIOUS
  <2> USE DEF IInv, TypeOK
  <2>1. ASSUME NEW t \in Task, NEW u \in Task, NEW v \in toJoin[t] \cap toJoin[u]
        PROVE  t = u
    <3>1. v \in Task /\ HasRetired(t) /\ rank[t] = rank[v] + 1 /\ rank[u] = rank[v] + 1
      BY <2>1 DEF JoinTable
    <3> QED
      BY <3>1 DEF RankTable
  <2>2. ASSUME NEW t \in Task, NEW v \in toJoin[t] \cap lastRetired
        PROVE  FALSE
    BY <2>2 DEF JoinTable, RankTable
  <2> QED
    BY <2>1, <2>2 DEF JoinedOnce
<1> QED
  BY <1>1, Invariance, PTL

(* shutdown never sleeps when no thread is left to wake it.                  *)
THEOREM NoLostWakeup == Spec => []WakerExists
<1>1. IInv => WakerExists
  BY DEF IInv
<1> QED
  BY <1>1, Invariance, PTL


-----------------------------------------------------------------------------
(* The type-erased Task that the executors run.                              *)

CONSTANTS Erasures, Callables, KindOf, Null

Kinds == {"coroutine", "via", "inline", "heap", "trivial"}

(* Every callable has one of the vtables of task.h; Null is none of them.    *)
ASSUME ErasureAssumption ==
  KindOf \in [Callables -> Kinds] /\ Null \notin Callables /\ Null \notin Kinds

VARIABLES vtable, buffer, made, erasedCalled, ended, leaked

Erased == INSTANCE Task WITH Tasks <- Erasures, called <- erasedCalled

(* A callable is called at most once and what it owns released once, however *)
(* Tasks are moved, cleared and invoked (concurrency/task.h).                *)
CallableOnce == Erased!TypeOK /\ Erased!CallableOnce

Holds(t, c) == vtable[t] # Null /\ buffer[t] = c
Held(c) == \E t \in Erasures : Holds(t, c)

ErasedTypes ==
  /\ vtable \in [Erasures -> Kinds \cup {Null}]
  /\ buffer \in [Erasures -> Callables \cup {Null}]
  /\ made \subseteq Callables /\ leaked \subseteq Callables
  /\ erasedCalled \in [Callables -> Nat] /\ ended \in [Callables -> Nat]

(* What has become of a callable, from its counts alone.                     *)
Untouched(c) == erasedCalled[c] = 0 /\ ended[c] = 0 /\ c \notin leaked

Settled(c) ==
  CASE KindOf[c] \in {"coroutine", "via"} -> erasedCalled[c] + ended[c] = 1
    [] KindOf[c] = "trivial" -> erasedCalled[c] <= 1
    [] OTHER -> /\ erasedCalled[c] <= 1
                /\ ended[c] + (IF c \in leaked THEN 1 ELSE 0) = 1

(* A callable is in no two Tasks; one that is in a Task, or was never given  *)
(* to one, is untouched, and one that has left its Task is settled.          *)
ErasedInv ==
  /\ ErasedTypes /\ Erased!TypeOK
  /\ \A c \in Callables : \A t, u \in Erasures : Holds(t, c) /\ Holds(u, c) => t = u
  /\ \A c \in Callables : c \notin made \/ Held(c) => Untouched(c)
  /\ \A c \in made : Held(c) \/ Settled(c)

(* Nothing has been given to a Task.                                         *)
LEMMA ErasedInitial == Erased!Init => ErasedInv
  BY ErasureAssumption DEF Erased!Init, ErasedInv, ErasedTypes, Erased!TypeOK, Holds, Held, Untouched

(* Releasing what a Task holds settles the callable, and touches no other.   *)
LEMMA ClearedSettles ==
  ASSUME ErasedInv, NEW t \in Erasures
  PROVE  /\ Erased!Cleared(t) \in [Callables -> Nat]
         /\ \A c \in Callables : ~Holds(t, c) => Erased!Cleared(t)[c] = ended[c]
         /\ \A c \in Callables : Holds(t, c) =>
              Erased!Cleared(t)[c] = IF KindOf[c] = "trivial" THEN 0 ELSE 1
<1>1. CASE vtable[t] = Null
  BY <1>1 DEF Erased!Cleared, ErasedInv, ErasedTypes, Holds
<1>2. CASE vtable[t] # Null
  <2>1. buffer[t] \in Callables /\ buffer[t] # Null /\ ended[buffer[t]] = 0
    BY <1>2, ErasureAssumption DEF ErasedInv, ErasedTypes, Erased!TypeOK, Held, Holds, Untouched
  <2>2. Erased!Cleared(t) = IF KindOf[buffer[t]] = "trivial" THEN ended
                            ELSE [ended EXCEPT ![buffer[t]] = @ + 1]
    BY <1>2, <2>1 DEF Erased!Cleared, Erased!Release
  <2> QED
    BY <1>2, <2>1, <2>2 DEF ErasedInv, ErasedTypes, Holds
<1> QED
  BY <1>1, <1>2

(* A Task is emptied: its callable is settled and the others are as before.  *)
LEMMA EmptiedInv ==
  ASSUME ErasedInv, NEW t \in Erasures,
         vtable' = [vtable EXCEPT ![t] = Null], buffer' = buffer, made' = made,
         leaked' \subseteq Callables,
         erasedCalled' \in [Callables -> Nat], ended' \in [Callables -> Nat],
         \A c \in Callables : ~Holds(t, c) =>
           /\ erasedCalled'[c] = erasedCalled[c] /\ ended'[c] = ended[c]
           /\ c \in leaked' <=> c \in leaked,
         \A c \in Callables : Holds(t, c) => Settled(c)'
  PROVE  ErasedInv'
<1>1. \A x \in Erasures : \A c : Holds(x, c)' <=> x # t /\ Holds(x, c)
  BY DEF ErasedInv, ErasedTypes, Holds
<1>2. \A c \in Callables : Holds(t, c) => ~Held(c)'
  BY <1>1 DEF ErasedInv, Held, Holds
<1>3. \A c : ~Holds(t, c) => (Held(c)' <=> Held(c))
  BY <1>1 DEF Held
<1>4. ErasedTypes' /\ Erased!TypeOK'
  BY <1>1, ErasureAssumption DEF ErasedInv, ErasedTypes, Erased!TypeOK
<1>5. \A c \in Callables : \A x, u \in Erasures : Holds(x, c)' /\ Holds(u, c)' => x = u
  BY <1>1 DEF ErasedInv
<1>6. ASSUME NEW c \in Callables PROVE (c \notin made \/ Held(c)') => Untouched(c)'
  <2>1. c \notin made => ~Holds(t, c)
    BY DEF ErasedInv, Erased!TypeOK, Holds
  <2> QED
    BY <2>1, <1>2, <1>3 DEF ErasedInv, Untouched
<1>7. ASSUME NEW c \in made PROVE Held(c)' \/ Settled(c)'
  <2>1. CASE Holds(t, c)
    BY <2>1 DEF ErasedInv, ErasedTypes
  <2>2. CASE ~Holds(t, c)
    BY <2>2, <1>3 DEF ErasedInv, ErasedTypes, Settled
  <2> QED
    BY <2>1, <2>2
<1> QED
  BY <1>4, <1>5, <1>6, <1>7 DEF ErasedInv

(* A callable is constructed in an empty Task.                               *)
LEMMA BuildInv ==
  ASSUME ErasedInv, NEW t \in Erasures, NEW c \in Callables, Erased!Build(t, c)
  PROVE  ErasedInv'
<1>1. /\ vtable[t] = Null /\ c \notin made /\ made' = made \cup {c}
      /\ vtable' = [vtable EXCEPT ![t] = KindOf[c]] /\ buffer' = [buffer EXCEPT ![t] = c]
      /\ erasedCalled' = erasedCalled /\ ended' = ended /\ leaked' = leaked
  BY DEF Erased!Build
<1>2. KindOf[c] \in Kinds /\ KindOf[c] # Null
  BY ErasureAssumption
<1>3. \A x \in Erasures : \A d : Holds(x, d)' <=> (x = t /\ d = c) \/ Holds(x, d)
  BY <1>1, <1>2 DEF ErasedInv, ErasedTypes, Holds
<1>4. ~Held(c)
  BY <1>1 DEF ErasedInv, Erased!TypeOK, Held, Holds
<1>5. \A d : Held(d)' <=> d = c \/ Held(d)
  BY <1>3 DEF Held
<1>6. ErasedTypes' /\ Erased!TypeOK'
  BY <1>1, <1>2 DEF ErasedInv, ErasedTypes, Erased!TypeOK
<1>7. \A d \in Callables : \A x, u \in Erasures : Holds(x, d)' /\ Holds(u, d)' => x = u
  BY <1>3, <1>4 DEF ErasedInv, Held
<1>8. \A d \in Callables : d \notin made' \/ Held(d)' => Untouched(d)'
  BY <1>1, <1>5 DEF ErasedInv, Untouched
<1>9. \A d \in made' : Held(d)' \/ Settled(d)'
  BY <1>1, <1>5 DEF ErasedInv, Settled
<1> QED
  BY <1>6, <1>7, <1>8, <1>9 DEF ErasedInv

(* ~Task, and an assignment from an empty Task.                              *)
LEMMA ClearInv ==
  ASSUME ErasedInv, NEW t \in Erasures,
         vtable' = [vtable EXCEPT ![t] = Null], ended' = Erased!Cleared(t),
         UNCHANGED <<buffer, made, erasedCalled, leaked>>
  PROVE  ErasedInv'
<1>1. ASSUME NEW c \in Callables, Holds(t, c) PROVE Settled(c)'
  <2>1. Untouched(c) /\ KindOf[c] \in Kinds
    BY <1>1, ErasureAssumption DEF ErasedInv, Held
  <2>2. ended'[c] = IF KindOf[c] = "trivial" THEN 0 ELSE 1
    BY <1>1, ClearedSettles
  <2> QED
    BY <2>1, <2>2 DEF Settled, Untouched, Kinds
<1>2. erasedCalled' \in [Callables -> Nat] /\ leaked' \subseteq Callables
  BY DEF ErasedInv, ErasedTypes
<1>3. ended' \in [Callables -> Nat] /\ \A c \in Callables : ~Holds(t, c) => ended'[c] = ended[c]
  BY ClearedSettles
<1> QED
  BY <1>1, <1>2, <1>3, EmptiedInv, Zenon

(* The callable of u moves to t, whose own is destroyed.                     *)
LEMMA MoveInv ==
  ASSUME ErasedInv, NEW t \in Erasures, NEW u \in Erasures, t # u, vtable[u] # Null,
         Erased!Assign(t, u)
  PROVE  ErasedInv'
<1>1. /\ vtable' = [vtable EXCEPT ![t] = vtable[u], ![u] = Null]
      /\ buffer' = [buffer EXCEPT ![t] = buffer[u], ![u] = Null]
      /\ ended' = Erased!Cleared(t)
      /\ made' = made /\ erasedCalled' = erasedCalled /\ leaked' = leaked
  BY DEF Erased!Assign, Erased!MovedFrom, Erased!Release
<1>2. ended' \in [Callables -> Nat]
      /\ \A c \in Callables : ended'[c] = IF Holds(t, c) THEN IF KindOf[c] = "trivial" THEN 0 ELSE 1 ELSE ended[c]
  BY <1>1, ClearedSettles
<1>3. \A x \in Erasures : \A c :
        Holds(x, c)' <=> (x = t /\ Holds(u, c)) \/ (x # t /\ x # u /\ Holds(x, c))
  BY <1>1 DEF ErasedInv, ErasedTypes, Holds
<1>4. \A c \in Callables : Holds(t, c) => ~Held(c)'
  BY <1>3 DEF ErasedInv, Held, Holds
<1>5. \A c : ~Holds(t, c) => (Held(c)' <=> Held(c))
  BY <1>3 DEF Held
<1>6. ErasedTypes' /\ Erased!TypeOK'
  <2>1. ErasedTypes'
    BY <1>1, <1>2 DEF ErasedInv, ErasedTypes
  <2> QED
    BY <2>1, <1>1, ErasureAssumption DEF ErasedInv, ErasedTypes, Erased!TypeOK
<1>7. \A c \in Callables : \A x, y \in Erasures : Holds(x, c)' /\ Holds(y, c)' => x = y
  BY <1>3 DEF ErasedInv
<1>8. ASSUME NEW c \in Callables, c \notin made \/ Held(c)' PROVE Untouched(c)'
  <2>1. ~Holds(t, c)
    BY <1>4, <1>8 DEF ErasedInv, Erased!TypeOK, Holds
  <2> QED
    BY <1>1, <1>2, <1>5, <1>8, <2>1 DEF ErasedInv, Untouched
<1>9. ASSUME NEW c \in made PROVE Held(c)' \/ Settled(c)'
  <2>1. c \in Callables /\ KindOf[c] \in Kinds
    BY ErasureAssumption DEF ErasedInv, ErasedTypes
  <2>2. CASE Holds(t, c)
    <3>1. Untouched(c)
      BY <2>1, <2>2 DEF ErasedInv, Held
    <3> QED
      BY <1>1, <1>2, <2>1, <2>2, <3>1 DEF Settled, Untouched, Kinds
  <2>3. CASE ~Holds(t, c)
    BY <1>1, <1>2, <1>5, <2>1, <2>3 DEF ErasedInv, Settled
  <2> QED
    BY <2>2, <2>3
<1> QED
  BY <1>1, <1>6, <1>7, <1>8, <1>9 DEF ErasedInv

(* The Task is called: it gives its callable away before the call.           *)
LEMMA InvokeInv ==
  ASSUME ErasedInv, NEW t \in Erasures, Erased!Invoke(t) \/ Erased!InvokeThrows(t)
  PROVE  ErasedInv'
<1>1. vtable[t] # Null
  BY ErasureAssumption DEF Erased!Invoke, Erased!InvokeThrows, Kinds
<1>0. PICK c \in Callables : c = buffer[t]
  BY <1>1 DEF ErasedInv, ErasedTypes, Erased!TypeOK
<1>2. /\ c \in Callables /\ c \in made /\ KindOf[c] = vtable[t] /\ c # Null
      /\ KindOf[c] \in Kinds /\ Untouched(c)
  BY <1>0, <1>1, ErasureAssumption DEF ErasedInv, ErasedTypes, Erased!TypeOK, Held, Holds
<1>3. \A d \in Callables : Holds(t, d) <=> d = c
  BY <1>0, <1>1 DEF Holds
<1>4. /\ erasedCalled \in [Callables -> Nat] /\ ended \in [Callables -> Nat] /\ leaked \subseteq Callables
  BY DEF ErasedInv, ErasedTypes
<1>5. CASE Erased!Invoke(t)
  <2>1. /\ vtable' = [vtable EXCEPT ![t] = Null] /\ erasedCalled' = [erasedCalled EXCEPT ![c] = @ + 1]
        /\ ended' = IF KindOf[c] \in {"coroutine", "via"} THEN ended ELSE Erased!Release(ended, c)
        /\ buffer' = buffer /\ made' = made /\ leaked' = leaked
    BY <1>0, <1>5 DEF Erased!Invoke, Erased!OwesNothing
  <2>2. ended' = IF KindOf[c] \in {"coroutine", "via", "trivial"} THEN ended ELSE [ended EXCEPT ![c] = @ + 1]
    BY <1>2, <2>1 DEF Erased!Release
  <2>3. /\ erasedCalled' \in [Callables -> Nat] /\ ended' \in [Callables -> Nat]
        /\ \A d \in Callables : d # c => erasedCalled'[d] = erasedCalled[d] /\ ended'[d] = ended[d]
        /\ erasedCalled'[c] = 1
        /\ ended'[c] = IF KindOf[c] \in {"coroutine", "via", "trivial"} THEN 0 ELSE 1
    BY <1>2, <1>4, <2>1, <2>2 DEF Untouched
  <2>4. Settled(c)'
    BY <1>2, <2>1, <2>3 DEF Settled, Untouched, Kinds
  <2> QED
    BY <1>3, <1>4, <2>1, <2>3, <2>4, EmptiedInv, Zenon
<1>6. CASE Erased!InvokeThrows(t)
  <2>1. /\ vtable[t] \in {"inline", "heap"} /\ vtable' = [vtable EXCEPT ![t] = Null]
        /\ leaked' = leaked \cup {c} /\ buffer' = buffer /\ made' = made
        /\ erasedCalled' = erasedCalled /\ ended' = ended
    BY <1>0, <1>6 DEF Erased!InvokeThrows
  <2>2. Settled(c)'
    BY <1>2, <2>1 DEF Settled, Untouched
  <2>3. leaked' \subseteq Callables /\ \A d \in Callables : d # c => (d \in leaked' <=> d \in leaked)
    BY <1>2, <1>4, <2>1
  <2> QED
    BY <1>3, <1>4, <2>1, <2>2, <2>3, EmptiedInv, Zenon
<1> QED
  BY <1>5, <1>6

(* Every operation on Tasks keeps the invariant.                             *)
LEMMA ErasedInductive == ErasedInv /\ [Erased!Next]_(Erased!vars) => ErasedInv'
<1> SUFFICES ASSUME ErasedInv, [Erased!Next]_(Erased!vars) PROVE ErasedInv'
  OBVIOUS
<1>1. ASSUME NEW t \in Erasures, NEW c \in Callables, Erased!Build(t, c) PROVE ErasedInv'
  BY <1>1, BuildInv
<1>2. ASSUME NEW t \in Erasures, NEW u \in Erasures, Erased!Assign(t, u) PROVE ErasedInv'
  <2>1. CASE vtable[u] = Null
    BY <1>2, <2>1, ClearInv DEF Erased!Assign
  <2>2. CASE vtable[u] # Null
    BY <1>2, <2>2, MoveInv DEF Erased!Assign
  <2> QED
    BY <2>1, <2>2
<1>3. ASSUME NEW t \in Erasures, Erased!Clear(t) PROVE ErasedInv'
  BY <1>3, ClearInv, Zenon DEF Erased!Clear
<1>4. ASSUME NEW t \in Erasures, Erased!Invoke(t) \/ Erased!InvokeThrows(t) PROVE ErasedInv'
  BY <1>4, InvokeInv
<1>5. CASE UNCHANGED Erased!vars
  BY <1>5 DEF Erased!vars, ErasedInv, ErasedTypes, Erased!TypeOK, Holds, Held, Untouched, Settled
<1> QED
  BY <1>1, <1>2, <1>3, <1>4, <1>5, Zenon DEF Erased!Next

(* The invariant says what CallableOnce says.                                *)
LEMMA ErasedOnce == ErasedInv => CallableOnce
<1> SUFFICES ASSUME ErasedInv, NEW c \in made
             PROVE  /\ erasedCalled[c] <= 1
                    /\ IF Erased!Holders(c) # {}
                         THEN Erased!Fate(c) = 0 /\ \E t \in Erasures : Erased!Holders(c) = {t}
                         ELSE Erased!Fate(c) = 1 \/ (KindOf[c] = "trivial" /\ Erased!Fate(c) = 0)
  BY Zenon DEF CallableOnce, Erased!CallableOnce, ErasedInv
<1>1. c \in Callables /\ erasedCalled[c] \in Nat /\ ended[c] \in Nat /\ KindOf[c] \in Kinds
  BY ErasureAssumption DEF ErasedInv, ErasedTypes
<1>3. Erased!Holders(c) # {} <=> Held(c)
  BY DEF Erased!Holders, Held, Holds
<1>4. CASE Held(c)
  <2>1. PICK t \in Erasures : Holds(t, c)
    BY <1>4 DEF Held
  <2>2. Erased!Holders(c) = {t}
    BY <1>1, <2>1 DEF ErasedInv, Holds, Erased!Holders
  <2>4. Untouched(c)
    BY <1>1, <1>4 DEF ErasedInv
  <2> QED
    BY <1>1, <1>3, <1>4, <2>2, <2>4 DEF Untouched, Erased!Fate
<1>5. CASE ~Held(c)
  <2>1. Settled(c)
    BY <1>5 DEF ErasedInv
  <2> QED
    BY <1>1, <1>3, <1>5, <2>1 DEF Settled, Kinds, Erased!OwesNothing, Erased!Fate
<1> QED
  BY <1>4, <1>5

(* However Tasks of any number are built, moved, assigned, called and        *)
(* destroyed, and whatever kinds of callables they hold: a callable is in one*)
(* Task until it is called, destroyed or throws, and never again.            *)
THEOREM TaskSafety == Erased!Spec => []CallableOnce
<1> QED
  BY ErasedInitial, ErasedInductive, ErasedOnce, PTL DEF Erased!Spec

-----------------------------------------------------------------------------
(* The thread pool of sys.                                                   *)

CONSTANTS Works, Workers, Adders, Loopers, Returns, NoTask

(* A pool has threads: one made without any never runs a task.               *)
ASSUME SomeWorker == Workers # {}

VARIABLES sysQueue, stop, worker, task, adder, accepted, sysRan, destroyer,
          looper, status, taken, rounds, told

Sys == INSTANCE Threads WITH Tasks <- Works, queue <- sysQueue, ran <- sysRan

SysTypes ==
  /\ sysQueue \in Seq(Works) /\ stop \in BOOLEAN
  /\ worker \in [Workers -> {"lock", "waiting", "run", "ended"}]
  /\ task \in [Workers -> Works \cup {NoTask}]
  /\ accepted \subseteq Works /\ sysRan \in [Works -> Nat]

(* Where an accepted task is before its run is over.                         *)
QueuedAt(k, t) == k \in 1..Len(sysQueue) /\ sysQueue[k] = t
RunBy(w, t) == worker[w] = "run" /\ task[w] = t
Waits(t) == (\E k \in Nat : QueuedAt(k, t)) \/ \E w \in Workers : RunBy(w, t)

(* A task is in one place: once in the queue, or with one worker.            *)
OnePlace(t) ==
  /\ \A k, m \in Nat : QueuedAt(k, t) /\ QueuedAt(m, t) => k = m
  /\ \A v, w \in Workers : RunBy(v, t) /\ RunBy(w, t) => v = w
  /\ \A k \in Nat, w \in Workers : ~(QueuedAt(k, t) /\ RunBy(w, t))

(* What is in a place was accepted and has not run; what was accepted and is *)
(* in no place has run once.  A worker ends only when the pool is stopped    *)
(* and its queue empty, which it stays.                                      *)
SysInv ==
  /\ SysTypes
  /\ \A w \in Workers : worker[w] = "run" => task[w] \in Works
  /\ \A t \in Works : OnePlace(t)
  /\ \A t \in Works : Waits(t) => t \in accepted /\ sysRan[t] = 0
  /\ \A t \in Works : t \notin accepted => sysRan[t] = 0
  /\ \A t \in accepted : Waits(t) \/ sysRan[t] = 1
  /\ \A w \in Workers : worker[w] = "ended" => stop /\ sysQueue = <<>>
  /\ destroyer = "done" => \A w \in Workers : worker[w] = "ended"

(* Nothing was accepted.                                                     *)
LEMMA SysInitial == Sys!Init => SysInv
<1> SUFFICES ASSUME Sys!Init PROVE SysInv
  OBVIOUS
<1>1. SysTypes /\ sysQueue = <<>> /\ accepted = {}
  <2>1. sysQueue = <<>> /\ <<>> \in Seq(Works)
    BY DEF Sys!Init
  <2> QED
    BY <2>1, Zenon DEF Sys!Init, SysTypes
<1>2. \A w \in Workers : worker[w] = "lock"
  BY DEF Sys!Init
<1>3. \A t : (\A k : ~QueuedAt(k, t)) /\ \A w \in Workers : ~RunBy(w, t)
  BY <1>1, <1>2 DEF QueuedAt, RunBy
<1>4. \A t \in Works : OnePlace(t) /\ ~Waits(t) /\ sysRan[t] = 0
  <2>1. \A t \in Works : sysRan[t] = 0
    BY DEF Sys!Init
  <2> QED
    BY <2>1, <1>3, Zenon DEF OnePlace, Waits
<1> QED
  BY <1>1, <1>2, <1>4 DEF SysInv, Sys!Init

(* Workers are woken, wait or end, or the destructor goes on.                *)
LEMMA SysQuietInv ==
  ASSUME SysInv,
         UNCHANGED <<sysQueue, task, accepted, sysRan>>,
         stop' \in BOOLEAN, stop => stop',
         worker' \in [Workers -> {"lock", "waiting", "run", "ended"}],
         \A w \in Workers : worker'[w] = "run" <=> worker[w] = "run",
         \A w \in Workers : worker'[w] = "ended" =>
           worker[w] = "ended" \/ (stop /\ sysQueue = <<>>),
         destroyer' = "done" => \A w \in Workers : worker'[w] = "ended"
  PROVE  SysInv'
<1>1. \A t : (\A k : QueuedAt(k, t)' <=> QueuedAt(k, t))
             /\ \A w \in Workers : RunBy(w, t)' <=> RunBy(w, t)
  BY DEF QueuedAt, RunBy
<1>2. \A t : Waits(t)' <=> Waits(t)
  BY <1>1 DEF Waits
<1>3. \A t \in Works : OnePlace(t)'
  BY <1>1 DEF SysInv, OnePlace
<1>4. SysTypes'
  BY DEF SysInv, SysTypes
<1> QED
  BY <1>2, <1>3, <1>4 DEF SysInv

(* A task is accepted, and perhaps a worker woken.                           *)
LEMMA SysAddInv ==
  ASSUME SysInv, ~stop, NEW t \in Works \ accepted,
         accepted' = accepted \cup {t}, sysQueue' = Append(sysQueue, t),
         UNCHANGED <<stop, task, sysRan, destroyer>>,
         worker' \in [Workers -> {"lock", "waiting", "run", "ended"}],
         \A w \in Workers : worker'[w] = worker[w] \/ (worker[w] = "waiting" /\ worker'[w] = "lock")
  PROVE  SysInv'
<1>1. SysTypes'
  BY DEF SysInv, SysTypes
<1>2. \A k \in Nat : \A u : QueuedAt(k, u)' <=> QueuedAt(k, u) \/ (k = Len(sysQueue) + 1 /\ u = t)
  BY DEF QueuedAt, SysInv, SysTypes
<1>3. \A w \in Workers : \A u : RunBy(w, u)' <=> RunBy(w, u)
  BY DEF RunBy
<1>4. ~Waits(t) /\ sysRan[t] = 0
  BY DEF SysInv
<1>5. Len(sysQueue) + 1 \in Nat
  BY DEF SysInv, SysTypes
<1>6. \A u : Waits(u)' <=> Waits(u) \/ u = t
  BY <1>2, <1>3, <1>5 DEF Waits
<1>7. ASSUME NEW u \in Works PROVE OnePlace(u)'
  <2>1. OnePlace(u)
    BY DEF SysInv
  <2>2. CASE u = t
    BY <2>2, <1>2, <1>3, <1>4 DEF Waits, OnePlace
  <2>3. CASE u # t
    BY <2>1, <2>3, <1>2, <1>3 DEF OnePlace
  <2> QED
    BY <2>2, <2>3
<1>8. \A w \in Workers : worker'[w] # "ended"
  BY DEF SysInv
<1>9. destroyer # "done"
  BY SomeWorker DEF SysInv
<1> QED
  BY <1>1, <1>3, <1>4, <1>6, <1>7, <1>8, <1>9 DEF SysInv, SysTypes

(* A worker takes the first task.                                            *)
LEMMA SysTakeInv ==
  ASSUME SysInv, NEW w \in Workers, worker[w] = "lock", sysQueue # <<>>,
         worker' = [worker EXCEPT ![w] = "run"],
         task' = [task EXCEPT ![w] = Head(sysQueue)], sysQueue' = Tail(sysQueue),
         UNCHANGED <<stop, accepted, sysRan, destroyer>>
  PROVE  SysInv'
<1> DEFINE h == sysQueue[1]
<1>1. /\ h \in Works /\ Head(sysQueue) = h /\ QueuedAt(1, h)
      /\ Len(sysQueue) \in Nat /\ Len(sysQueue) >= 1
      /\ Tail(sysQueue) \in Seq(Works) /\ Len(Tail(sysQueue)) = Len(sysQueue) - 1
      /\ \A k \in 1..Len(sysQueue) - 1 : Tail(sysQueue)[k] = sysQueue[k + 1]
  BY DEF SysInv, SysTypes, QueuedAt
<1>2. SysTypes'
  BY <1>1 DEF SysInv, SysTypes
<1> HIDE DEF h
<1>3. \A k \in Nat : \A u : QueuedAt(k, u)' <=> k # 0 /\ QueuedAt(k + 1, u)
  BY <1>1 DEF QueuedAt
<1>4. \A v \in Workers : \A u : RunBy(v, u)' <=> RunBy(v, u) \/ (v = w /\ u = h)
  BY <1>1 DEF RunBy, SysInv, SysTypes
<1>5. \A u : Waits(u)' <=> Waits(u)
  <2> SUFFICES ASSUME NEW u PROVE Waits(u)' <=> Waits(u)
    OBVIOUS
  <2>1. ASSUME NEW k \in Nat, QueuedAt(k, u) PROVE Waits(u)'
    <3>1. CASE k = 1
      BY <2>1, <3>1, <1>1, <1>4 DEF Waits, QueuedAt
    <3>2. CASE k # 1
      <4>1. k - 1 \in Nat /\ k - 1 # 0 /\ (k - 1) + 1 = k
        BY <2>1, <3>2, <1>1 DEF QueuedAt
      <4> QED
        BY <4>1, <2>1, <1>3, Zenon DEF Waits
    <3> QED
      BY <3>1, <3>2
  <2>2. ASSUME NEW k \in Nat, QueuedAt(k, u)' PROVE Waits(u)
    BY <2>2, <1>3 DEF Waits
  <2>3. \A v \in Workers : RunBy(v, u) => RunBy(v, u)'
    BY <1>4
  <2>4. \A v \in Workers : RunBy(v, u)' => RunBy(v, u) \/ QueuedAt(1, u)
    BY <1>1, <1>4
  <2> QED
    BY <2>1, <2>2, <2>3, <2>4 DEF Waits
<1>6. ASSUME NEW u \in Works PROVE OnePlace(u)'
  <2>1. OnePlace(u) /\ OnePlace(h)
    BY <1>1 DEF SysInv
  <2>2. \A k, m \in Nat : QueuedAt(k, u)' /\ QueuedAt(m, u)' => k = m
    BY <2>1, <1>3 DEF OnePlace
  <2>3. \A k \in Nat, v \in Workers : ~(QueuedAt(k, u)' /\ RunBy(v, u)')
    <3> SUFFICES ASSUME NEW k \in Nat, NEW v \in Workers, QueuedAt(k, u)', RunBy(v, u)'
                 PROVE  FALSE
      OBVIOUS
    <3>1. k # 0 /\ QueuedAt(k + 1, u) /\ k + 1 \in Nat /\ k + 1 # 1
      BY <1>3
    <3>2. CASE RunBy(v, u)
      BY <2>1, <3>1, <3>2 DEF OnePlace
    <3>3. CASE u = h
      BY <2>1, <3>1, <3>3, <1>1 DEF OnePlace
    <3> QED
      BY <3>2, <3>3, <1>4
  <2>4. \A v, x \in Workers : RunBy(v, u)' /\ RunBy(x, u)' => v = x
    BY <2>1, <1>1, <1>4 DEF OnePlace
  <2> QED
    BY <2>2, <2>3, <2>4 DEF OnePlace
<1>7. \A v \in Workers : worker'[v] = "run" => task'[v] \in Works
  BY <1>1 DEF SysInv, SysTypes
<1>8. \A v \in Workers : worker'[v] # "ended"
  BY DEF SysInv, SysTypes
<1>9. destroyer # "done"
  BY DEF SysInv
<1> QED
  BY <1>2, <1>5, <1>6, <1>7, <1>8, <1>9 DEF SysInv

(* A worker's task returns.                                                  *)
LEMMA SysRunInv ==
  ASSUME SysInv, NEW w \in Workers, Sys!WorkerRuns(w)
  PROVE  SysInv'
<1>h. PICK h : h = task[w]
  OBVIOUS
<1>1. /\ worker[w] = "run" /\ worker' = [worker EXCEPT ![w] = "lock"]
      /\ sysRan' = [sysRan EXCEPT ![h] = @ + 1]
      /\ UNCHANGED <<sysQueue, stop, task, accepted, destroyer>>
  BY <1>h, SMTT(30) DEF Sys!WorkerRuns
<1>2. h \in Works /\ RunBy(w, h) /\ Waits(h) /\ sysRan[h] = 0 /\ h \in accepted
  BY <1>1, <1>h DEF SysInv, RunBy, Waits
<1>3. SysTypes'
  BY <1>1, <1>2 DEF SysInv, SysTypes
<1>4. \A v \in Workers : \A u : RunBy(v, u)' <=> RunBy(v, u) /\ v # w
  BY <1>1 DEF RunBy, SysInv, SysTypes
<1>5. \A k, u : QueuedAt(k, u)' <=> QueuedAt(k, u)
  BY <1>1 DEF QueuedAt
<1>6. ~Waits(h)'
  <2>1. OnePlace(h)
    BY <1>2 DEF SysInv
  <2>2. \A k \in Nat : ~QueuedAt(k, h)'
    BY <2>1, <1>2, <1>5 DEF OnePlace
  <2>3. \A v \in Workers : ~RunBy(v, h)'
    BY <2>1, <1>2, <1>4 DEF OnePlace
  <2> QED
    BY <2>2, <2>3 DEF Waits
<1>7. \A u \in Works : u # h => (Waits(u)' <=> Waits(u)) /\ sysRan'[u] = sysRan[u]
  <2>1. \A u : RunBy(w, u) => u = h
    BY <1>2 DEF RunBy
  <2>2. \A u \in Works : u # h => sysRan'[u] = sysRan[u]
    BY <1>1, <1>2 DEF SysInv, SysTypes
  <2> QED
    BY <2>1, <2>2, <1>4, <1>5 DEF Waits
<1>8. \A u \in Works : OnePlace(u)'
  BY <1>4, <1>5, Zenon DEF SysInv, OnePlace
<1>9. sysRan'[h] = 1
  BY <1>1, <1>2 DEF SysInv, SysTypes
<1>10. /\ \A v \in Workers : worker'[v] = "run" => task'[v] \in Works
       /\ \A v \in Workers : worker'[v] = "ended" => worker[v] = "ended"
       /\ destroyer # "done"
  BY <1>1 DEF SysInv, SysTypes
<1>11. /\ \A u \in Works : Waits(u)' => u \in accepted' /\ sysRan'[u] = 0
       /\ \A u \in Works : u \notin accepted' => sysRan'[u] = 0
       /\ \A u \in accepted' : Waits(u)' \/ sysRan'[u] = 1
  <2>1. accepted' = accepted /\ accepted \subseteq Works
    BY <1>1 DEF SysInv, SysTypes
  <2>2. ASSUME NEW u \in Works, u # h
        PROVE  /\ Waits(u)' => u \in accepted /\ sysRan'[u] = 0
               /\ u \notin accepted => sysRan'[u] = 0
               /\ u \in accepted => Waits(u)' \/ sysRan'[u] = 1
    BY <1>7, <2>2 DEF SysInv
  <2> QED
    BY <2>1, <2>2, <1>2, <1>6, <1>9
<1> QED
  BY <1>1, <1>3, <1>8, <1>10, <1>11 DEF SysInv

(* Every step of the pool and of the looping threads.                        *)
LEMMA SysInductive == SysInv /\ [Sys!Next]_Sys!vars => SysInv'
<1> SUFFICES ASSUME SysInv, [Sys!Next]_Sys!vars PROVE SysInv'
  OBVIOUS
<1> DEFINE Pcs == {"lock", "waiting", "run", "ended"}
<1>0. worker \in [Workers -> Pcs] /\ stop \in BOOLEAN
  BY DEF SysInv, SysTypes
<1>1. ASSUME UNCHANGED <<sysQueue, stop, worker, task, accepted, sysRan, destroyer>>
      PROVE  SysInv'
  BY <1>1, <1>0, SysQuietInv, Zenon DEF SysInv
<1>2. ASSUME NEW a \in Adders, Sys!Enqueue(a) PROVE SysInv'
  <2>1. PICK t \in Works \ accepted :
          accepted' = accepted \cup {t} /\ sysQueue' = Append(sysQueue, t)
    BY <1>2 DEF Sys!Enqueue
  <2>2. ~stop /\ UNCHANGED <<stop, worker, task, sysRan, destroyer>>
    BY <1>2 DEF Sys!Enqueue
  <2> QED
    BY <2>1, <2>2, <1>0, SysAddInv
<1>3. ASSUME NEW a \in Adders, Sys!NotifyOne(a) PROVE SysInv'
  <2>1. UNCHANGED <<sysQueue, stop, task, accepted, sysRan, destroyer>>
    BY <1>3 DEF Sys!NotifyOne
  <2>2. /\ worker' \in [Workers -> Pcs]
        /\ \A w \in Workers : worker'[w] = worker[w] \/ (worker[w] = "waiting" /\ worker'[w] = "lock")
    BY <1>0, <1>3 DEF Sys!NotifyOne
  <2> QED
    BY <2>1, <2>2, <1>0, SysQuietInv, Zenon DEF SysInv
<1>4. ASSUME NEW w \in Workers, Sys!TaskEnqueues(w) PROVE SysInv'
  <2>1. PICK t \in Works \ accepted :
          accepted' = accepted \cup {t} /\ sysQueue' = Append(sysQueue, t)
    BY <1>4 DEF Sys!TaskEnqueues
  <2>2. ~stop /\ UNCHANGED <<stop, task, sysRan, destroyer>>
    BY <1>4 DEF Sys!TaskEnqueues
  <2>3. /\ worker' \in [Workers -> Pcs]
        /\ \A v \in Workers : worker'[v] = worker[v] \/ (worker[v] = "waiting" /\ worker'[v] = "lock")
    BY <1>0, <1>4 DEF Sys!TaskEnqueues
  <2> QED
    BY <2>1, <2>2, <2>3, SysAddInv
<1>5. ASSUME NEW w \in Workers, Sys!WorkerLocks(w) PROVE SysInv'
  <2>1. worker[w] = "lock" /\ UNCHANGED <<stop, accepted, sysRan, destroyer>>
    BY <1>5 DEF Sys!WorkerLocks
  <2>2. destroyer # "done"
    BY <2>1 DEF SysInv
  <2>3. CASE Sys!MayEnd \/ sysQueue = <<>>
    <3>1. PICK p \in {"waiting", "ended"} :
            /\ worker' = [worker EXCEPT ![w] = p] /\ UNCHANGED <<task, sysQueue>>
            /\ p = "ended" => stop /\ sysQueue = <<>>
      BY <1>5, <2>3 DEF Sys!WorkerLocks, Sys!MayEnd
    <3>2. /\ worker' \in [Workers -> Pcs]
          /\ \A v \in Workers : v # w => worker'[v] = worker[v]
          /\ worker'[w] = p
      BY <3>1, <1>0
    <3> QED
      BY <3>1, <3>2, <2>1, <2>2, <1>0, SysQuietInv
  <2>4. CASE ~Sys!MayEnd /\ sysQueue # <<>>
    BY <1>5, <2>1, <2>4, SysTakeInv DEF Sys!WorkerLocks
  <2> QED
    BY <2>3, <2>4
<1>6. CASE Sys!Stop
  BY <1>6, <1>0, SysQuietInv, Zenon DEF Sys!Stop, SysInv
<1>7. CASE Sys!WakeAll
  <2>1. /\ worker' \in [Workers -> Pcs]
        /\ \A w \in Workers : worker'[w] = worker[w] \/ (worker[w] = "waiting" /\ worker'[w] = "lock")
    BY <1>0, <1>7 DEF Sys!WakeAll, Sys!NotifyAll
  <2>2. UNCHANGED <<sysQueue, stop, task, accepted, sysRan>> /\ destroyer' # "done"
    BY <1>7 DEF Sys!WakeAll
  <2> QED
    BY <2>1, <2>2, <1>0, SysQuietInv
<1>8. CASE Sys!Join
  BY <1>8, <1>0, SysQuietInv DEF Sys!Join
<1>9. ASSUME NEW l \in Loopers, Sys!LoopStep(l) \/ Sys!OwnerStops(l) PROVE SysInv'
  BY <1>9, <1>1 DEF Sys!LoopStep, Sys!Start, Sys!CheckStopping, Sys!RunFunction,
     Sys!CheckRunning, Sys!OwnerStops, Sys!poolVars
<1>10. CASE UNCHANGED Sys!vars
  BY <1>10, <1>1 DEF Sys!vars, Sys!poolVars
<1> QED
  BY <1>2, <1>3, <1>4, <1>5, <1>6, <1>7, <1>8, <1>9, <1>10, SysRunInv
     DEF Sys!Next, Sys!WorkerStep, Sys!DestroyStep

(* The destructor of sys's ThreadPool has run every task that enqueue took,  *)
(* whichever worker or other task added it, and none of them twice.          *)
THEOREM PoolDrains == Sys!Spec => []Sys!PoolDrains
<1>1. SysInv => Sys!PoolDrains
  <2> SUFFICES ASSUME SysInv PROVE Sys!PoolDrains
    OBVIOUS
  <2>1. \A t \in Works : sysRan[t] <= 1
    BY DEF SysInv, SysTypes
  <2>2. ASSUME destroyer = "done", NEW t \in accepted PROVE sysRan[t] = 1
    <3>1. \A w \in Workers : worker[w] = "ended"
      BY <2>2 DEF SysInv
    <3>2. sysQueue = <<>>
      BY <3>1, SomeWorker DEF SysInv
    <3>3. ~Waits(t)
      BY <3>1, <3>2 DEF Waits, QueuedAt, RunBy
    <3> QED
      BY <3>3 DEF SysInv
  <2> QED
    BY <2>1, <2>2 DEF Sys!PoolDrains
<1> QED
  BY <1>1, SysInitial, SysInductive, PTL DEF Sys!Spec
=============================================================================
