-------------------------- MODULE TimerQueueProofs ---------------------------
(***************************************************************************)
(* The timer queue with any timers, due times and frequencies: no timer is *)
(* lost between its owner, the request queue, the worker and the executor, *)
(* and a one-shot callback is called or destroyed, once.                   *)
(*                                                                         *)
(* TimersSafe is not inductive.  TimerInv adds what the worker thread and  *)
(* shutdown() know of each other (ThreadInv), which requests an owner can  *)
(* have made (OwnerInv), and that a one-shot timer is in exactly one of    *)
(* the places it passes through (PlaceInv).                                *)
(***************************************************************************)
EXTENDS TimerQueue, TLAPS, WellFoundedInduction, NaturalsInduction

Add(t) == [op |-> "Add", timer |-> t]
Remove(t) == [op |-> "Remove", timer |-> t]

Removed(q) == {t \in Timer : \E i \in DOMAIN q : q[i] = Remove(t)}

(* The timer is in the request queue or in the worker's set.                 *)
Waits(t) == t \in Added(requests) \/ t \in active

(* The worker's thread, its set and its callback in hand; what shutdown() has *)
(* done so far, and that nothing is added once abort is set.                 *)
ThreadInv ==
  /\ idle <=> wpc = "none"
  /\ ~hasWorker /\ ~abort => idle
  /\ idle => Added(requests) = {}
  /\ wpc \in {"none", "ended"} => active = {}
  /\ wpc \in {"posting", "terminated"} \/ posting = {}
  /\ wpc = "ended" => abort
  /\ abort <=> spc \in {"notify", "join", "done"}
  /\ abort => Added(requests) = {}
  /\ spc = "done" => wpc \in {"none", "ended"}

(* A timer that nobody made is nowhere; only a cancelled timer is removed,   *)
(* and then the removal is behind everything that could bring it back.  A    *)
(* timer that is not cancelled waits, unless it is a one-shot timer.         *)
OwnerInv ==
  \A t \in Timer :
    /\ cancelled[t] <=> handle[t] \in {"cancelling", "gone"}
    /\ handle[t] \in {"none", "refused"} => ~Waits(t)
    /\ t \in Removed(requests) => handle[t] = "gone"
    /\ t \in Added(requests) => t \notin active
    /\ ~abort /\ handle[t] = "gone" => t \notin Applied(active, requests)
    /\ ~abort /\ t \notin OneShot /\ handle[t] \in {"held", "awaited"} => Waits(t)

(* A one-shot timer that was made and not cancelled is in exactly one of the  *)
(* request queue or the worker's set, the worker's hand, the executor's      *)
(* queue, the calls made, and the callbacks destroyed.                       *)
PlaceInv ==
  \A t \in OneShot :
    /\ posted[t] + runs[t] + (IF t \in dropped THEN 1 ELSE 0)
         + (IF t \in posting THEN 1 ELSE 0) + (IF Waits(t) THEN 1 ELSE 0) <= 1
    /\ handle[t] \in {"none", "refused"} =>
         posted[t] + runs[t] = 0 /\ t \notin posting \cup dropped
    /\ handle[t] \in {"held", "awaited"} =>
         posted[t] + runs[t] = 1 \/ t \in posting \cup dropped \/ Waits(t)

TimerInv == TypeOK /\ ThreadInv /\ OwnerInv /\ PlaceInv

Request == [op : {"Add", "Remove"}, timer : Timer]

-----------------------------------------------------------------------------
(* Appending a request adds its timer to those the queue adds, or does not.  *)
LEMMA AddedAppend ==
  ASSUME NEW q \in Seq(Request), NEW t \in Timer
  PROVE  /\ Added(Append(q, Add(t))) = Added(q) \cup {t}
         /\ Added(Append(q, Remove(t))) = Added(q)
         /\ Removed(Append(q, Add(t))) = Removed(q)
         /\ Removed(Append(q, Remove(t))) = Removed(q) \cup {t}
<1>1. \A r \in Request : DOMAIN Append(q, r) = DOMAIN q \cup {Len(q) + 1}
        /\ Append(q, r)[Len(q) + 1] = r
        /\ \A i \in DOMAIN q : Append(q, r)[i] = q[i]
  OBVIOUS
<1>2. Add(t) \in Request /\ Remove(t) \in Request
  BY DEF Add, Remove, Request
<1>3. Added(Append(q, Add(t))) = Added(q) \cup {t}
  BY <1>1, <1>2 DEF Added, Add
<1>4. Added(Append(q, Remove(t))) = Added(q)
  BY <1>1, <1>2 DEF Added, Add, Remove
<1>5. Removed(Append(q, Add(t))) = Removed(q)
  BY <1>1, <1>2 DEF Removed, Add, Remove
<1>6. Removed(Append(q, Remove(t))) = Removed(q) \cup {t}
  BY <1>1, <1>2 DEF Removed, Remove
<1>7. QED
  BY <1>3, <1>4, <1>5, <1>6

(* What the worker's set becomes when the requests are applied: an appended  *)
(* request has the last word on its timer.                                   *)
LEMMA AppliedAppend ==
  ASSUME NEW q \in Seq(Request), NEW t \in Timer, NEW S
  PROVE  /\ Applied(S, Append(q, Add(t))) = Applied(S, q) \cup {t}
         /\ Applied(S, Append(q, Remove(t))) = Applied(S, q) \ {t}
<1>1. \A r \in Request : DOMAIN Append(q, r) = DOMAIN q \cup {Len(q) + 1}
        /\ Append(q, r)[Len(q) + 1] = r
        /\ \A i \in DOMAIN q : Append(q, r)[i] = q[i] /\ i \in Nat /\ 0 < i /\ i < Len(q) + 1
  OBVIOUS
<1>2. Add(t) \in Request /\ Remove(t) \in Request
  BY DEF Add, Remove, Request
<1>3. Applied(S, Append(q, Add(t))) = Applied(S, q) \cup {t}
  BY <1>1, <1>2 DEF Applied, Add
<1>4. Applied(S, Append(q, Remove(t))) = Applied(S, q) \ {t}
  BY <1>1, <1>2 DEF Applied, Remove
<1>5. QED
  BY <1>3, <1>4

(* Without a request the set stays; applying requests brings nothing but     *)
(* what they add, and takes nothing but what they remove.                    *)
LEMMA AppliedFacts ==
  ASSUME NEW q \in Seq(Request), NEW S \in SUBSET Timer
  PROVE  /\ Added(<<>>) = {} /\ Removed(<<>>) = {}
         /\ Applied(S, <<>>) = S
         /\ Applied(S, q) \subseteq S \cup Added(q)
         /\ \A t \in S \cup Added(q) : t \notin Removed(q) => t \in Applied(S, q)
         /\ \A T \in SUBSET S : Applied(T, q) \subseteq Applied(S, q)
         /\ Applied({}, <<>>) = {}
<1>1. Added(<<>>) = {} /\ Removed(<<>>) = {} /\ Applied(S, <<>>) = S /\ Applied({}, <<>>) = {}
  BY DEF Added, Applied, Removed
<1>2. Applied(S, q) \subseteq S \cup Added(q)
  BY DEF Added, Applied, Add
<1>3. \A t \in S \cup Added(q) : t \notin Removed(q) => t \in Applied(S, q)
  BY DEF Added, Applied, Add, Remove, Removed
<1>4. \A T \in SUBSET S : Applied(T, q) \subseteq Applied(S, q)
  BY DEF Applied
<1>5. QED
  BY <1>1, <1>2, <1>3, <1>4

(* The earliest deadline is a time.                                          *)
LEMMA EarliestNat ==
  ASSUME TypeOK, NEW S \in SUBSET Timer, S # {}
  PROVE  Earliest(S) \in Nat
<1> DEFINE D == {deadline[t] : t \in S}
<1>1. D \subseteq Nat /\ D # {}
  BY DEF TypeOK
<1>2. PICK x \in D : \A y \in D : ~(<<y, x>> \in OpToRel(<, Nat))
  BY <1>1, NatLessThanWellFounded, WFMin, Zenon
<1>3. \A y \in D : x <= y
  <2> TAKE y \in D
  <2> HIDE DEF D
  <2>1. x \in Nat /\ y \in Nat
    BY <1>1
  <2>2. ~(y < x)
    BY <1>2, <2>1, Zenon DEF OpToRel
  <2>3. QED
    BY <2>1, <2>2
<1>4. Min(D) \in D
  BY <1>3 DEF Min
<1>5. QED
  BY <1>1, <1>4 DEF Earliest

(* The invariant at the beginning.                                           *)
LEMMA InitInv == Init => TimerInv
<1> SUFFICES ASSUME Init PROVE TimerInv
  OBVIOUS
<1>1. TypeOK
  <2>1. requests \in Seq([op : {"Add", "Remove"}, timer : Timer])
    BY DEF Init
  <2>2. now \in 0..MaxTime /\ next \in Nat /\ seen \in 0..now /\ notifying \in Nat
    BY TimerAssumption DEF Init
  <2>3. deadline \in [Timer -> Nat] /\ posted \in [Timer -> Nat] /\ runs \in [Timer -> Nat]
    BY DEF Init
  <2>4. cancelled \in [Timer -> BOOLEAN] /\ handle \in [Timer -> Handle]
    BY DEF Init, Handle
  <2>5. QED
    BY <2>1, <2>2, <2>3, <2>4, Zenon DEF Init, TypeOK, WorkerPc
<1>2. Added(requests) = {}
  BY DEF Init, Added
<1>3. Applied(active, requests) = {} /\ Removed(requests) = {}
  BY DEF Init, Applied, Removed
<1>4. ThreadInv
  BY <1>2 DEF Init, ThreadInv
<1>5. OwnerInv
  BY <1>2, <1>3 DEF Init, OwnerInv, Waits
<1>6. PlaceInv
  BY <1>2, TimerAssumption DEF Init, PlaceInv, Waits
<1>7. QED
  BY <1>1, <1>4, <1>5, <1>6 DEF TimerInv

(* Steps that leave the owners' timers, the queue and the set alone.         *)
LEMMA OwnersStay ==
  ASSUME OwnerInv, UNCHANGED <<cancelled, handle, requests, active, abort>>
  PROVE  OwnerInv'
BY DEF OwnerInv, Waits

LEMMA PlacesStay ==
  ASSUME PlaceInv, UNCHANGED <<posted, runs, dropped, posting, requests, active, handle>>
  PROVE  PlaceInv'
BY DEF PlaceInv, Waits

(* Steps of the worker, the clock and shutdown() that move neither a timer   *)
(* nor a request keep the invariant.                                         *)
QuietStep ==
  \/ Sleep \/ WakeUp \/ IdleTimeout \/ NotifyOne \/ AllFired
  \/ Tick \/ ShutdownBegin \/ ShutdownNotify \/ ShutdownJoin
  \/ UNCHANGED vars

LEMMA QuietStepInv == ASSUME TimerInv, QuietStep PROVE TimerInv'
<1> USE DEF TimerInv
<1>1. UNCHANGED <<cancelled, handle, requests, active, abort>>
  BY Zenon DEF QuietStep, Sleep, WakeUp, IdleTimeout, NotifyOne, AllFired, Tick,
       ShutdownBegin, ShutdownNotify, ShutdownJoin, vars, timerVars, execVars, queueVars, workVars, shutVars
<1>2. UNCHANGED <<posted, runs, dropped, posting, execAbort, deadline>>
  BY Zenon DEF QuietStep, Sleep, WakeUp, IdleTimeout, NotifyOne, AllFired, Tick,
       ShutdownBegin, ShutdownNotify, ShutdownJoin, vars, timerVars, execVars, queueVars, workVars, shutVars
<1>3. OwnerInv' /\ PlaceInv'
  BY <1>1, <1>2, OwnersStay, PlacesStay
<1>4. TypeOK'
  <2>1. CASE Sleep
    BY <1>1, <1>2, <2>1 DEF Sleep, WorkerPc, TypeOK, timerVars, execVars, queueVars, workVars, shutVars
  <2>2. CASE WakeUp
    BY <1>1, <1>2, <2>2 DEF WakeUp, WorkerPc, TypeOK, timerVars, execVars, queueVars, workVars, shutVars
  <2>3. CASE IdleTimeout
    BY <1>1, <1>2, <2>3, Zenon DEF IdleTimeout, WorkerPc, IsIdle, WaitOver, TypeOK, timerVars, execVars, queueVars, workVars, shutVars
  <2>4. CASE NotifyOne
    BY <1>1, <1>2, <2>4 DEF NotifyOne, Woken, WorkerPc, TypeOK, timerVars, execVars, queueVars, workVars, shutVars
  <2>5. CASE AllFired
    <3>1. next' \in Nat
      <4>1. active # {} => Earliest(active) \in Nat
        BY EarliestNat, Zenon DEF TypeOK
      <4>2. QED
        BY <4>1, <2>5 DEF AllFired, NextDeadline
    <3>2. now' = now /\ seen' = 0 /\ wpc' = "lock" /\ UNCHANGED <<queueVars, spc>>
      BY <2>5 DEF AllFired, shutVars
    <3>3. seen' \in 0..now'
      BY <3>2 DEF TypeOK
    <3>4. QED
      BY <1>1, <1>2, <3>1, <3>2, <3>3, Zenon DEF TypeOK, WorkerPc, queueVars
  <2>6. CASE Tick
    BY TimerAssumption, <1>1, <1>2, <2>6 DEF Tick, TypeOK, timerVars, execVars, queueVars, workVars, shutVars
  <2>7. CASE ShutdownBegin
    BY <1>1, <1>2, <2>7 DEF ShutdownBegin, TypeOK, timerVars, execVars, queueVars, workVars, shutVars
  <2>8. CASE ShutdownNotify
    BY <1>1, <1>2, <2>8 DEF ShutdownNotify, Woken, WorkerPc, TypeOK, timerVars, execVars, queueVars, workVars, shutVars
  <2>9. CASE ShutdownJoin
    BY <1>1, <1>2, <2>9, Zenon DEF ShutdownJoin, TypeOK, timerVars, execVars, queueVars, workVars, shutVars
  <2>10. CASE UNCHANGED vars
    BY <1>1, <1>2, <2>10 DEF vars, TypeOK, timerVars, execVars, queueVars, workVars, shutVars
  <2>11. QED
    BY <2>1, <2>2, <2>3, <2>4, <2>5, <2>6, <2>7, <2>8, <2>9, <2>10 DEF QuietStep
<1>5. ThreadInv'
  <2>1. CASE Sleep
    BY <1>1, <1>2, <2>1 DEF Sleep, ThreadInv, timerVars, execVars, queueVars, workVars, shutVars
  <2>2. CASE WakeUp
    BY <1>1, <1>2, <2>2 DEF WakeUp, ThreadInv, timerVars, execVars, queueVars, workVars, shutVars
  <2>3. CASE IdleTimeout
    <3>1. Added(<<>>) = {}
      BY DEF Added
    <3>2. idle' => Added(requests)' = {}
      BY <3>1, <2>3, <1>1, Zenon DEF IdleTimeout, IsIdle, WaitOver, ThreadInv
    <3>3. (idle' <=> wpc' = "none") /\ (wpc' = "none" => active' = {})
      BY <2>3, <1>1 DEF IdleTimeout, ThreadInv
    <3>4. QED
      BY <3>2, <3>3, <1>1, <1>2, <2>3 DEF IdleTimeout, ThreadInv, shutVars
  <2>4. CASE NotifyOne
    BY <1>1, <1>2, <2>4 DEF NotifyOne, Woken, ThreadInv, timerVars, execVars, queueVars, workVars, shutVars
  <2>5. CASE AllFired
    BY <1>1, <1>2, <2>5 DEF AllFired, NextDeadline, ThreadInv, timerVars, execVars, queueVars, workVars, shutVars
  <2>6. CASE Tick
    BY <1>1, <1>2, <2>6 DEF Tick, ThreadInv, timerVars, execVars, queueVars, workVars, shutVars
  <2>7. CASE ShutdownBegin
    BY <1>1, <1>2, <2>7 DEF ShutdownBegin, ThreadInv, timerVars, execVars, queueVars, workVars, shutVars
  <2>8. CASE ShutdownNotify
    BY <1>1, <1>2, <2>8 DEF ShutdownNotify, Woken, ThreadInv, timerVars, execVars, queueVars, workVars, shutVars
  <2>9. CASE ShutdownJoin
    BY <1>1, <1>2, <2>9 DEF ShutdownJoin, WorkerIsGone, ThreadInv, timerVars, execVars, queueVars, workVars, shutVars
  <2>10. CASE UNCHANGED vars
    BY <1>1, <1>2, <2>10 DEF vars, ThreadInv, timerVars, execVars, queueVars, workVars, shutVars
  <2>11. QED
    BY <2>1, <2>2, <2>3, <2>4, <2>5, <2>6, <2>7, <2>8, <2>9, <2>10 DEF QuietStep
<1>6. QED
  BY <1>3, <1>4, <1>5

(* Making a timer, or a delay object, before shutdown puts an Add behind the *)
(* requests and sees to it that there is a worker.                           *)
LEMMA MakeInv ==
  ASSUME TimerInv, NEW t \in Timer, ~abort, MakeTimer(t) \/ MakeDelay(t)
  PROVE  TimerInv'
<1> USE DEF TimerInv
<1>1. /\ handle[t] = "none"
      /\ \E h \in {"held", "awaited"} : handle' = [handle EXCEPT ![t] = h]
      /\ requests' = Append(requests, Add(t))
      /\ notifying' = notifying + 1
      /\ UNCHANGED <<now, cancelled, posted, runs, dropped, execAbort, workVars, shutVars>>
  BY Zenon DEF MakeTimer, MakeDelay, AddTimer, Interrupted, WillNotify, Add, execVars
<1>2. deadline' \in [Timer -> Nat]
  <2>1. PICK d \in Due : deadline' = [deadline EXCEPT ![t] = now + d]
    BY Zenon DEF MakeTimer, MakeDelay, AddTimer, MakeDeadline
  <2>2. now + d \in Nat
    BY TimerAssumption DEF TypeOK
  <2>3. QED
    BY <2>1, <2>2 DEF TypeOK
<1>3. /\ idle' = FALSE /\ wpc' = (IF idle THEN "lock" ELSE wpc)
      /\ hasWorker' = (IF idle THEN TRUE ELSE hasWorker)
  BY Zenon DEF MakeTimer, MakeDelay, AddTimer, EnsureWorkerThread, TypeOK
<1>4. requests \in Seq(Request) /\ Add(t) \in Request
  BY DEF TypeOK, Request, Add
<1>5. /\ Added(requests') = Added(requests) \cup {t}
      /\ Removed(requests') = Removed(requests)
      /\ Applied(active, requests') = Applied(active, requests) \cup {t}
  BY <1>1, <1>4, AddedAppend, AppliedAppend, Zenon
<1>6. PICK h \in {"held", "awaited"} : handle' = [handle EXCEPT ![t] = h]
  BY <1>1, Zenon
<1>7. active' = active /\ posting' = posting /\ abort' = abort /\ spc' = spc /\ next' = next /\ seen' = seen
  BY <1>1 DEF workVars, shutVars
<1>8. TypeOK'
  <2>1. handle' \in [Timer -> Handle]
    BY <1>6 DEF TypeOK, Handle
  <2>2. requests' \in Seq([op : {"Add", "Remove"}, timer : Timer])
    BY <1>1, <1>4 DEF Request
  <2>3. notifying' \in Nat
    BY <1>1 DEF TypeOK
  <2>4. wpc' \in WorkerPc /\ idle' \in BOOLEAN /\ hasWorker' \in BOOLEAN
    BY <1>3, Zenon DEF TypeOK, WorkerPc
  <2>5. QED
    BY <1>1, <1>2, <1>7, <2>1, <2>2, <2>3, <2>4, Zenon DEF TypeOK
<1>9. ThreadInv'
  BY <1>3, <1>5, <1>7 DEF ThreadInv
<1>10. ASSUME NEW u \in Timer PROVE u # t => handle'[u] = handle[u] /\ (Waits(u)' <=> Waits(u))
  BY <1>5, <1>6, <1>7 DEF Waits, TypeOK
<1>11. handle'[t] = h /\ Waits(t)' /\ ~Waits(t)
  BY <1>1, <1>5, <1>6, <1>7 DEF Waits, TypeOK, OwnerInv
<1>12. OwnerInv'
  <2> SUFFICES ASSUME NEW u \in Timer PROVE OwnerInv!(u)'
    BY Zenon DEF OwnerInv
  <2>1. CASE u = t
    BY <2>1, <1>1, <1>5, <1>7, <1>11 DEF OwnerInv, Waits
  <2>2. CASE u # t
    BY <2>2, <1>1, <1>5, <1>7, <1>10 DEF OwnerInv, Waits
  <2>3. QED
    BY <2>1, <2>2
<1>13. PlaceInv'
  <2> SUFFICES ASSUME NEW u \in OneShot PROVE PlaceInv!(u)'
    BY Zenon DEF PlaceInv
  <2>0. u \in Timer
    BY TimerAssumption
  <2>1. CASE u = t
    BY <2>1, <1>1, <1>7, <1>11 DEF PlaceInv, TypeOK
  <2>2. CASE u # t
    BY <2>0, <2>2, <1>1, <1>7, <1>10 DEF PlaceInv
  <2>3. QED
    BY <2>1, <2>2
<1>14. QED
  BY <1>8, <1>9, <1>12, <1>13

(* After shutdown() has set abort a timer is refused, and a delay object's   *)
(* callback is destroyed.                                                    *)
LEMMA RefuseInv ==
  ASSUME TimerInv, NEW t \in Timer, abort, MakeTimer(t) \/ MakeDelay(t)
  PROVE  TimerInv'
<1> USE DEF TimerInv
<1>1. /\ handle[t] = "none"
      /\ \/ handle' = [handle EXCEPT ![t] = "refused"] /\ dropped' = dropped
         \/ handle' = [handle EXCEPT ![t] = "awaited"] /\ dropped' = dropped \cup {t} /\ t \in OneShot
      /\ UNCHANGED <<queueVars, wpc, deadline>>
      /\ UNCHANGED <<now, cancelled, posted, runs, execAbort, workVars, shutVars>>
  BY Zenon DEF MakeTimer, MakeDelay, AddTimer, Interrupted, execVars
<1>2. /\ active' = active /\ posting' = posting /\ abort' = abort /\ spc' = spc /\ next' = next /\ seen' = seen
      /\ requests' = requests /\ idle' = idle /\ hasWorker' = hasWorker /\ notifying' = notifying
  BY <1>1 DEF workVars, shutVars, queueVars
<1>3. TypeOK'
  <2>1. "refused" \in Handle /\ "awaited" \in Handle
    BY DEF Handle
  <2>2. handle \in [Timer -> Handle] /\ dropped \subseteq OneShot
    BY DEF TypeOK
  <2>3. handle' \in [Timer -> Handle] /\ dropped' \subseteq OneShot
    BY <1>1, <2>1, <2>2
  <2>4. QED
    BY <1>1, <1>2, <2>3, Zenon DEF TypeOK
<1>4. ThreadInv'
  BY <1>1, <1>2, Zenon DEF ThreadInv
<1>5. ASSUME NEW u \in Timer PROVE (u # t => handle'[u] = handle[u]) /\ (Waits(u)' <=> Waits(u))
  BY <1>1, <1>2 DEF Waits, TypeOK
<1>6. handle'[t] \in {"refused", "awaited"} /\ ~Waits(t)
  BY <1>1 DEF Waits, TypeOK, OwnerInv
<1>7. OwnerInv'
  <2> SUFFICES ASSUME NEW u \in Timer PROVE OwnerInv!(u)'
    BY Zenon DEF OwnerInv
  <2>1. CASE u = t
    BY <2>1, <1>1, <1>2, <1>5, <1>6 DEF OwnerInv, Waits
  <2>2. CASE u # t
    BY <2>2, <1>1, <1>2, <1>5 DEF OwnerInv, Waits
  <2>3. QED
    BY <2>1, <2>2
<1>8. PlaceInv'
  <2> SUFFICES ASSUME NEW u \in OneShot PROVE PlaceInv!(u)'
    BY Zenon DEF PlaceInv
  <2>0. u \in Timer
    BY TimerAssumption
  <2>1. CASE u = t
    <3>1. posted[u] + runs[u] = 0 /\ u \notin posting /\ u \notin dropped
      BY <2>1, <1>1 DEF PlaceInv
    <3>2. ~Waits(u)' /\ posted'[u] + runs'[u] = 0 /\ u \notin posting'
      BY <3>1, <2>1, <1>1, <1>2, <1>5, <1>6
    <3>3. \/ handle'[u] = "awaited" /\ u \in dropped'
          \/ handle'[u] = "refused" /\ u \notin dropped'
      <4>0. DOMAIN handle = Timer
        BY DEF TypeOK
      <4>1. CASE handle' = [handle EXCEPT ![t] = "refused"] /\ dropped' = dropped
        BY <4>0, <3>1, <2>1, <4>1
      <4>2. CASE handle' = [handle EXCEPT ![t] = "awaited"] /\ dropped' = dropped \cup {t}
        <5>1. handle'[t] = "awaited"
          BY <4>0, <4>2
        <5>2. t \in dropped'
          BY <4>2
        <5>3. QED
          BY <5>1, <5>2, <2>1
      <4>3. QED
        BY <4>1, <4>2, <1>1
    <3>4. posted'[u] \in Nat /\ runs'[u] \in Nat
      BY <2>0, <1>3 DEF TypeOK
    <3>5. QED
      BY <3>2, <3>3, <3>4
  <2>2. CASE u # t
    BY <2>0, <2>2, <1>1, <1>2, <1>5 DEF PlaceInv
  <2>3. QED
    BY <2>1, <2>2
<1>9. QED
  BY <1>3, <1>4, <1>7, <1>8

(* Timer::cancel marks the timer, which stays where it is.                   *)
LEMMA CancelInv ==
  ASSUME TimerInv, NEW t \in Timer, Cancel(t)
  PROVE  TimerInv'
<1> USE DEF TimerInv
<1>1. /\ handle[t] = "held" /\ handle' = [handle EXCEPT ![t] = "cancelling"]
      /\ cancelled' = [cancelled EXCEPT ![t] = TRUE]
      /\ UNCHANGED <<now, deadline, posted, runs, dropped, execAbort, requests, idle,
                     hasWorker, notifying, wpc, active, next, seen, posting, abort, spc>>
  BY Zenon DEF Cancel, execVars, queueVars, workVars, shutVars
<1>2. TypeOK'
  <2>1. handle' \in [Timer -> Handle] /\ cancelled' \in [Timer -> BOOLEAN]
    BY <1>1 DEF TypeOK, Handle
  <2>2. QED
    BY <1>1, <2>1, Zenon DEF TypeOK
<1>3. ThreadInv'
  BY <1>1, Zenon DEF ThreadInv
<1>4. OwnerInv'
  BY <1>1 DEF OwnerInv, Waits, TypeOK
<1>5. PlaceInv'
  BY <1>1, TimerAssumption DEF PlaceInv, Waits, TypeOK
<1>6. QED
  BY <1>2, <1>3, <1>4, <1>5

(* The Remove goes behind the requests there are.                            *)
LEMMA RemoveInv ==
  ASSUME TimerInv, NEW t \in Timer, RemoveInternalTimer(t)
  PROVE  TimerInv'
<1> USE DEF TimerInv
<1>1. /\ handle[t] = "cancelling" /\ handle' = [handle EXCEPT ![t] = "gone"]
      /\ requests' = Append(requests, Remove(t))
      /\ notifying' = notifying + 1
      /\ UNCHANGED <<now, deadline, cancelled, posted, runs, dropped, execAbort, idle,
                     hasWorker, wpc, active, next, seen, posting, abort, spc>>
  BY Zenon DEF RemoveInternalTimer, Remove, WillNotify, execVars, workVars, shutVars
<1>2. requests \in Seq(Request) /\ Remove(t) \in Request
  BY DEF TypeOK, Request, Remove
<1>3. /\ Added(requests') = Added(requests)
      /\ Removed(requests') = Removed(requests) \cup {t}
      /\ Applied(active, requests') = Applied(active, requests) \ {t}
  BY <1>1, <1>2, AddedAppend, AppliedAppend, Zenon
<1>4. TypeOK'
  <2>1. handle' \in [Timer -> Handle]
    BY <1>1 DEF TypeOK, Handle
  <2>2. requests' \in Seq([op : {"Add", "Remove"}, timer : Timer])
    BY <1>1, <1>2 DEF Request
  <2>3. notifying' \in Nat
    BY <1>1 DEF TypeOK
  <2>4. QED
    BY <1>1, <2>1, <2>2, <2>3, Zenon DEF TypeOK
<1>5. ThreadInv'
  BY <1>1, <1>3, Zenon DEF ThreadInv
<1>6. OwnerInv'
  BY <1>1, <1>3 DEF OwnerInv, Waits, TypeOK
<1>7. PlaceInv'
  BY <1>1, <1>3, TimerAssumption DEF PlaceInv, Waits, TypeOK
<1>8. QED
  BY <1>4, <1>5, <1>6, <1>7

(* TimerState::execute: a callback that was posted is called, or skipped     *)
(* when its timer has been cancelled since.                                  *)
LEMMA ExecuteInv ==
  ASSUME TimerInv, NEW t \in Timer, Execute(t)
  PROVE  TimerInv'
<1> USE DEF TimerInv
<1>1. /\ posted[t] > 0 /\ posted' = [posted EXCEPT ![t] = posted[t] - 1]
      /\ runs' = IF ~cancelled[t] THEN [runs EXCEPT ![t] = runs[t] + 1] ELSE runs
      /\ UNCHANGED <<now, deadline, cancelled, handle, dropped, execAbort, requests, idle,
                     hasWorker, notifying, wpc, active, next, seen, posting, abort, spc>>
  BY Zenon DEF Execute, Calls, timerVars, queueVars, workVars, shutVars
<1>a. posted \in [Timer -> Nat] /\ runs \in [Timer -> Nat]
  BY Zenon DEF TypeOK
<1>b. /\ posted[t] > 0 /\ posted' = [posted EXCEPT ![t] = posted[t] - 1]
      /\ runs' = IF ~cancelled[t] THEN [runs EXCEPT ![t] = runs[t] + 1] ELSE runs
  BY <1>1, Zenon
<1>2. posted' \in [Timer -> Nat] /\ runs' \in [Timer -> Nat]
  <2> HIDE DEF TimerInv
  <2> QED
    BY <1>a, <1>b
<1>3. TypeOK'
  BY <1>1, <1>2, Zenon DEF TypeOK
<1>4. ThreadInv'
  BY <1>1, Zenon DEF ThreadInv
<1>5. OwnerInv'
  BY <1>1, OwnersStay, Zenon
<1>6. PlaceInv'
  <2> SUFFICES ASSUME NEW u \in OneShot PROVE PlaceInv!(u)'
    BY Zenon DEF PlaceInv
  <2>1. u \in Timer /\ posted[u] \in Nat /\ runs[u] \in Nat
    BY TimerAssumption, <1>a
  <2>2. Waits(u)' <=> Waits(u)
    BY <1>1, Zenon DEF Waits
  <2>3. dropped' = dropped /\ posting' = posting /\ handle' = handle /\ PlaceInv!(u)
    BY <1>1, Zenon DEF PlaceInv
  <2>4. CASE u = t /\ cancelled[t]
    <3>1. handle[u] \in {"cancelling", "gone"}
      BY <2>4 DEF OwnerInv
    <3> HIDE DEF TimerInv
    <3>2. posted'[u] = posted[u] - 1 /\ runs'[u] = runs[u]
      BY <2>1, <2>4, <1>a, <1>b
    <3>3. posted'[u] + runs'[u] + (IF u \in dropped' THEN 1 ELSE 0)
            + (IF u \in posting' THEN 1 ELSE 0) + (IF Waits(u)' THEN 1 ELSE 0) <= 1
      BY <2>1, <2>2, <2>3, <3>2
    <3>4. handle'[u] \notin {"none", "refused", "held", "awaited"}
      BY <2>3, <3>1
    <3>5. QED
      BY <3>3, <3>4, Zenon
  <2>5. CASE u # t \/ ~cancelled[t]
    <3> HIDE DEF TimerInv
    <3>1. /\ posted'[u] + runs'[u] = posted[u] + runs[u]
          /\ posted'[u] \in Nat /\ runs'[u] \in Nat
      BY <2>1, <2>5, <1>a, <1>b, <1>2
    <3>2. QED
      BY <2>1, <2>2, <2>3, <3>1
  <2>6. QED
    BY <2>4, <2>5
<1>7. QED
  BY <1>3, <1>4, <1>5, <1>6

(* The thread ends with abort and its timers are destroyed.                  *)
LEMMA LeaveInv == ASSUME TimerInv, Leave PROVE TimerInv'
<1> USE DEF TimerInv
<1>1. /\ wpc = "lock" /\ abort /\ wpc' = "ended" /\ active' = {} /\ next' = 0
      /\ dropped' = dropped \cup (active \cap OneShot)
      /\ UNCHANGED <<now, deadline, cancelled, handle, posted, runs, execAbort, requests,
                     idle, hasWorker, notifying, seen, posting, abort, spc>>
  BY Zenon DEF Leave, timerVars, queueVars, shutVars
<1>2. TypeOK'
  <2>1. dropped' \subseteq OneShot /\ active' \subseteq Timer /\ next' \in Nat /\ wpc' \in WorkerPc
    BY <1>1 DEF TypeOK, WorkerPc
  <2>2. QED
    BY <1>1, <2>1, Zenon DEF TypeOK
<1>3. ThreadInv'
  BY <1>1 DEF ThreadInv
<1>4. Added(requests) = {}
  BY <1>1 DEF ThreadInv
<1>5. \A u \in Timer : ~Waits(u)' /\ (Waits(u) <=> u \in active)
  BY <1>1, <1>4 DEF Waits
<1>6. OwnerInv'
  BY <1>1, <1>4, <1>5 DEF OwnerInv
<1>7. PlaceInv'
  <2> SUFFICES ASSUME NEW u \in OneShot PROVE PlaceInv!(u)'
    BY Zenon DEF PlaceInv
  <2>1. u \in Timer /\ posted[u] \in Nat /\ runs[u] \in Nat
    BY TimerAssumption DEF TypeOK
  <2>2. handle[u] \in {"none", "refused"} => u \notin active
    BY <2>1, <1>5 DEF OwnerInv
  <2>3. u \in dropped' <=> u \in dropped \/ u \in active
    BY <1>1
  <2>4. QED
    BY <2>1, <2>2, <2>3, <1>1, <1>5 DEF PlaceInv
<1>8. QED
  BY <1>2, <1>3, <1>6, <1>7

(* process_request_queue: what the queue adds and nobody removes is in the   *)
(* worker's set afterwards.                                                  *)
LEMMA ProcessInv == ASSUME TimerInv, ProcessRequests PROVE TimerInv'
<1> USE DEF TimerInv
<1>1. /\ wpc = "lock" /\ ~abort /\ wpc' = "fire" /\ seen' = now
      /\ active' = Applied(active, requests) /\ requests' = <<>>
      /\ UNCHANGED <<now, deadline, cancelled, handle, posted, runs, dropped, execAbort,
                     idle, hasWorker, notifying, next, posting, abort, spc>>
  BY Zenon DEF ProcessRequests, timerVars, execVars, shutVars
<1>2. requests \in Seq(Request) /\ active \in SUBSET Timer
  BY DEF TypeOK, Request
<1>3. active' \subseteq Timer
  BY <1>1 DEF Applied
<1>4. Added(requests') = {} /\ Removed(requests') = {} /\ Applied(active', requests') = active'
  BY <1>1, <1>2, <1>3, AppliedFacts, Zenon
<1>5. /\ active' \subseteq active \cup Added(requests)
      /\ \A u \in active \cup Added(requests) : u \notin Removed(requests) => u \in active'
  BY <1>1, <1>2, AppliedFacts, Zenon
<1>6. TypeOK'
  <2>1. requests' \in Seq([op : {"Add", "Remove"}, timer : Timer])
    BY <1>1
  <2>2. seen' \in 0..now' /\ wpc' \in WorkerPc
    BY <1>1 DEF TypeOK, WorkerPc
  <2>3. QED
    BY <1>1, <1>3, <2>1, <2>2, Zenon DEF TypeOK
<1>7. ThreadInv'
  BY <1>1, <1>4 DEF ThreadInv
<1>8. \A u \in Timer : /\ Waits(u)' => Waits(u)
                       /\ Waits(u) /\ handle[u] # "gone" => Waits(u)'
  BY <1>1, <1>4, <1>5 DEF Waits, OwnerInv
<1>9. OwnerInv'
  BY <1>1, <1>4, <1>8 DEF OwnerInv
<1>10. PlaceInv'
  <2> SUFFICES ASSUME NEW u \in OneShot PROVE PlaceInv!(u)'
    BY Zenon DEF PlaceInv
  <2>1. u \in Timer /\ posted[u] \in Nat /\ runs[u] \in Nat
    BY TimerAssumption DEF TypeOK
  <2>2. QED
    BY <2>1, <1>1, <1>8 DEF PlaceInv
<1>11. QED
  BY <1>6, <1>7, <1>9, <1>10

(* fire(), up to its post: a cancelled timer is dropped from the set; another*)
(* goes into the worker's hand, or is destroyed when the executor is gone.   *)
LEMMA FireInv ==
  ASSUME TimerInv, NEW t \in Timer, FireTimer(t)
  PROVE  TimerInv'
<1> USE DEF TimerInv
<1>1. /\ wpc = "fire" /\ t \in active
      /\ UNCHANGED <<now, cancelled, handle, posted, runs, execAbort, requests, idle,
                     hasWorker, notifying, next, seen, abort, spc>>
  BY Zenon DEF FireTimer, queueVars, shutVars
<1>2. \/ /\ cancelled[t] /\ active' = active \ {t}
         /\ UNCHANGED <<deadline, wpc, posting, dropped>>
      \/ /\ ~cancelled[t] /\ active' = AfterFire(t)
         /\ \/ dropped' = dropped \cup ({t} \cap OneShot) /\ UNCHANGED <<wpc, posting>>
            \/ wpc' = "posting" /\ posting' = {t} /\ UNCHANGED dropped
  BY Zenon DEF FireTimer
<1>3. active' \subseteq active /\ (t \notin OneShot /\ ~cancelled[t] => active' = active)
      /\ (t \in OneShot \/ cancelled[t] => active' = active \ {t})
  BY <1>2 DEF AfterFire
<1>4. posting = {} /\ t \notin Added(requests)
  BY <1>1 DEF ThreadInv, OwnerInv
<1>5. TypeOK'
  <2>1. deadline' \in [Timer -> Nat]
    <3>1. deadline' = deadline \/ \E f \in Frequency \cup {0} : deadline' = [deadline EXCEPT ![t] = now + f]
      BY Zenon DEF FireTimer, MakeDeadline
    <3>2. \A f \in Frequency \cup {0} : now + f \in Nat
      BY TimerAssumption DEF TypeOK
    <3>3. deadline \in [Timer -> Nat]
      BY DEF TypeOK
    <3>4. QED
      BY <3>1, <3>2, <3>3
  <2>2. dropped' \subseteq OneShot
    BY <1>2 DEF TypeOK
  <2>3. wpc' \in WorkerPc /\ posting' \subseteq Timer
    BY <1>2, Zenon DEF TypeOK, WorkerPc
  <2>4. active' \subseteq Timer
    BY <1>3 DEF TypeOK
  <2>5. QED
    BY <1>1, <2>1, <2>2, <2>3, <2>4, Zenon DEF TypeOK
<1>6. ThreadInv'
  <2>1. (wpc' = "fire" /\ posting' = {}) \/ wpc' = "posting"
    BY <1>1, <1>2, <1>4
  <2>2. QED
    BY <1>1, <2>1 DEF ThreadInv
<1>7. \A u \in Timer : u # t => (Waits(u)' <=> Waits(u))
  BY <1>1, <1>3 DEF Waits
<1>8. Waits(t) /\ (t \in OneShot \/ cancelled[t] => ~Waits(t)') /\ (~cancelled[t] /\ t \notin OneShot => Waits(t)')
  BY <1>1, <1>3, <1>4 DEF Waits
<1>9. OwnerInv'
  <2>1. active \in SUBSET Timer /\ requests \in Seq(Request)
    BY DEF TypeOK, Request
  <2>2. Applied(active', requests) \subseteq Applied(active, requests)
    BY <2>1, <1>3, AppliedFacts, Zenon
  <2>3. \A u \in Timer : ~Waits(u) => ~Waits(u)'
    BY <1>7, <1>8
  <2>4. \A u \in Timer : Waits(u) /\ u \notin OneShot /\ ~cancelled[u] => Waits(u)'
    BY <1>7, <1>8
  <2>5. SUFFICES ASSUME NEW u \in Timer PROVE OwnerInv!(u)'
    BY Zenon DEF OwnerInv
  <2>6. OwnerInv!(u) /\ requests' = requests /\ abort' = abort /\ cancelled' = cancelled /\ handle' = handle
    BY <1>1, Zenon DEF OwnerInv
  <2>7. QED
    BY <2>2, <2>3, <2>4, <2>6, <1>3
<1>10. PlaceInv'
  <2> SUFFICES ASSUME NEW u \in OneShot PROVE PlaceInv!(u)'
    BY Zenon DEF PlaceInv
  <2>1. u \in Timer /\ posted[u] \in Nat /\ runs[u] \in Nat
    BY TimerAssumption DEF TypeOK
  <2>2. PlaceInv!(u) /\ posted' = posted /\ runs' = runs /\ handle' = handle
    BY <1>1, Zenon DEF PlaceInv
  <2>3. CASE u # t
    <3>1. (u \in dropped' <=> u \in dropped) /\ u \notin posting' /\ u \notin posting
      BY <2>3, <1>2, <1>4
    <3>2. QED
      BY <2>1, <2>2, <3>1, <2>3, <1>7
  <2>4. CASE u = t
    <3>1. posted[u] = 0 /\ runs[u] = 0 /\ u \notin dropped /\ u \notin posting
      BY <2>1, <2>2, <2>4, <1>8
    <3>2. handle[u] \notin {"none", "refused"}
      BY <2>1, <2>4, <1>8 DEF OwnerInv
    <3>3. CASE cancelled[t]
      <4>1. dropped' = dropped /\ posting' = posting /\ handle[u] \in {"cancelling", "gone"}
        BY <3>3, <2>4, <1>2, SMTT(30) DEF OwnerInv
      <4>2. QED
        BY <2>1, <2>2, <2>4, <3>1, <3>2, <3>3, <4>1, <1>8
    <3>4. CASE ~cancelled[t]
      <4>1. \/ u \in dropped' /\ u \notin posting'
            \/ u \notin dropped' /\ u \in posting'
        BY <3>1, <3>4, <2>4, <1>2
      <4>2. QED
        BY <2>1, <2>2, <2>4, <3>1, <3>2, <4>1, <1>8
    <3>5. QED
      BY <3>3, <3>4
  <2>5. QED
    BY <2>3, <2>4
<1>11. QED
  BY <1>5, <1>6, <1>9, <1>10

(* The post: the executor has the callback, or the process ends.             *)
LEMMA PostInv == ASSUME TimerInv, Post PROVE TimerInv'
<1> USE DEF TimerInv
<1>1. /\ wpc = "posting"
      /\ UNCHANGED <<now, deadline, cancelled, handle, runs, dropped, execAbort, requests,
                     idle, hasWorker, notifying, active, next, seen, abort, spc>>
      /\ \/ wpc' = "terminated" /\ UNCHANGED <<posted, posting>>
         \/ /\ wpc' = "fire" /\ posting' = {}
            /\ posted' = [t \in Timer |-> IF t \in posting THEN posted[t] + 1 ELSE posted[t]]
  BY Zenon DEF Post, timerVars, queueVars, shutVars
<1>2. posted' \in [Timer -> Nat] /\ wpc' \in WorkerPc /\ posting' \subseteq Timer
  <2>1. posted \in [Timer -> Nat] /\ posting \subseteq Timer
    BY DEF TypeOK
  <2>2. posted' \in [Timer -> Nat] /\ posting' \subseteq Timer
    BY <2>1, <1>1
  <2>3. wpc' \in WorkerPc
    BY <1>1, Zenon DEF WorkerPc
  <2>4. QED
    BY <2>2, <2>3
<1>3. TypeOK'
  BY <1>1, <1>2, Zenon DEF TypeOK
<1>4. ThreadInv'
  BY <1>1 DEF ThreadInv
<1>5. OwnerInv'
  BY <1>1, OwnersStay, Zenon
<1>6. PlaceInv'
  <2> SUFFICES ASSUME NEW u \in OneShot PROVE PlaceInv!(u)'
    BY Zenon DEF PlaceInv
  <2>1. u \in Timer /\ posted[u] \in Nat /\ runs[u] \in Nat
    BY TimerAssumption DEF TypeOK
  <2>2. PlaceInv!(u) /\ runs' = runs /\ handle' = handle /\ dropped' = dropped /\ (Waits(u)' <=> Waits(u))
    BY <1>1, Zenon DEF PlaceInv, Waits
  <2>3. \/ posted'[u] = posted[u] /\ (u \in posting' <=> u \in posting)
        \/ posted'[u] = posted[u] + 1 /\ u \in posting /\ u \notin posting'
    BY <2>1, <1>1
  <2>4. QED
    BY <2>1, <2>2, <2>3
<1>7. QED
  BY <1>3, <1>4, <1>5, <1>6

(* The executor shuts down and destroys the callbacks it was given.          *)
LEMMA ExecutorShutdownInv == ASSUME TimerInv, ExecutorShutdown PROVE TimerInv'
<1> USE DEF TimerInv
<1>1. /\ execAbort' = TRUE
      /\ dropped' = dropped \cup {t \in OneShot : posted[t] > 0}
      /\ posted' = [t \in Timer |-> 0]
      /\ UNCHANGED <<now, deadline, cancelled, handle, runs, requests, idle, hasWorker,
                     notifying, wpc, active, next, seen, posting, abort, spc>>
  BY Zenon DEF ExecutorShutdown, timerVars, queueVars, workVars, shutVars
<1>2. TypeOK'
  <2>1. posted' \in [Timer -> Nat]
    BY <1>1
  <2>2. dropped' \subseteq OneShot /\ execAbort' \in BOOLEAN
    BY <1>1 DEF TypeOK
  <2>3. QED
    BY <1>1, <2>1, <2>2, Zenon DEF TypeOK
<1>3. ThreadInv'
  BY <1>1, Zenon DEF ThreadInv
<1>4. OwnerInv'
  BY <1>1, OwnersStay, Zenon
<1>5. PlaceInv'
  <2> SUFFICES ASSUME NEW u \in OneShot PROVE PlaceInv!(u)'
    BY Zenon DEF PlaceInv
  <2>1. u \in Timer /\ posted[u] \in Nat /\ runs[u] \in Nat
    BY TimerAssumption DEF TypeOK
  <2>2. PlaceInv!(u) /\ runs' = runs /\ handle' = handle /\ posting' = posting /\ (Waits(u)' <=> Waits(u))
    BY <1>1, Zenon DEF PlaceInv, Waits
  <2>3. posted'[u] = 0 /\ (u \in dropped' <=> u \in dropped \/ posted[u] > 0)
    BY <2>1, <1>1
  <2>4. QED
    BY <2>1, <2>2, <2>3
<1>6. QED
  BY <1>2, <1>3, <1>4, <1>5

(* shutdown() sets abort and destroys the timers of the request queue.       *)
LEMMA ShutdownLockInv == ASSUME TimerInv, ShutdownLock PROVE TimerInv'
<1> USE DEF TimerInv
<1>1. /\ spc = "lock" /\ abort'
      /\ UNCHANGED <<now, deadline, cancelled, handle, posted, runs, execAbort, idle,
                     hasWorker, notifying, wpc, active, next, seen, posting>>
      /\ \/ hasWorker /\ requests' = <<>> /\ spc' = "notify"
              /\ dropped' = dropped \cup (Added(requests) \cap OneShot)
         \/ ~hasWorker /\ spc' = "done" /\ requests' = requests /\ dropped' = dropped
  BY Zenon DEF ShutdownLock, timerVars, workVars
<1>2. ~abort
  BY <1>1 DEF ThreadInv
<1>3. ~hasWorker => wpc = "none" /\ Added(requests) = {}
  BY <1>2 DEF ThreadInv
<1>4. Added(<<>>) = {} /\ Removed(<<>>) = {}
  BY DEF Added, Removed
<1>5. Added(requests') = {} /\ Removed(requests') \subseteq Removed(requests)
      /\ dropped' = dropped \cup (Added(requests) \cap OneShot)
  <2>1. CASE hasWorker
    BY <2>1, <1>1, <1>4
  <2>2. CASE ~hasWorker
    BY <2>2, <1>1, <1>3
  <2>3. QED
    BY <2>1, <2>2
<1>6. TypeOK'
  <2>1. <<>> \in Seq([op : {"Add", "Remove"}, timer : Timer])
    OBVIOUS
  <2>2. requests' \in Seq([op : {"Add", "Remove"}, timer : Timer])
    BY <1>1, <2>1, Zenon DEF TypeOK
  <2>3. dropped' \subseteq OneShot
    BY <1>5 DEF TypeOK
  <2>4. abort' \in BOOLEAN
    BY <1>1 DEF ShutdownLock
  <2>5. QED
    BY <1>1, <2>2, <2>3, <2>4, Zenon DEF TypeOK
<1>7. ThreadInv'
  BY <1>1, <1>3, <1>5, SMTT(30) DEF ThreadInv
<1>8. OwnerInv'
  <2> SUFFICES ASSUME NEW u \in Timer PROVE OwnerInv!(u)'
    BY Zenon DEF OwnerInv
  <2>1. Waits(u)' => Waits(u)
    BY <1>1, <1>5 DEF Waits
  <2>2. OwnerInv!(u) /\ cancelled' = cancelled /\ handle' = handle /\ active' = active /\ abort'
    BY <1>1, Zenon DEF OwnerInv
  <2>3. QED
    BY <2>1, <2>2, <1>5
<1>9. PlaceInv'
  <2> SUFFICES ASSUME NEW u \in OneShot PROVE PlaceInv!(u)'
    BY Zenon DEF PlaceInv
  <2>1. u \in Timer /\ posted[u] \in Nat /\ runs[u] \in Nat
    BY TimerAssumption DEF TypeOK
  <2>2. PlaceInv!(u) /\ runs' = runs /\ posted' = posted /\ handle' = handle /\ posting' = posting
    BY <1>1, Zenon DEF PlaceInv
  <2>3. handle[u] \in {"none", "refused"} => ~Waits(u)
    BY <2>1 DEF OwnerInv
  <2>4. u \in Added(requests) => u \notin active
    BY <2>1 DEF OwnerInv
  <2>5. (Waits(u)' <=> u \in active) /\ (Waits(u) <=> u \in active \/ u \in Added(requests))
    BY <1>1, <1>5 DEF Waits
  <2>6. u \in dropped' <=> u \in dropped \/ u \in Added(requests)
    BY <1>5
  <2>7. QED
    BY <2>1, <2>2, <2>3, <2>4, <2>5, <2>6
<1>10. QED
  BY <1>6, <1>7, <1>8, <1>9

-----------------------------------------------------------------------------
(* Every step of the owners, the worker, the executor and shutdown().        *)
LEMMA NextInv == ASSUME TimerInv, [Next]_vars PROVE TimerInv'
<1>1. CASE UNCHANGED vars
  <2>1. QuietStep
    BY <1>1, Zenon DEF QuietStep, vars
  <2>2. QED
    BY <2>1, QuietStepInv
<1>2. ASSUME NEW t \in Timer, MakeTimer(t) \/ MakeDelay(t) PROVE TimerInv'
  BY <1>2, MakeInv, RefuseInv, Zenon
<1>3. ASSUME NEW t \in Timer, Cancel(t) \/ RemoveInternalTimer(t) \/ Execute(t) PROVE TimerInv'
  BY <1>3, CancelInv, RemoveInv, ExecuteInv, Zenon
<1>4. CASE WorkerStep
  BY <1>4, LeaveInv, ProcessInv, PostInv, FireInv, QuietStepInv, Zenon DEF WorkerStep, QuietStep
<1>5. CASE ShutdownStep
  BY <1>5, ShutdownLockInv, QuietStepInv, Zenon DEF ShutdownStep, QuietStep
<1>6. CASE ExecutorShutdown
  BY <1>6, ExecutorShutdownInv
<1>7. CASE NotifyOne \/ WakeUp \/ IdleTimeout \/ Tick \/ ShutdownBegin \/ Finished
  BY <1>7, QuietStepInv, Zenon DEF QuietStep, Finished
<1>8. QED
  BY <1>1, <1>2, <1>3, <1>4, <1>5, <1>6, <1>7, Zenon DEF Next

(* What the owners rely on follows from the inductive invariant.             *)
LEMMA InvSafe == ASSUME TimerInv PROVE TimersSafe
<1> USE DEF TimerInv
<1>1. TimersKept
  <2>1. idle <=> wpc = "none"
    BY DEF ThreadInv
  <2> SUFFICES ASSUME NEW t \in Timer, ~abort
               PROVE  /\ handle[t] \in {"held", "awaited"}
                           /\ (t \in OneShot => t \notin posting \cup dropped /\ posted[t] + runs[t] = 0)
                         => t \in Added(requests) \cup active /\ ~idle
                      /\ handle[t] = "gone" => t \notin Applied(active, requests)
    BY <2>1, Zenon DEF TimersKept
  <2>2. handle[t] = "gone" => t \notin Applied(active, requests)
    BY DEF OwnerInv
  <2>3. ASSUME handle[t] \in {"held", "awaited"},
               t \in OneShot => t \notin posting \cup dropped /\ posted[t] + runs[t] = 0
        PROVE  Waits(t)
    <3>1. CASE t \in OneShot
      BY <3>1, <2>3 DEF PlaceInv
    <3>2. CASE t \notin OneShot
      BY <3>2, <2>3 DEF OwnerInv
    <3>3. QED
      BY <3>1, <3>2
  <2>4. Waits(t) => t \in Added(requests) \cup active /\ ~idle
    BY DEF Waits, ThreadInv
  <2>5. QED
    BY <2>2, <2>3, <2>4
<1>2. OneShotSettled
  <2>1. ASSUME NEW t \in OneShot
        PROVE  posted[t] + runs[t] + (IF t \in dropped THEN 1 ELSE 0)
                 + (IF t \in posting THEN 1 ELSE 0) <= 1
    <3>1. posted[t] \in Nat /\ runs[t] \in Nat
      BY TimerAssumption DEF TypeOK
    <3>2. PlaceInv!(t)
      BY Zenon DEF PlaceInv
    <3>3. QED
      BY <3>1, <3>2
  <2>2. ASSUME spc = "done", NEW t \in OneShot
        PROVE  handle[t] \in {"none", "refused"} \/ cancelled[t] \/ t \in dropped
                 \/ posted[t] + runs[t] = 1
    <3>1. t \in Timer
      BY TimerAssumption
    <3>2. ~Waits(t) /\ t \notin posting
      BY <2>2 DEF ThreadInv, Waits
    <3>3. handle[t] \in {"held", "awaited"} => posted[t] + runs[t] = 1 \/ t \in dropped
      BY <3>2 DEF PlaceInv
    <3>4. handle[t] \in Handle /\ (handle[t] \in {"cancelling", "gone"} => cancelled[t])
      BY <3>1 DEF OwnerInv, TypeOK
    <3>5. QED
      BY <3>3, <3>4 DEF Handle
  <2>3. spc = "done" => wpc \in {"none", "ended"}
    BY DEF ThreadInv
  <2>4. QED
    BY <2>1, <2>2, <2>3 DEF OneShotSettled
<1>3. QED
  BY <1>1, <1>2 DEF TimersSafe

(* No timer is lost on its way from its owner through the request queue to   *)
(* the worker; a one-shot callback is called or destroyed, never both and    *)
(* never neither once shutdown() has returned; for any timers, due times and *)
(* frequencies, and whichever of the queue and the executor stops first.     *)
THEOREM TimersSafety == Spec => []TimersSafe
<1>1. Init => TimerInv
  BY InitInv
<1>2. TimerInv /\ [Next]_vars => TimerInv'
  BY NextInv
<1>3. TimerInv => TimersSafe
  BY InvSafe
<1>4. QED
  BY <1>1, <1>2, <1>3, PTL DEF Spec
=============================================================================
