----------------------------- MODULE TimerQueue -----------------------------
(***************************************************************************)
(* TimerQueue and Timer (engine/timer_queue.cc, engine/timer.cc).          *)
(*                                                                         *)
(* Clients put Add and Remove requests into a queue under a lock; a worker *)
(* thread, started when it is needed and gone after max_waiting_time with  *)
(* no timer, applies them to its own set of timers, sleeps until the       *)
(* earliest deadline and posts the callbacks to the executor.              *)
(*                                                                         *)
(* A critical section, with the thread-local work that follows it, is one  *)
(* step.  Time is a counter; a deadline is a value of it.  A delay object  *)
(* is a one-shot timer that nobody cancels: its callback resumes the       *)
(* coroutine that awaits it, and resumes it with an error when it is       *)
(* destroyed unused.                                                       *)
(***************************************************************************)
EXTENDS Naturals, Sequences, FiniteSetsExt

CONSTANTS
  Timer,         \* the timers; each is made at most once
  OneShot,       \* the timers made by make_one_shot_timer, make_delay_object
  Due, Frequency,\* the due times and the frequencies that may be asked for
  MaxTime,       \* bound: the clock stops here
  ExecutorStops  \* whether the executor may be shut down

ASSUME TimerAssumption ==
  /\ OneShot \subseteq Timer
  /\ Due \subseteq Nat /\ Frequency \subseteq Nat \ {0}
  /\ MaxTime \in Nat /\ ExecutorStops \in BOOLEAN

VARIABLES
  now,        \* the clock
  requests,   \* request_queue
  idle,       \* idle
  abort,      \* abort
  hasWorker,  \* worker.joinable()
  notifying,  \* how many notify_one calls are still to come
  wpc,        \* where the worker thread is
  active,     \* internal_state.timers_
  next,       \* next_deadline
  seen,       \* the time process_timers works with
  posting,    \* the timer that fire() is about to post, as a set
  deadline,   \* timer -> deadline_
  cancelled,  \* timer -> cancelled_
  handle,     \* timer -> what its owner has done with it
  posted,     \* timer -> how many of its callbacks wait in the executor
  runs,       \* timer -> how often execute() went on to call the callback
  dropped,    \* the one-shot timers destroyed with their callback unused
  execAbort,  \* the executor has been shut down
  spc         \* where shutdown() is

timerVars == <<deadline, cancelled, handle>>
execVars == <<posted, runs, dropped, execAbort>>
queueVars == <<requests, idle, hasWorker, notifying>>
workVars == <<active, next, seen, posting>>
shutVars == <<abort, spc>>
vars == <<now, timerVars, execVars, queueVars, wpc, workVars, shutVars>>

WorkerPc == {"none", "lock", "asleep", "fire", "posting", "ended", "terminated"}
Handle == {"none", "held", "awaited", "cancelling", "gone", "refused"}

Init ==
  /\ now = 0
  /\ requests = <<>> /\ idle = TRUE /\ hasWorker = FALSE /\ notifying = 0
  /\ abort = FALSE /\ spc = "none"
  /\ wpc = "none"
  /\ active = {} /\ next = 0 /\ seen = 0 /\ posting = {}
  /\ deadline = [t \in Timer |-> 0]
  /\ cancelled = [t \in Timer |-> FALSE]
  /\ handle = [t \in Timer |-> "none"]
  /\ posted = [t \in Timer |-> 0] /\ runs = [t \in Timer |-> 0]
  /\ dropped = {} /\ execAbort = FALSE

Added(q) == {t \in Timer : \E i \in DOMAIN q : q[i] = [op |-> "Add", timer |-> t]}

Earliest(S) == Min({deadline[t] : t \in S})

Running == wpc # "terminated"

-----------------------------------------------------------------------------
(* The owners of timers.                                                     *)

DeadlineBefore(d) == now - d

MakeDeadline(d) == now + d

(* ensure_worker_thread; the join of an old worker only waits for a thread   *)
(* that has left work_loop.                                                  *)
EnsureWorkerThread ==
  IF idle
    THEN wpc' = "lock" /\ idle' = FALSE /\ hasWorker' = TRUE
    ELSE UNCHANGED <<wpc, idle, hasWorker>>

(* notify_one comes after the lock has been released.                        *)
WillNotify == notifying + 1

(* add_timer, which throws after shutdown.                                   *)
AddTimer(t) ==
  IF abort
    THEN UNCHANGED <<queueVars, wpc, deadline>>
    ELSE /\ \E d \in Due : deadline' = [deadline EXCEPT ![t] = MakeDeadline(d)]
         /\ EnsureWorkerThread
         /\ requests' = Append(requests, [op |-> "Add", timer |-> t])
         /\ notifying' = WillNotify

(* make_timer and make_one_shot_timer.                                       *)
MakeTimer(t) ==
  /\ Running
  /\ handle[t] = "none"
  /\ handle' = [handle EXCEPT ![t] = IF abort THEN "refused" ELSE "held"]
  /\ AddTimer(t)
  /\ UNCHANGED <<now, cancelled, execVars, workVars, shutVars>>

MutantInterrupted(t) == dropped

(* await_suspend swallows what add_timer throws; the callback goes with it.  *)
Interrupted(t) == IF abort THEN dropped \cup {t} ELSE dropped

(* A coroutine awaits make_delay_object.                                     *)
MakeDelay(t) ==
  /\ Running
  /\ t \in OneShot /\ handle[t] = "none"
  /\ handle' = [handle EXCEPT ![t] = "awaited"]
  /\ AddTimer(t)
  /\ dropped' = Interrupted(t)
  /\ UNCHANGED <<now, cancelled, posted, runs, execAbort, workVars, shutVars>>

(* Timer::cancel, also called by the destructor and the assignment.          *)
Cancel(t) ==
  /\ Running
  /\ handle[t] = "held"
  /\ handle' = [handle EXCEPT ![t] = "cancelling"]
  /\ cancelled' = [cancelled EXCEPT ![t] = TRUE]
  /\ UNCHANGED <<now, deadline, execVars, queueVars, wpc, workVars, shutVars>>

RemoveInternalTimer(t) ==
  /\ Running
  /\ handle[t] = "cancelling"
  /\ handle' = [handle EXCEPT ![t] = "gone"]
  /\ requests' = Append(requests, [op |-> "Remove", timer |-> t])
  /\ notifying' = WillNotify
  /\ UNCHANGED <<now, deadline, cancelled, idle, hasWorker, execVars, wpc,
                 workVars, shutVars>>

(* A notified worker looks at its condition again.                           *)
Woken == IF wpc = "asleep" THEN "lock" ELSE wpc

NotifyOne ==
  /\ Running
  /\ notifying > 0
  /\ notifying' = notifying - 1
  /\ wpc' = Woken
  /\ UNCHANGED <<now, requests, idle, hasWorker, timerVars, execVars, workVars,
                 shutVars>>

-----------------------------------------------------------------------------
(* work_loop.                                                                *)

(* The condition of both waits.                                              *)
WaitOver == requests # <<>> \/ abort

DeadlineIgnored == FALSE

DeadlineReached == active # {} /\ now >= next

Sleep ==
  /\ wpc = "lock"
  /\ ~WaitOver /\ ~DeadlineReached
  /\ wpc' = "asleep"
  /\ UNCHANGED <<now, timerVars, execVars, queueVars, workVars, shutVars>>

(* The deadline has come, or the condition variable woke for no reason.      *)
WakeUp ==
  /\ wpc = "asleep"
  /\ wpc' = "lock"
  /\ UNCHANGED <<now, timerVars, execVars, queueVars, workVars, shutVars>>

IdleAlways == TRUE

(* wait_for has timed out and its condition is still false.                  *)
IsIdle == ~WaitOver

(* max_waiting_time without timers: the thread leaves.                       *)
IdleTimeout ==
  /\ wpc = "asleep" /\ active = {}
  /\ IF IsIdle
       THEN idle' = TRUE /\ wpc' = "none"
       ELSE wpc' = "lock" /\ UNCHANGED idle
  /\ UNCHANGED <<now, requests, hasWorker, notifying, timerVars, execVars,
                 workVars, shutVars>>

(* The thread ends; its timers are destroyed with it.                        *)
Leave ==
  /\ wpc = "lock" /\ abort
  /\ wpc' = "ended"
  /\ active' = {} /\ next' = 0
  /\ dropped' = dropped \cup (active \cap OneShot)
  /\ UNCHANGED <<now, timerVars, posted, runs, execAbort, queueVars, seen,
                 posting, shutVars>>

(* add_timer_internal and remove_timer_internal of all requests in turn: a   *)
(* timer is in the set if it was, or was added, and no Remove came behind.   *)
Applied(S, q) ==
  LET removed(t, i) == \E j \in DOMAIN q : j > i /\ q[j] = [op |-> "Remove", timer |-> t]
  IN  {t \in Timer :
         \/ t \in S /\ ~removed(t, 0)
         \/ \E i \in DOMAIN q : q[i] = [op |-> "Add", timer |-> t] /\ ~removed(t, i)}

(* process_request_queue, and the time that process_timers goes by.          *)
ProcessRequests ==
  /\ wpc = "lock"
  /\ WaitOver \/ DeadlineReached
  /\ ~abort
  /\ active' = Applied(active, requests)
  /\ requests' = <<>>
  /\ seen' = now
  /\ wpc' = "fire"
  /\ UNCHANGED <<now, timerVars, execVars, idle, hasWorker, notifying, next,
                 posting, shutVars>>

Expired(t) == deadline[t] <= seen

(* What remains of timers_ after a timer that was not cancelled has fired.   *)
AfterFire(t) == IF t \in OneShot THEN active \ {t} ELSE active

(* The first timer of the set, if it has expired: fire(), up to its post.    *)
FireTimer(t) ==
  /\ wpc = "fire"
  /\ t \in active /\ deadline[t] = Earliest(active) /\ Expired(t)
  /\ IF cancelled[t]
       THEN active' = active \ {t} /\ UNCHANGED <<deadline, wpc, posting, dropped>>
       ELSE /\ \E f \in IF t \in OneShot THEN {0} ELSE Frequency :
                 deadline' = [deadline EXCEPT ![t] = MakeDeadline(f)]
            /\ active' = AfterFire(t)
            /\ IF execAbort
                 THEN /\ dropped' = dropped \cup ({t} \cap OneShot)
                      /\ UNCHANGED <<wpc, posting>>
                 ELSE wpc' = "posting" /\ posting' = {t} /\ UNCHANGED dropped
  /\ UNCHANGED <<now, cancelled, handle, posted, runs, execAbort, queueVars, next,
                 seen, shutVars>>

(* post throws when the executor was shut down since fire() looked, and the  *)
(* exception leaves the thread: std::terminate.                              *)
Post ==
  /\ wpc = "posting"
  /\ IF execAbort
       THEN wpc' = "terminated" /\ UNCHANGED <<posted, posting>>
       ELSE /\ wpc' = "fire"
            /\ posting' = {}
            /\ posted' = [t \in Timer |-> IF t \in posting THEN posted[t] + 1
                                                           ELSE posted[t]]
  /\ UNCHANGED <<now, timerVars, runs, dropped, execAbort, queueVars, active, next,
                 seen, shutVars>>

(* What process_timers returns when timers are left.                         *)
NextDeadline == Earliest(active)

AllFired ==
  /\ wpc = "fire"
  /\ \A t \in active : ~Expired(t)
  /\ next' = IF active = {} THEN 0 ELSE NextDeadline
  /\ seen' = 0
  /\ wpc' = "lock"
  /\ UNCHANGED <<now, timerVars, execVars, queueVars, active, posting, shutVars>>

-----------------------------------------------------------------------------
(* The executor, the clock and shutdown().                                   *)

(* TimerState::execute looks at cancelled_ again.                            *)
Calls(t) == ~cancelled[t]

Execute(t) ==
  /\ Running
  /\ posted[t] > 0
  /\ posted' = [posted EXCEPT ![t] = @ - 1]
  /\ runs' = IF Calls(t) THEN [runs EXCEPT ![t] = @ + 1] ELSE runs
  /\ UNCHANGED <<now, timerVars, dropped, execAbort, queueVars, wpc, workVars,
                 shutVars>>

ExecutorShutdown ==
  /\ ExecutorStops /\ Running /\ ~execAbort
  /\ execAbort' = TRUE
  /\ dropped' = dropped \cup {t \in OneShot : posted[t] > 0}
  /\ posted' = [t \in Timer |-> 0]
  /\ UNCHANGED <<now, timerVars, runs, queueVars, wpc, workVars, shutVars>>

Tick ==
  /\ Running /\ now < MaxTime
  /\ now' = now + 1
  /\ UNCHANGED <<timerVars, execVars, queueVars, wpc, workVars, shutVars>>

ShutdownBegin ==
  /\ Running /\ spc = "none"
  /\ spc' = "lock"
  /\ UNCHANGED <<now, abort, timerVars, execVars, queueVars, wpc, workVars>>

ShutdownLock ==
  /\ Running /\ spc = "lock"
  /\ abort' = TRUE
  /\ IF hasWorker
       THEN /\ requests' = <<>>
            /\ dropped' = dropped \cup (Added(requests) \cap OneShot)
            /\ spc' = "notify"
       ELSE spc' = "done" /\ UNCHANGED <<requests, dropped>>
  /\ UNCHANGED <<now, timerVars, posted, runs, execAbort, idle, hasWorker,
                 notifying, wpc, workVars>>

ShutdownNotify ==
  /\ Running /\ spc = "notify"
  /\ spc' = "join"
  /\ wpc' = Woken
  /\ UNCHANGED <<now, abort, timerVars, execVars, queueVars, workVars>>

JoinDoesNotWait == TRUE

WorkerIsGone == wpc \in {"none", "ended"}

ShutdownJoin ==
  /\ spc = "join"
  /\ WorkerIsGone
  /\ spc' = "done"
  /\ hasWorker' = FALSE
  /\ UNCHANGED <<now, abort, timerVars, execVars, requests, idle, notifying, wpc,
                 workVars>>

Finished ==
  /\ spc = "done" \/ ~Running
  /\ UNCHANGED vars

-----------------------------------------------------------------------------
WorkerStep ==
  \/ Sleep \/ Leave \/ ProcessRequests \/ Post \/ AllFired
  \/ \E t \in Timer : FireTimer(t)

ShutdownStep == ShutdownLock \/ ShutdownNotify \/ ShutdownJoin

Next ==
  \/ \E t \in Timer : \/ MakeTimer(t) \/ MakeDelay(t)
                      \/ Cancel(t) \/ RemoveInternalTimer(t) \/ Execute(t)
  \/ NotifyOne
  \/ WorkerStep \/ WakeUp \/ IdleTimeout
  \/ ExecutorShutdown \/ Tick
  \/ ShutdownBegin \/ ShutdownStep
  \/ Finished

Spec == Init /\ [][Next]_vars

(* The worker, the executor and the clock go on, a thread that has to notify *)
(* does, and a sleeper whose deadline has come wakes.                        *)
FairSpec ==
  /\ Spec
  /\ WF_vars(WorkerStep) /\ WF_vars(DeadlineReached /\ WakeUp)
  /\ WF_vars(NotifyOne) /\ WF_vars(Tick) /\ WF_vars(ShutdownStep)
  /\ WF_vars(\E t \in Timer : Execute(t))

-----------------------------------------------------------------------------
TypeOK ==
  /\ now \in 0..MaxTime /\ next \in Nat /\ seen \in 0..now
  /\ requests \in Seq([op : {"Add", "Remove"}, timer : Timer])
  /\ idle \in BOOLEAN /\ abort \in BOOLEAN
  /\ hasWorker \in BOOLEAN /\ execAbort \in BOOLEAN
  /\ notifying \in Nat
  /\ wpc \in WorkerPc
  /\ active \subseteq Timer /\ posting \subseteq Timer
  /\ dropped \subseteq OneShot
  /\ deadline \in [Timer -> Nat] /\ cancelled \in [Timer -> BOOLEAN]
  /\ handle \in [Timer -> Handle]
  /\ posted \in [Timer -> Nat] /\ runs \in [Timer -> Nat]
  /\ spc \in {"none", "lock", "notify", "join", "done"}

(* The worker works on the timers that are held.  Until shutdown a periodic  *)
(* timer, or a one-shot timer that has not fired, is in the request queue or *)
(* in the worker's set, and idle says truly whether there is a worker.  A    *)
(* timer whose cancel() has returned is there only with a Remove behind it.  *)
TimersKept ==
  /\ idle <=> wpc = "none"
  /\ \A t \in Timer : ~abort =>
       /\ handle[t] \in {"held", "awaited"}
            /\ (t \in OneShot => t \notin posting \cup dropped /\ posted[t] + runs[t] = 0)
          => t \in Added(requests) \cup active /\ ~idle
       /\ handle[t] = "gone" => t \notin Applied(active, requests)

(* A one-shot callback is called once, or destroyed unused (which resumes a  *)
(* delay object with an error), and never both.  When shutdown has returned  *)
(* no worker is left and each has been handed over, destroyed or cancelled,  *)
(* so that no delay object waits for ever.                                   *)
OneShotSettled ==
  /\ \A t \in OneShot :
       posted[t] + runs[t] + (IF t \in dropped THEN 1 ELSE 0)
         + (IF t \in posting THEN 1 ELSE 0) <= 1
  /\ spc = "done" =>
       /\ wpc \in {"none", "ended"}
       /\ \A t \in OneShot :
            handle[t] \in {"none", "refused"} \/ cancelled[t] \/ t \in dropped
              \/ posted[t] + runs[t] = 1

(* A timer that was made is waiting, active or let go, its one-shot callback *)
(* is called or dropped but not lost, whichever of the queue and the executor*)
(* is shut down first (timer_queue.cc, timer.cc).                            *)
TimersSafe == TypeOK /\ TimersKept /\ OneShotSettled

(* A timer whose first deadline comes within the clock's range is called,    *)
(* unless it is cancelled or its executor or the queue is shut down before.  *)
TimerFires ==
  \A t \in Timer :
    (handle[t] \in {"held", "awaited"} /\ deadline[t] <= MaxTime)
      ~> (runs[t] > 0 \/ cancelled[t] \/ execAbort \/ abort)

=============================================================================
