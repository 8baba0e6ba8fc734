------------------------------- MODULE Threads ------------------------------
(***************************************************************************)
(* The threads of sys/thread.h and sys/thread.cc: the pool plain::         *)
(* ThreadPool, whose workers wait on a condition variable for tasks, and   *)
(* the threads of thread::create, which run one function in a loop until   *)
(* their entry in GLOBALS says they are to stop (the loop of               *)
(* Kernel::newthread is the same).  A task of the pool may add another.    *)
(***************************************************************************)
EXTENDS Naturals, Sequences

CONSTANTS
  Workers, Adders,  \* the pool's threads and the threads that enqueue
  Tasks,
  Loopers,          \* the threads made by thread::create
  Returns,          \* what their functions return: "void", "true", "false"
  NoTask

VARIABLES
  queue, stop,   \* tasks_ and stop_
  worker, task,  \* each worker: where it is, and the task it runs
  adder,         \* each adder: whether it still has to notify
  accepted, ran, \* history: tasks taken into the queue, runs of each task
  destroyer,     \* the destructor: "no", "stopped", "joining", "done"
  looper,        \* each looper: "new", "check", "run", "result", "ended", "thrown"
  status,        \* its entry in GLOBALS
  taken,         \* its future's value has been taken
  rounds,        \* how often its function has run
  told           \* history: its owner has asked it to stop

poolVars == <<queue, stop, worker, task, adder, accepted, ran, destroyer>>
loopVars == <<looper, status, taken, rounds, told>>
vars == <<poolVars, loopVars>>

Init ==
  /\ queue = <<>> /\ stop = FALSE
  /\ worker = [w \in Workers |-> "lock"] /\ task = [w \in Workers |-> NoTask]
  /\ adder = [a \in Adders |-> "idle"]
  /\ accepted = {} /\ ran = [t \in Tasks |-> 0] /\ destroyer = "no"
  /\ looper = [l \in Loopers |-> "new"] /\ status = [l \in Loopers |-> "none"]
  /\ taken = [l \in Loopers |-> FALSE] /\ rounds = [l \in Loopers |-> 0]
  /\ told = [l \in Loopers |-> FALSE]

-----------------------------------------------------------------------------
(* ThreadPool                                                                *)

(* enqueue, up to the notification; on a stopped pool it throws.             *)
Enqueue(a) ==
  /\ adder[a] = "idle" /\ destroyer # "done" /\ ~stop
  /\ \E t \in Tasks \ accepted :
       accepted' = accepted \cup {t} /\ queue' = Append(queue, t)
  /\ adder' = [adder EXCEPT ![a] = "notify"]
  /\ UNCHANGED <<stop, worker, task, ran, destroyer, loopVars>>

NotifyOne(a) ==
  /\ adder[a] = "notify"
  /\ adder' = [adder EXCEPT ![a] = "idle"]
  /\ \/ \E w \in Workers : worker[w] = "waiting"
                           /\ worker' = [worker EXCEPT ![w] = "lock"]
     \/ (\A w \in Workers : worker[w] # "waiting") /\ UNCHANGED worker
  /\ UNCHANGED <<queue, stop, task, accepted, ran, destroyer, loopVars>>

(* A task that runs on a worker enqueues another.                            *)
TaskEnqueues(w) ==
  /\ worker[w] = "run" /\ ~stop
  /\ \E t \in Tasks \ accepted :
       accepted' = accepted \cup {t} /\ queue' = Append(queue, t)
  /\ \/ \E v \in Workers : worker[v] = "waiting"
                           /\ worker' = [worker EXCEPT ![v] = "lock"]
     \/ (\A v \in Workers : worker[v] # "waiting") /\ UNCHANGED worker
  /\ UNCHANGED <<stop, task, adder, ran, destroyer, loopVars>>

MutantMayEnd == stop

(* A worker returns when the pool is stopped and nothing is left.            *)
MayEnd == stop /\ queue = <<>>

(* The critical section of a worker: wait, return, or take a task.           *)
WorkerLocks(w) ==
  /\ worker[w] = "lock"
  /\ IF MayEnd
       THEN worker' = [worker EXCEPT ![w] = "ended"] /\ UNCHANGED <<task, queue>>
       ELSE IF queue = <<>>
         THEN worker' = [worker EXCEPT ![w] = "waiting"] /\ UNCHANGED <<task, queue>>
         ELSE /\ worker' = [worker EXCEPT ![w] = "run"]
              /\ task' = [task EXCEPT ![w] = Head(queue)]
              /\ queue' = Tail(queue)
  /\ UNCHANGED <<stop, adder, accepted, ran, destroyer, loopVars>>

WorkerRuns(w) ==
  /\ worker[w] = "run"
  /\ ran' = [ran EXCEPT ![task[w]] = @ + 1]
  /\ worker' = [worker EXCEPT ![w] = "lock"]
  /\ UNCHANGED <<queue, stop, task, adder, accepted, destroyer, loopVars>>

Stop ==
  /\ destroyer = "no"
  /\ stop' = TRUE /\ destroyer' = "stopped"
  /\ UNCHANGED <<queue, worker, task, adder, accepted, ran, loopVars>>

MutantNotifyAll == worker

NotifyAll == [w \in Workers |-> IF worker[w] = "waiting" THEN "lock" ELSE worker[w]]

WakeAll ==
  /\ destroyer = "stopped"
  /\ worker' = NotifyAll /\ destroyer' = "joining"
  /\ UNCHANGED <<queue, stop, task, adder, accepted, ran, loopVars>>

Join ==
  /\ destroyer = "joining" /\ \A w \in Workers : worker[w] = "ended"
  /\ destroyer' = "done"
  /\ UNCHANGED <<queue, stop, worker, task, adder, accepted, ran, loopVars>>

-----------------------------------------------------------------------------
(* thread::create                                                            *)

Move(l, pc) == looper' = [looper EXCEPT ![l] = pc]

Start(l) ==
  /\ looper[l] = "new" /\ Move(l, "check")
  /\ status' = [status EXCEPT ![l] = "running"]
  /\ UNCHANGED <<taken, rounds, told, poolVars>>

CheckStopping(l) ==
  /\ looper[l] = "check"
  /\ Move(l, IF status[l] = "stopped" THEN "ended" ELSE "run")
  /\ UNCHANGED <<status, taken, rounds, told, poolVars>>

RunFunction(l) ==
  /\ looper[l] = "run" /\ Move(l, "result")
  /\ rounds' = [rounds EXCEPT ![l] = @ + 1]
  /\ UNCHANGED <<status, taken, told, poolVars>>

(* check_running: a function without a result runs once.                     *)
StopsItself(r) == r \in {"void", "false"}

(* The future belongs to the first round: getting it again throws.           *)
CheckRunning(l) ==
  /\ looper[l] = "result"
  /\ \E r \in Returns :
       /\ Move(l, IF r # "void" /\ taken[l] THEN "thrown" ELSE "check")
       /\ taken' = [taken EXCEPT ![l] = @ \/ r # "void"]
       /\ status' = [status EXCEPT ![l] = IF StopsItself(r) THEN "stopped" ELSE @]
  /\ UNCHANGED <<rounds, told, poolVars>>

(* thread::stop(thread) of the owner.                                        *)
OwnerStops(l) ==
  /\ ~told[l]
  /\ told' = [told EXCEPT ![l] = TRUE]
  /\ status' = [status EXCEPT ![l] = IF @ = "running" THEN "stopped" ELSE @]
  /\ UNCHANGED <<looper, taken, rounds, poolVars>>

-----------------------------------------------------------------------------
WorkerStep(w) == WorkerLocks(w) \/ WorkerRuns(w)
DestroyStep == Stop \/ WakeAll \/ Join
LoopStep(l) == Start(l) \/ CheckStopping(l) \/ RunFunction(l) \/ CheckRunning(l)

Next ==
  \/ \E a \in Adders : Enqueue(a) \/ NotifyOne(a)
  \/ \E w \in Workers : WorkerStep(w) \/ TaskEnqueues(w)
  \/ DestroyStep
  \/ \E l \in Loopers : LoopStep(l) \/ OwnerStops(l)

Spec == Init /\ [][Next]_vars

Fairness ==
  /\ \A w \in Workers : WF_vars(WorkerStep(w))
  /\ \A a \in Adders : WF_vars(NotifyOne(a))
  /\ WF_vars(WakeAll \/ Join)

FairSpec == Spec /\ Fairness

-----------------------------------------------------------------------------
(* Destroying the pool runs every task it has accepted, once, even one added *)
(* by another task while the destructor waits.                               *)
PoolDrains ==
  /\ destroyer = "done" => \A t \in accepted : ran[t] = 1
  /\ \A t \in Tasks : ran[t] <= 1

(* The destructor returns, and every accepted task runs: no wake-up is lost  *)
(* between an enqueue's unlock and its notification.                         *)
PoolJoins ==
  /\ destroyer = "stopped" ~> destroyer = "done"
  /\ \A t \in Tasks : t \in accepted ~> ran[t] = 1

-----------------------------------------------------------------------------
(* What the code does not ensure.                                            *)

(* A function that returns true is called again.                             *)
LoopRuns == \A l \in Loopers : looper[l] # "thrown"

(* A thread that was told to stop, stops.                                    *)
StopHonoured == \A l \in Loopers : told[l] => status[l] # "running"
=============================================================================
