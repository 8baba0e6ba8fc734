---------------------------- MODULE WorkerThread ----------------------------
(***************************************************************************)
(* The WorkerThread executor (concurrency/executor/worker_thread.cc): one  *)
(* thread, made by the first task, that swaps the public queue filled by   *)
(* others under the lock with a private queue of its own.                  *)
(*                                                                         *)
(* enqueue called from a task of the worker does not return after          *)
(* enqueue_local: it goes on to enqueue_foreign with the tasks it has just *)
(* moved away, so an empty Task per task also enters the public queue.     *)
(* Calling an empty Task does nothing.                                     *)
(***************************************************************************)
EXTENDS Naturals, Sequences, FiniteSets, SequencesExt

CONSTANTS
  Task,     \* the tasks; each is enqueued at most once
  Client,   \* the threads that enqueue, other than the worker's own
  Worker,   \* the worker's own thread
  EmptyTask \* a Task that was moved from

Agent == Client \cup {Worker}

VARIABLES
  public, private, \* public_queue_, private_queue_
  sem,             \* the count of semaphore_
  joinable,        \* thread_.joinable()
  abort,           \* abort_
  privateAbort,    \* private_atomic_abort_
  wpc, running,    \* where the thread is, and the task it took
  moved,           \* how many moved-from tasks it still has to enqueue
  releasing,       \* the agents that are about to release the semaphore
  spc,             \* where shutdown() is
  fate,            \* task -> what became of it
  foreign, local,  \* the tasks accepted by enqueue_foreign, enqueue_local
  ran              \* the tasks run, in order

wakeVars == <<sem, releasing>>
abortVars == <<abort, privateAbort>>
workVars == <<running, moved>>
historyVars == <<foreign, local, ran>>
vars == <<public, private, fate, joinable, wpc, spc, wakeVars, abortVars,
          workVars, historyVars>>

WorkerPc == {"none", "lock", "waiting", "drain", "running", "foreign", "ended"}
ShutdownPc == {"none", "abort", "private", "release", "join", "clear", "done"}
Fate == {"new", "pending", "executed", "rejected", "dropped"}

Init ==
  /\ public = <<>> /\ private = <<>>
  /\ sem = 0
  /\ joinable = FALSE
  /\ abort = FALSE /\ privateAbort = FALSE
  /\ wpc = "none" /\ running = EmptyTask /\ moved = 0
  /\ releasing = {}
  /\ spc = "none"
  /\ fate = [t \in Task |-> "new"]
  /\ foreign = <<>> /\ local = <<>> /\ ran = <<>>

SetFate(s, f) == [t \in Task |-> IF t \in ToSet(s) THEN f ELSE fate[t]]

(* What a caller hands over: one task, or a span of two.                     *)
Batch ==
  LET new == {t \in Task : fate[t] = "new"}
  IN  {<<t>> : t \in new} \cup {p \in new \X new : p[1] # p[2]}

-----------------------------------------------------------------------------
(* enqueue_foreign: the critical section, then the release of the semaphore. *)

MustReleaseNever == FALSE

(* Whoever fills an empty queue wakes the worker.                            *)
MustRelease == public = <<>>

(* make_os_worker_thread is called only while thread_ is not joinable.       *)
MakesThread == ~joinable

PushFront(batch) == batch \o public

PushBack(batch) == public \o batch

Push(a, batch) ==
  /\ ~abort
  /\ public' = PushBack(batch)
  /\ IF MakesThread
       THEN /\ joinable' = TRUE
            /\ wpc' = "lock"
            /\ UNCHANGED releasing
       ELSE /\ releasing' = IF MustRelease THEN releasing \cup {a} ELSE releasing
            /\ wpc' = IF a = Worker THEN "running" ELSE wpc
            /\ UNCHANGED joinable

ClientEnqueue(c) ==
  /\ c \notin releasing
  /\ \E batch \in Batch :
       /\ Push(c, batch)
       /\ fate' = SetFate(batch, "pending")
       /\ foreign' = foreign \o batch
  /\ UNCHANGED <<private, sem, spc, local, ran, abortVars, workVars>>

(* abort_ is set: enqueue_foreign throws.                                    *)
ClientRejected(c) ==
  /\ c \notin releasing
  /\ abort
  /\ \E batch \in Batch : fate' = SetFate(batch, "rejected")
  /\ UNCHANGED <<public, joinable, spc, private, wpc, wakeVars, abortVars,
                 workVars, historyVars>>

ReleaseSemaphore(a) ==
  /\ a \in releasing
  /\ releasing' = releasing \ {a}
  /\ sem' = sem + 1
  /\ UNCHANGED <<public, joinable, spc, fate, private, wpc, abortVars,
                 workVars, historyVars>>

(* A task that the worker runs enqueues others.                              *)
EnqueueLocal ==
  /\ wpc = "running" /\ Worker \notin releasing
  /\ \E batch \in Batch :
       IF privateAbort
         THEN /\ fate' = SetFate(batch, "rejected")
              /\ UNCHANGED <<private, wpc, moved, local>>
         ELSE /\ private' = private \o batch
              /\ fate' = SetFate(batch, "pending")
              /\ local' = local \o batch
              /\ moved' = Len(batch)
              /\ wpc' = "foreign"
  /\ UNCHANGED <<public, joinable, running, spc, foreign, ran, wakeVars,
                 abortVars>>

(* ... and enqueue goes on to enqueue_foreign.                               *)
EnqueueMoved ==
  /\ wpc = "foreign"
  /\ Push(Worker, [i \in 1..moved |-> EmptyTask])
  /\ moved' = 0
  /\ UNCHANGED <<private, sem, running, spc, fate, abortVars, historyVars>>

(* ... which throws after shutdown: the caller sees an exception although    *)
(* its tasks stay in the private queue.                                      *)
EnqueueMovedThrows ==
  /\ wpc = "foreign"
  /\ abort
  /\ wpc' = "running"
  /\ moved' = 0
  /\ UNCHANGED <<public, private, joinable, running, spc, fate, wakeVars,
                 abortVars, historyVars>>

-----------------------------------------------------------------------------
(* work_loop: drain_queue until it returns false.                            *)

(* wait_for_task under the lock, then the swap of the queues.                *)
DrainQueue ==
  /\ wpc = "lock"
  /\ \/ /\ public = <<>> /\ ~abort
        /\ wpc' = "waiting"
        /\ UNCHANGED <<public, private>>
     \/ /\ abort
        /\ wpc' = "ended"
        /\ UNCHANGED <<public, private>>
     \/ /\ public # <<>> /\ ~abort
        /\ private' = public
        /\ public' = private
        /\ wpc' = "drain"
  /\ UNCHANGED <<joinable, spc, fate, wakeVars, abortVars, workVars,
                 historyVars>>

CanAcquireAlways == TRUE

CanAcquire == sem > 0

Acquire ==
  /\ wpc = "waiting"
  /\ CanAcquire
  /\ sem' = sem - 1
  /\ wpc' = "lock"
  /\ UNCHANGED <<public, private, joinable, releasing, spc, fate, abortVars,
                 workVars, historyVars>>

(* drain_queue_impl: the task is taken before the flag is looked at.         *)
PopFront == Tail(private)

PopTask ==
  /\ wpc = "drain"
  /\ private # <<>>
  /\ private' = PopFront
  /\ IF privateAbort
       THEN /\ wpc' = "ended"
            /\ fate' = SetFate(<<Head(private)>>, "dropped")
            /\ UNCHANGED running
       ELSE /\ wpc' = "running"
            /\ running' = Head(private)
            /\ UNCHANGED fate
  /\ UNCHANGED <<public, joinable, moved, spc, wakeVars, abortVars,
                 historyVars>>

Drained == private = <<>>

QueueDrained ==
  /\ wpc = "drain"
  /\ Drained
  /\ wpc' = "lock"
  /\ UNCHANGED <<public, private, joinable, spc, fate, wakeVars, abortVars,
                 workVars, historyVars>>

TaskReturns ==
  /\ wpc = "running" /\ Worker \notin releasing
  /\ wpc' = "drain"
  /\ running' = EmptyTask
  /\ fate' = SetFate(<<running>>, "executed")
  /\ ran' = IF running = EmptyTask THEN ran ELSE Append(ran, running)
  /\ UNCHANGED <<public, private, joinable, moved, spc, foreign, local,
                 wakeVars, abortVars>>

-----------------------------------------------------------------------------
(* shutdown(); a second call finds atomic_abort_ set and returns.            *)

ShutdownStep(from, to) == spc = from /\ spc' = to

ShutdownBegin ==
  /\ ShutdownStep("none", "abort")
  /\ UNCHANGED <<public, joinable, fate, private, wpc, wakeVars, abortVars,
                 workVars, historyVars>>

ShutdownAbort ==
  /\ ShutdownStep("abort", "private")
  /\ abort' = TRUE
  /\ UNCHANGED <<public, joinable, privateAbort, fate, private, wpc, wakeVars,
                 workVars, historyVars>>

ShutdownPrivate ==
  /\ ShutdownStep("private", "release")
  /\ privateAbort' = TRUE
  /\ UNCHANGED <<public, joinable, abort, fate, private, wpc, wakeVars,
                 workVars, historyVars>>

NoRelease == sem

Released == sem + 1

ShutdownRelease ==
  /\ ShutdownStep("release", "join")
  /\ sem' = Released
  /\ UNCHANGED <<public, joinable, releasing, fate, private, wpc, abortVars,
                 workVars, historyVars>>

Joined == joinable => wpc = "ended"

ShutdownJoin ==
  /\ ShutdownStep("join", "clear")
  /\ Joined
  /\ joinable' = FALSE
  /\ UNCHANGED <<public, fate, private, wpc, wakeVars, abortVars, workVars,
                 historyVars>>

ShutdownClear ==
  /\ ShutdownStep("clear", "done")
  /\ fate' = SetFate(private \o public, "dropped")
  /\ private' = <<>> /\ public' = <<>>
  /\ UNCHANGED <<joinable, wpc, wakeVars, abortVars, workVars, historyVars>>

-----------------------------------------------------------------------------
WorkerStep ==
  \/ EnqueueMoved \/ EnqueueMovedThrows
  \/ DrainQueue \/ Acquire \/ PopTask \/ QueueDrained \/ TaskReturns

ShutdownSteps ==
  \/ ShutdownAbort \/ ShutdownPrivate \/ ShutdownRelease
  \/ ShutdownJoin \/ ShutdownClear

Next ==
  \/ \E c \in Client : ClientEnqueue(c) \/ ClientRejected(c)
  \/ \E a \in Agent : ReleaseSemaphore(a)
  \/ EnqueueLocal
  \/ WorkerStep
  \/ ShutdownBegin \/ ShutdownSteps

Spec == Init /\ [][Next]_vars

(* Threads that can run do run, and every task returns; whether anybody      *)
(* enqueues or shuts down is up to the callers.                              *)
FairSpec ==
  /\ Spec
  /\ \A a \in Agent : WF_vars(ReleaseSemaphore(a))
  /\ WF_vars(EnqueueMoved \/ EnqueueMovedThrows)
  /\ WF_vars(DrainQueue) /\ WF_vars(Acquire) /\ WF_vars(PopTask)
  /\ WF_vars(QueueDrained) /\ WF_vars(TaskReturns)
  /\ WF_vars(ShutdownSteps)

-----------------------------------------------------------------------------
TypeOK ==
  /\ public \in Seq(Task \cup {EmptyTask})
  /\ private \in Seq(Task \cup {EmptyTask})
  /\ sem \in Nat
  /\ {joinable, abort, privateAbort} \subseteq BOOLEAN
  /\ wpc \in WorkerPc /\ running \in Task \cup {EmptyTask}
  /\ moved \in 0..Cardinality(Task)
  /\ releasing \subseteq Agent
  /\ spc \in ShutdownPc
  /\ fate \in [Task -> Fate]

(* A task that was accepted is in one place, a queue or the worker's hands,  *)
(* until it is run or dropped.  Tasks of other threads run in the order in   *)
(* which enqueue took them, and so do the tasks that tasks enqueue, whatever *)
(* swaps happen in between.  After shutdown none runs and none is left.      *)
TasksKept ==
  LET at(s, t) == Cardinality({i \in 1..Len(s) : s[i] = t})
      inOrder(s) == IsPrefix(SelectSeq(ran, LAMBDA t : t \in ToSet(s)), s)
  IN  /\ \A t \in Task :
           at(public, t) + at(private, t) + (IF running = t THEN 1 ELSE 0)
             = IF fate[t] = "pending" THEN 1 ELSE 0
      /\ inOrder(foreign) /\ inOrder(local)
      /\ spc = "done" => wpc \in {"none", "ended"} /\ public \o private = <<>>

(* A task that was taken in is run, unless a shutdown drops it: no swap of   *)
(* the queues loses the wake-up of the worker.                               *)
TasksRun ==
  \A t \in Task : fate[t] = "pending" ~> fate[t] \in {"executed", "dropped"}

(* shutdown returns: the thread it joins is always woken.                    *)
ShutdownReturns == spc = "abort" ~> spc = "done"
=============================================================================
