----------------------------- MODULE ThreadPool -----------------------------
(***************************************************************************)
(* The ThreadPool executor (concurrency/executor/thread_pool.cc).          *)
(*                                                                         *)
(* Each worker has a public queue that other threads fill under its lock,  *)
(* a private queue only its thread uses, a semaphore to sleep on and a     *)
(* flag idle_ that says it has no thread.  Threads are started when a task *)
(* arrives, leave after max_idle_time, and give part of their private      *)
(* queue to idle workers before each task they run.                        *)
(*                                                                         *)
(* A critical section is one step.  The scans over the idle flags are one  *)
(* step each; they start at a position that depends on a hash of the       *)
(* thread, so which idle worker they find is left open.  A failed assert   *)
(* stops the thread.                                                       *)
(***************************************************************************)
EXTENDS Naturals, Sequences, FiniteSets, SequencesExt, FiniteSetsExt

CONSTANTS
  W,        \* the number of workers
  Task,     \* the tasks; each is enqueued at most once
  Client    \* threads outside the pool that enqueue

ASSUME PoolAssumption == W \in Nat \ {0} /\ IsFiniteSet(Task)

Worker == 1..W
Agent == Client \cup Worker

VARIABLES
  public, private, \* worker -> public_queue_, private_queue_
  sem,             \* worker -> the count of semaphore_
  idle,            \* worker -> idle_
  abort,           \* worker -> abort_
  atomicAbort,     \* worker -> atomic_abort_
  found,           \* worker -> task_found_or_abort_
  flag,            \* worker -> its flag in the IdleWorkerSet
  wpc,             \* worker -> where its thread is
  running,         \* worker -> the task it runs, as a sequence
  plan,            \* agent -> the enqueue_foreign calls it is about to make
  releasing,       \* agent -> the worker whose semaphore it will release, or 0
  cursor,          \* round_robin_cursor_ (modulo W)
  spc, sidx,       \* where shutdown() is, and in which worker
  fate             \* task -> what became of it

queueVars == <<public, private>>
poolVars == <<flag, cursor>>
shutVars == <<abort, atomicAbort, spc, sidx>>
vars == <<queueVars, sem, idle, found, wpc, running, plan, releasing, fate,
          poolVars, shutVars>>

WorkerPc == {"none", "drain", "markIdle", "waiting", "acquired", "lock",
             "expired", "run", "donating", "popping", "aborting", "running",
             "failed"}
ShutdownPc == {"none", "atomic", "abort", "found", "release", "join", "clear",
               "done"}
Fate == {"new", "pending", "executed", "rejected", "dropped"}

Init ==
  /\ public = [w \in Worker |-> <<>>]
  /\ private = [w \in Worker |-> <<>>]
  /\ sem = [w \in Worker |-> 0]
  /\ idle = [w \in Worker |-> TRUE]
  /\ abort = [w \in Worker |-> FALSE]
  /\ atomicAbort = [w \in Worker |-> FALSE]
  /\ found = [w \in Worker |-> FALSE]
  /\ flag = [w \in Worker |-> "Idle"]
  /\ wpc = [w \in Worker |-> "none"]
  /\ running = [w \in Worker |-> <<>>]
  /\ plan = [a \in Agent |-> <<>>]
  /\ releasing = [a \in Agent |-> 0]
  /\ cursor = 0
  /\ spc = "none"
  /\ sidx = 1
  /\ fate = [t \in Task |-> "new"]

IdleOthers(w) == {v \in Worker \ {w} : flag[v] = "Idle"}

ShareLosesExtra(s, n, k) ==
  SubSeq(s, (Len(s) \div n) * (k - 1) + 1, (Len(s) \div n) * k)

(* The k-th of n shares of a sequence: the first ones take the extra tasks.  *)
Share(s, n, k) ==
  LET size == Len(s) \div n
      extra == Len(s) % n
      begin == size * (k - 1) + Min({k - 1, extra})
      end == size * k + Min({k, extra})
  IN  SubSeq(s, begin + 1, end)

Busy(a) == plan[a] # <<>> \/ releasing[a] # 0

SetFate(s, f) == [t \in Task |-> IF t \in ToSet(s) THEN f ELSE fate[t]]

Batches(p) == FoldLeft(LAMBDA s, d : s \o d.batch, <<>>, p)

-----------------------------------------------------------------------------
(* enqueue_foreign and ensure_worker_active, called by any agent.            *)

FirstEnqueuerInverted(w) == public[w] # <<>>

(* Whoever fills an empty public queue releases the semaphore.               *)
FirstEnqueuer(w) == public[w] = <<>>

(* ensure_worker_active of a worker without a thread; the join of the thread *)
(* it had before waits for nothing but that thread's return.                 *)
StartThread(w) ==
  /\ wpc' = [wpc EXCEPT ![w] = "drain"]
  /\ idle' = [idle EXCEPT ![w] = FALSE]

EnqueueForeign(a) ==
  /\ plan[a] # <<>>
  /\ releasing[a] = 0
  /\ LET w == Head(plan[a]).to
     IN  /\ ~abort[w]
         /\ found' = [found EXCEPT ![w] = TRUE]
         /\ public' = [public EXCEPT ![w] = @ \o Head(plan[a]).batch]
         /\ IF idle[w]
              THEN StartThread(w) /\ UNCHANGED releasing
              ELSE /\ releasing' = [releasing EXCEPT ![a] =
                        IF FirstEnqueuer(w) THEN w ELSE 0]
                   /\ UNCHANGED <<wpc, idle>>
  /\ plan' = [plan EXCEPT ![a] = Tail(@)]
  /\ UNCHANGED <<private, sem, running, fate, poolVars, shutVars>>

(* semaphore_.release() after the unlock.                                    *)
ReleaseSemaphore(a) ==
  /\ releasing[a] # 0
  /\ sem' = [sem EXCEPT ![releasing[a]] = @ + 1]
  /\ releasing' = [releasing EXCEPT ![a] = 0]
  /\ UNCHANGED <<queueVars, idle, found, wpc, running, plan, fate, poolVars,
                 shutVars>>

(* The target is shut down.  A caller of enqueue loses its tasks.  A worker  *)
(* that was donating keeps what it has not given away, and its work_loop     *)
(* catches the exception and ends the thread.                                *)
EnqueueThrows(a) ==
  /\ plan[a] # <<>>
  /\ releasing[a] = 0
  /\ abort[Head(plan[a]).to]
  /\ plan' = [plan EXCEPT ![a] = <<>>]
  /\ IF a \in Worker /\ wpc[a] = "donating"
       THEN /\ private' = [private EXCEPT ![a] = Batches(plan[a]) \o @]
            /\ idle' = [idle EXCEPT ![a] = TRUE]
            /\ wpc' = [wpc EXCEPT ![a] = "none"]
            /\ UNCHANGED fate
       ELSE /\ fate' = SetFate(Batches(plan[a]), "rejected")
            /\ UNCHANGED <<private, idle, wpc>>
  /\ UNCHANGED <<public, sem, found, running, releasing, poolVars, shutVars>>

-----------------------------------------------------------------------------
(* ThreadPool::enqueue.                                                      *)

(* One task from outside: an idle worker, or the next one in turn.           *)
ClientEnqueue(c, t) ==
  /\ ~Busy(c)
  /\ fate[t] = "new"
  /\ \/ \E v \in IdleOthers(0) :
          /\ flag' = [flag EXCEPT ![v] = "Active"]
          /\ plan' = [plan EXCEPT ![c] = <<[to |-> v, batch |-> <<t>>]>>]
          /\ UNCHANGED cursor
     \/ /\ IdleOthers(0) = {}
        /\ plan' = [plan EXCEPT ![c] = <<[to |-> cursor + 1, batch |-> <<t>>]>>]
        /\ cursor' = (cursor + 1) % W
        /\ UNCHANGED flag
  /\ fate' = SetFate(<<t>>, "pending")
  /\ UNCHANGED <<queueVars, sem, idle, found, wpc, running, releasing, shutVars>>

(* As many tasks as workers or more: a share for every worker.  Fewer are    *)
(* enqueued one by one.                                                      *)
ClientEnqueueSpan(c, s) ==
  /\ ~Busy(c)
  /\ \A t \in ToSet(s) : fate[t] = "new"
  /\ Len(s) >= W
  /\ plan' = [plan EXCEPT ![c] =
       [k \in Worker |-> [to |-> k, batch |-> Share(s, W, k)]]]
  /\ fate' = SetFate(s, "pending")
  /\ UNCHANGED <<queueVars, sem, idle, found, wpc, running, releasing, poolVars,
                 shutVars>>

(* enqueue_local: onto the private queue, unless the worker is shut down.    *)
EnqueueLocal(w, s) ==
  /\ IF atomicAbort[w]
       THEN fate' = SetFate(s, "rejected") /\ UNCHANGED private
       ELSE /\ private' = [private EXCEPT ![w] = @ \o s]
            /\ fate' = SetFate(s, "pending")
  /\ UNCHANGED <<public, flag, plan>>

(* One task from a task that a worker runs: its own queue when it appears    *)
(* empty, else an idle worker, else its own queue.                           *)
WorkerEnqueue(w, t) ==
  /\ wpc[w] = "running"
  /\ ~Busy(w)
  /\ fate[t] = "new"
  /\ IF (private[w] = <<>> /\ ~found[w]) \/ IdleOthers(w) = {}
       THEN EnqueueLocal(w, <<t>>)
       ELSE \E v \in IdleOthers(w) :
              /\ flag' = [flag EXCEPT ![v] = "Active"]
              /\ plan' = [plan EXCEPT ![w] = <<[to |-> v, batch |-> <<t>>]>>]
              /\ fate' = SetFate(<<t>>, "pending")
              /\ UNCHANGED queueVars
  /\ UNCHANGED <<sem, idle, found, wpc, running, releasing, cursor, shutVars>>

(* Several tasks from a worker stay with it.                                 *)
WorkerEnqueueSpan(w, s) ==
  /\ wpc[w] = "running"
  /\ ~Busy(w)
  /\ \A t \in ToSet(s) : fate[t] = "new"
  /\ EnqueueLocal(w, s)
  /\ UNCHANGED <<sem, idle, found, wpc, running, releasing, cursor, shutVars>>

-----------------------------------------------------------------------------
(* The thread of a worker: work_loop, drain_queue, wait_for_task.            *)

ThreadEnds(w) ==
  /\ idle' = [idle EXCEPT ![w] = TRUE]
  /\ wpc' = [wpc EXCEPT ![w] = "none"]

(* drain_queue once wait_for_task has the lock and something to report: it   *)
(* asserts that the private queue is empty and swaps the two.                *)
TakeQueue(w) ==
  \/ /\ abort[w]
     /\ found' = [found EXCEPT ![w] = FALSE]
     /\ ThreadEnds(w)
     /\ UNCHANGED queueVars
  \/ /\ ~abort[w]
     /\ private[w] = <<>>
     /\ found' = [found EXCEPT ![w] = FALSE]
     /\ private' = [private EXCEPT ![w] = public[w]]
     /\ public' = [public EXCEPT ![w] = <<>>]
     /\ wpc' = [wpc EXCEPT ![w] = "run"]
     /\ UNCHANGED idle
  \/ /\ ~abort[w]
     /\ private[w] # <<>>
     /\ wpc' = [wpc EXCEPT ![w] = "failed"]
     /\ UNCHANGED <<queueVars, found, idle>>

Drain(w) ==
  /\ wpc[w] = "drain"
  /\ IF public[w] # <<>> \/ abort[w]
       THEN TakeQueue(w)
       ELSE /\ wpc' = [wpc EXCEPT ![w] = "markIdle"]
            /\ UNCHANGED <<queueVars, found, idle>>
  /\ UNCHANGED <<sem, running, plan, releasing, fate, poolVars, shutVars>>

MarkIdle(w) ==
  /\ wpc[w] = "markIdle"
  /\ flag' = [flag EXCEPT ![w] = "Idle"]
  /\ wpc' = [wpc EXCEPT ![w] = "waiting"]
  /\ UNCHANGED <<queueVars, sem, idle, found, running, plan, releasing, fate,
                 cursor, shutVars>>

CanAcquireAlways(w) == TRUE

CanAcquire(w) == sem[w] > 0

Acquire(w) ==
  /\ wpc[w] = "waiting"
  /\ CanAcquire(w)
  /\ sem' = [sem EXCEPT ![w] = @ - 1]
  /\ wpc' = [wpc EXCEPT ![w] = "acquired"]
  /\ UNCHANGED <<queueVars, idle, found, running, plan, releasing, fate, poolVars,
                 shutVars>>

(* The relaxed load of task_found_or_abort_ before the lock.                 *)
CheckFound(w) ==
  /\ wpc[w] = "acquired"
  /\ wpc' = [wpc EXCEPT ![w] = IF found[w] THEN "lock" ELSE "waiting"]
  /\ UNCHANGED <<queueVars, sem, idle, found, running, plan, releasing, fate,
                 poolVars, shutVars>>

(* Under the lock: a false alarm, an abort, or mark_worker_active and the    *)
(* rest of drain_queue.                                                      *)
EventFound(w) ==
  /\ wpc[w] = "lock"
  /\ \/ /\ public[w] = <<>> /\ ~abort[w]
        /\ wpc' = [wpc EXCEPT ![w] = "waiting"]
        /\ UNCHANGED <<queueVars, idle, found, flag>>
     \/ /\ abort[w]
        /\ ThreadEnds(w)
        /\ UNCHANGED <<queueVars, found, flag>>
     \/ /\ public[w] # <<>> /\ ~abort[w]
        /\ flag' = [flag EXCEPT ![w] = "Active"]
        /\ TakeQueue(w)
  /\ UNCHANGED <<sem, running, plan, releasing, fate, cursor, shutVars>>

(* max_idle_time passed and the semaphore could not be acquired.             *)
Timeout(w) ==
  /\ wpc[w] = "waiting"
  /\ ~CanAcquire(w)
  /\ wpc' = [wpc EXCEPT ![w] = "expired"]
  /\ UNCHANGED <<queueVars, sem, idle, found, running, plan, releasing, fate,
                 poolVars, shutVars>>

Expire(w) ==
  /\ wpc[w] = "expired"
  /\ ThreadEnds(w)
  /\ UNCHANGED <<queueVars, sem, found, running, plan, releasing, fate, poolVars,
                 shutVars>>

-----------------------------------------------------------------------------
(* drain_queue_impl and balance_work.                                        *)

PrivateDrained(w) ==
  /\ wpc[w] = "run"
  /\ private[w] = <<>>
  /\ wpc' = [wpc EXCEPT ![w] = "drain"]
  /\ UNCHANGED <<queueVars, sem, idle, found, running, plan, releasing, fate,
                 poolVars, shutVars>>

MostDoneesOffByOne(w) ==
  Min({W - 1, Len(private[w]), Cardinality(IdleOthers(w))})

(* At most one fewer than there are tasks.                                   *)
MostDonees(w) ==
  Min({W - 1, Len(private[w]) - 1, Cardinality(IdleOthers(w))})

(* balance_work: acquire idle workers and plan their shares; the last share  *)
(* stays.                                                                    *)
BalanceWork(w) ==
  /\ wpc[w] = "run"
  /\ private[w] # <<>>
  /\ LET most == MostDonees(w)
     IN  \E S \in kSubset(most, IdleOthers(w)) :
           LET after(x, y) == (x + W - w) % W < (y + W - w) % W
               targets == SetToSortSeq(S, after)
               n == most + 1
           IN  /\ flag' = [v \in Worker |-> IF v \in S THEN "Active" ELSE flag[v]]
               /\ plan' = [plan EXCEPT ![w] = [k \in 1..most |->
                    [to |-> targets[k], batch |-> Share(private[w], n, k)]]]
               /\ private' = [private EXCEPT ![w] = Share(@, n, n)]
               /\ wpc' = [wpc EXCEPT ![w] = "donating"]
  /\ UNCHANGED <<public, sem, idle, found, running, releasing, fate, cursor,
                 shutVars>>

BalanceDone(w) ==
  /\ wpc[w] = "donating"
  /\ ~Busy(w)
  /\ wpc' = [wpc EXCEPT ![w] = "popping"]
  /\ UNCHANGED <<queueVars, sem, idle, found, running, plan, releasing, fate,
                 poolVars, shutVars>>

(* The last task of the private queue is the next to run.                    *)
PopTask(w) ==
  /\ wpc[w] = "popping"
  /\ IF atomicAbort[w]
       THEN wpc' = [wpc EXCEPT ![w] = "aborting"] /\ UNCHANGED <<private, running>>
       ELSE /\ running' = [running EXCEPT ![w] = <<Last(private[w])>>]
            /\ private' = [private EXCEPT ![w] = Front(@)]
            /\ wpc' = [wpc EXCEPT ![w] = "running"]
  /\ UNCHANGED <<public, sem, idle, found, plan, releasing, fate, poolVars,
                 shutVars>>

AbortDrain(w) ==
  /\ wpc[w] = "aborting"
  /\ ThreadEnds(w)
  /\ UNCHANGED <<queueVars, sem, found, running, plan, releasing, fate, poolVars,
                 shutVars>>

TaskReturns(w) ==
  /\ wpc[w] = "running"
  /\ ~Busy(w)
  /\ fate' = SetFate(running[w], "executed")
  /\ running' = [running EXCEPT ![w] = <<>>]
  /\ wpc' = [wpc EXCEPT ![w] = "run"]
  /\ UNCHANGED <<queueVars, sem, idle, found, plan, releasing, poolVars, shutVars>>

-----------------------------------------------------------------------------
(* ThreadPool::shutdown, and the shutdown of each worker in turn.            *)

ShutdownMove(from, to) ==
  /\ spc = from
  /\ spc' = to
  /\ UNCHANGED <<idle, wpc, running, plan, releasing, poolVars>>

ShutdownBegin ==
  /\ ShutdownMove("none", "atomic")
  /\ UNCHANGED <<queueVars, sem, found, fate, abort, atomicAbort, sidx>>

ShutdownAtomic ==
  /\ ShutdownMove("atomic", "abort")
  /\ atomicAbort' = [atomicAbort EXCEPT ![sidx] = TRUE]
  /\ UNCHANGED <<queueVars, sem, found, fate, abort, sidx>>

ShutdownAbort ==
  /\ ShutdownMove("abort", "found")
  /\ abort' = [abort EXCEPT ![sidx] = TRUE]
  /\ UNCHANGED <<queueVars, sem, found, fate, atomicAbort, sidx>>

ShutdownFound ==
  /\ ShutdownMove("found", "release")
  /\ found' = [found EXCEPT ![sidx] = TRUE]
  /\ UNCHANGED <<queueVars, sem, fate, abort, atomicAbort, sidx>>

ShutdownRelease ==
  /\ ShutdownMove("release", "join")
  /\ sem' = [sem EXCEPT ![sidx] = @ + 1]
  /\ UNCHANGED <<queueVars, found, fate, abort, atomicAbort, sidx>>

Joined(w) == wpc[w] = "none"

ShutdownJoin ==
  /\ Joined(sidx)
  /\ ShutdownMove("join", "clear")
  /\ UNCHANGED <<queueVars, sem, found, fate, abort, atomicAbort, sidx>>

ShutdownClear ==
  /\ ShutdownMove("clear", IF sidx = W THEN "done" ELSE "atomic")
  /\ fate' = SetFate(public[sidx] \o private[sidx], "dropped")
  /\ public' = [public EXCEPT ![sidx] = <<>>]
  /\ private' = [private EXCEPT ![sidx] = <<>>]
  /\ sidx' = IF sidx = W THEN sidx ELSE sidx + 1
  /\ UNCHANGED <<sem, found, abort, atomicAbort>>

-----------------------------------------------------------------------------
Spans == {SetToSeq(S) : S \in SUBSET Task \ {{}}}

NewTasks ==
  \/ \E c \in Client, t \in Task : ClientEnqueue(c, t)
  \/ \E c \in Client, s \in Spans : ClientEnqueueSpan(c, s)
  \/ \E w \in Worker, t \in Task : WorkerEnqueue(w, t)
  \/ \E w \in Worker, s \in Spans : WorkerEnqueueSpan(w, s)

EnqueueStep(a) == EnqueueForeign(a) \/ ReleaseSemaphore(a) \/ EnqueueThrows(a)

ThreadStep(w) ==
  \/ Drain(w) \/ MarkIdle(w) \/ Acquire(w) \/ CheckFound(w) \/ EventFound(w)
  \/ Expire(w) \/ PrivateDrained(w) \/ BalanceWork(w) \/ BalanceDone(w)
  \/ PopTask(w) \/ AbortDrain(w) \/ TaskReturns(w)

Shutdown ==
  \/ ShutdownAtomic \/ ShutdownAbort \/ ShutdownFound \/ ShutdownRelease
  \/ ShutdownJoin \/ ShutdownClear

Serve ==
  \/ NewTasks
  \/ \E a \in Agent : EnqueueStep(a)
  \/ \E w \in Worker : ThreadStep(w)

Stop == ShutdownBegin \/ Shutdown

Leave == \E w \in Worker : Timeout(w)

Next == Serve \/ Stop \/ Leave

Spec == Init /\ [][Next]_vars

Fairness ==
  /\ \A a \in Agent : WF_vars(EnqueueStep(a))
  /\ \A w \in Worker : WF_vars(ThreadStep(w))

(* The pool is not shut down; its threads may leave.                         *)
ServingSpec == Init /\ [][Serve \/ Leave]_vars /\ Fairness

(* max_idle_time never passes: the kernel gives its pools two minutes or     *)
(* more (kDefaultMaxWorkerWaitTime).                                         *)
PatientSpec == Init /\ [][Serve]_vars /\ Fairness

-----------------------------------------------------------------------------
TypeOK ==
  /\ public \in [Worker -> Seq(Task)] /\ private \in [Worker -> Seq(Task)]
  /\ sem \in [Worker -> Nat]
  /\ \A f \in {idle, abort, atomicAbort, found} : f \in [Worker -> BOOLEAN]
  /\ flag \in [Worker -> {"Idle", "Active"}]
  /\ wpc \in [Worker -> WorkerPc]
  /\ running \in [Worker -> Seq(Task)]
  /\ releasing \in [Agent -> 0..W]
  /\ cursor \in 0..(W - 1)
  /\ spc \in ShutdownPc /\ sidx \in Worker
  /\ fate \in [Task -> Fate]

(* How often a task is somewhere in the pool or on its way into it.          *)
Copies(t) ==
  LET count(s) == Len(SelectSeq(s, LAMBDA u : u = t))
  IN  MapThenSumSet(LAMBDA w : count(public[w] \o private[w] \o running[w]), Worker)
        + MapThenSumSet(LAMBDA a : count(Batches(plan[a])), Agent)

(* A task that was taken in is in one place until it is run, refused or      *)
(* dropped by shutdown: balance_work neither loses nor doubles a task, and   *)
(* after shutdown() no thread runs and no queue holds one.                   *)
TasksKept ==
  /\ \A t \in Task : Copies(t) = (IF fate[t] = "pending" THEN 1 ELSE 0)
  /\ spc = "done" =>
       \A w \in Worker : wpc[w] = "none" /\ public[w] \o private[w] = <<>>

(* idle_ is set exactly when the worker has no thread (~ThreadPoolWorker     *)
(* finds it set), and a worker asleep on its semaphore with tasks in its     *)
(* public queue has a release coming, which task_found_or_abort_ lets        *)
(* through.                                                                  *)
WakeupKept ==
  \A w \in Worker :
    /\ idle[w] <=> wpc[w] = "none"
    /\ public[w] # <<>> /\ ~abort[w] =>
         /\ found[w]
         /\ wpc[w] = "waiting" =>
              sem[w] > 0 \/ \E a \in Agent : releasing[a] = w

(* The asserts of balance_work: every share given away has a task and the    *)
(* donor keeps at least one.                                                 *)
BalanceKeepsTask ==
  \A w \in Worker :
    wpc[w] \in {"donating", "popping"} =>
      /\ private[w] # <<>>
      /\ \A k \in 1..Len(plan[w]) : plan[w][k].batch # <<>>

(* drain_queue's assert(private_queue_.empty()).                             *)
PrivateQueueAssert == \A w \in Worker : wpc[w] # "failed"

(* Every task the pool takes in is run in the end: new threads are injected  *)
(* when new tasks arrive.                                                    *)
TasksRun == \A t \in Task : fate[t] = "pending" ~> fate[t] = "executed"
=============================================================================
