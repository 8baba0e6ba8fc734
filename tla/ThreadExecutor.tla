--------------------------- MODULE ThreadExecutor ---------------------------
(***************************************************************************)
(* The Thread executor (concurrency/executor/thread.cc): a thread for each *)
(* task.  A thread that is done moves itself from workers_ to              *)
(* last_retired_ and joins the thread it found there, so the threads join  *)
(* one another in a chain and shutdown joins only the last of them.        *)
(*                                                                         *)
(* A thread is named by its task.  shutdown holds the lock while it joins. *)
(***************************************************************************)
EXTENDS Naturals

CONSTANT Task  \* the tasks; each is enqueued at most once

VARIABLES
  workers,      \* workers_
  lastRetired,  \* last_retired_
  toJoin,       \* thread -> the threads it took out of last_retired_
  pc,           \* thread -> where it is
  abort,        \* abort_
  spc,          \* where shutdown() is
  rank,         \* thread -> when it retired (1, 2, ...), 0 before
  retired       \* how many threads have retired

joinVars == <<lastRetired, toJoin, rank, retired>>
vars == <<workers, joinVars, pc, abort, spc>>

ThreadPc == {"none", "rejected", "task", "retire", "notify", "join", "ended"}
ShutdownPc == {"none", "lock", "wait", "asleep", "join", "done"}

Init ==
  /\ workers = {} /\ lastRetired = {}
  /\ toJoin = [t \in Task |-> {}]
  /\ pc = [t \in Task |-> "none"]
  /\ abort = FALSE
  /\ spc = "none"
  /\ rank = [t \in Task |-> 0]
  /\ retired = 0

LockHeldAsleep == spc \notin {"wait", "asleep", "join"}

(* shutdown keeps lock_ from the end of its wait to its return.              *)
LockIsFree == spc # "join"

(* enqueue of one task or of a span, from any thread; it throws after        *)
(* shutdown.                                                                 *)
Enqueue(batch) ==
  /\ LockIsFree
  /\ batch # {} /\ \A t \in batch : pc[t] = "none"
  /\ pc' = [t \in Task |-> IF t \notin batch THEN pc[t]
                           ELSE IF abort THEN "rejected" ELSE "task"]
  /\ workers' = IF abort THEN workers ELSE workers \cup batch
  /\ UNCHANGED <<abort, spc, joinVars>>

TaskReturns(t) ==
  /\ pc[t] = "task"
  /\ pc' = [pc EXCEPT ![t] = "retire"]
  /\ UNCHANGED <<workers, abort, spc, joinVars>>

(* What last_retired_ holds after the splice.                                *)
Retired(t) == {t}

MovedAfterSplice(t) == lastRetired \cup {t}

(* What the thread takes out of last_retired_ and will join.                 *)
MovedOut(t) == lastRetired

WorkersLeft(t) == workers \ {t}

(* retire_worker under the lock.                                             *)
RetireWorker(t) ==
  /\ pc[t] = "retire"
  /\ LockIsFree
  /\ toJoin' = [toJoin EXCEPT ![t] = MovedOut(t)]
  /\ lastRetired' = Retired(t)
  /\ workers' = WorkersLeft(t)
  /\ retired' = retired + 1
  /\ rank' = [rank EXCEPT ![t] = retired + 1]
  /\ pc' = [pc EXCEPT ![t] = "notify"]
  /\ UNCHANGED <<abort, spc>>

Notified == IF spc = "asleep" THEN "wait" ELSE spc

(* condition_.notify_one(): shutdown is the only sleeper.                    *)
NotifyOne(t) ==
  /\ pc[t] = "notify"
  /\ spc' = Notified
  /\ pc' = [pc EXCEPT ![t] = "join"]
  /\ UNCHANGED <<workers, abort, joinVars>>

CanEndUnjoined(t) == TRUE

(* The thread ends once the thread it joins has ended.                       *)
CanEnd(t) == \A u \in toJoin[t] : pc[u] = "ended"

JoinOlder(t) ==
  /\ pc[t] = "join"
  /\ CanEnd(t)
  /\ pc' = [pc EXCEPT ![t] = "ended"]
  /\ UNCHANGED <<workers, abort, spc, joinVars>>

-----------------------------------------------------------------------------
(* shutdown(); a second call finds atomic_abort_ set and returns.            *)

ShutdownBegin ==
  /\ spc = "none"
  /\ spc' = "lock"
  /\ UNCHANGED <<workers, pc, abort, joinVars>>

ShutdownLock ==
  /\ spc = "lock"
  /\ spc' = "wait"
  /\ abort' = TRUE
  /\ UNCHANGED <<workers, pc, joinVars>>

(* The condition of shutdown's wait.                                         *)
WaitOver == workers = {}

ShutdownWait ==
  /\ spc = "wait"
  /\ spc' = IF WaitOver THEN "join" ELSE "asleep"
  /\ UNCHANGED <<workers, pc, abort, joinVars>>

SpuriousWakeup ==
  /\ spc = "asleep"
  /\ spc' = "wait"
  /\ UNCHANGED <<workers, pc, abort, joinVars>>

(* With nothing in last_retired_ shutdown returns at once.                   *)
ShutdownJoin ==
  /\ spc = "join"
  /\ \A t \in lastRetired : pc[t] = "ended"
  /\ lastRetired' = {}
  /\ spc' = "done"
  /\ UNCHANGED <<workers, toJoin, pc, abort, rank, retired>>

Finished ==
  /\ spc = "done"
  /\ \A t \in Task : pc[t] \in {"rejected", "ended"}
  /\ UNCHANGED vars

-----------------------------------------------------------------------------
ThreadStep(t) ==
  TaskReturns(t) \/ RetireWorker(t) \/ NotifyOne(t) \/ JoinOlder(t)

ShutdownStep == ShutdownLock \/ ShutdownWait \/ ShutdownJoin

Next ==
  \/ \E batch \in SUBSET Task : Enqueue(batch)
  \/ \E t \in Task : ThreadStep(t)
  \/ ShutdownBegin \/ ShutdownStep
  \/ SpuriousWakeup
  \/ Finished

Spec == Init /\ [][Next]_vars

(* Threads that can run do run and every task returns.                       *)
FairSpec ==
  Spec /\ (\A t \in Task : WF_vars(ThreadStep(t))) /\ WF_vars(ShutdownStep)

-----------------------------------------------------------------------------
TypeOK ==
  /\ workers \subseteq {t \in Task : pc[t] \in {"task", "retire"}}
  /\ lastRetired \subseteq Task
  /\ toJoin \in [Task -> SUBSET Task]
  /\ pc \in [Task -> ThreadPc]
  /\ abort \in BOOLEAN
  /\ spc \in ShutdownPc
  /\ rank \in [Task -> Nat] /\ retired \in Nat

(* "the executor returns only when all tasks are done"                       *)
(* (thread_executor_tests.cc:83): when shutdown has returned no thread of    *)
(* the executor runs any code, not even the end of one that retired long ago.*)
ShutdownJoinsAll ==
  spc = "done" => \A t \in Task : pc[t] \in {"none", "rejected", "ended"}

(* ~Thread() finds both lists empty (thread.cc:15-16).                       *)
DestructorAsserts == spc = "done" => workers = {} /\ lastRetired = {}

(* last_retired_ holds one thread at most, for shutdown and for every thread *)
(* that joins (assert(last_retired.size() == 1), thread.cc:69 and 82).       *)
OneRetired ==
  /\ \A t, u \in lastRetired : t = u
  /\ \A v \in Task : \A t, u \in toJoin[v] : t = u

(* Every thread is joined by exactly one other or by shutdown: no thread is  *)
(* destroyed joinable and none is joined twice.                              *)
JoinedOnce ==
  /\ \A t, u \in Task : t # u => toJoin[t] \cap toJoin[u] = {}
  /\ \A t \in Task : toJoin[t] \cap lastRetired = {}

(* shutdown sleeps only while some thread has yet to wake it.                *)
WakerExists ==
  spc = "asleep" => \E t \in Task : pc[t] \in {"task", "retire", "notify"}

(* shutdown returns.                                                         *)
ShutdownReturns == spc = "lock" ~> spc = "done"
=============================================================================
