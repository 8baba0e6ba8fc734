---------------------------- MODULE MCExecutors -----------------------------
(* The executors whose tasks run on threads of their own: ThreadExecutor,    *)
(* WorkerThread, and the older ThreadPool of sys with its looping threads;   *)
(* and the type-erased Task they run.  They share no variable, so each       *)
(* behaviour is of one of them.                                              *)
EXTENDS ExecutorsProofs, Naturals, FiniteSets

CONSTANTS Client, Worker, EmptyTask  \* WorkerThread

(* One callable of each kind: with a vtable of its own, in the buffer or not.*)
MCKindOf == [k \in Kinds |-> k]

VARIABLES
  part,  \* the component that this behaviour is of
  public, private, sem, joinable, ownAbort, privateAbort, wpc, running, moved,
  releasing, ownSpc, fate, foreign, local, ownRan

Own == INSTANCE WorkerThread WITH
  abort <- ownAbort, spc <- ownSpc, ran <- ownRan

ownVars == <<public, private, sem, joinable, ownAbort, privateAbort, wpc,
             running, moved, releasing, ownSpc, fate, foreign, local, ownRan>>
erasedVars == <<vtable, buffer, made, erasedCalled, ended, leaked>>
sysVars == <<sysQueue, stop, worker, task, adder, accepted, sysRan, destroyer,
             looper, status, taken, rounds, told>>

Parts == {"thread", "worker", "task", "sys"}

SuiteInit ==
  /\ part \in Parts
  /\ Init
  /\ Own!Init
  /\ Erased!Init
  /\ Sys!Init

(* One component takes its steps and the others stay as they began.          *)
SuiteNext ==
  /\ UNCHANGED part
  /\ \/ part = "thread" /\ Next
        /\ UNCHANGED <<ownVars, erasedVars, sysVars>>
     \/ part = "worker" /\ Own!Next
        /\ UNCHANGED <<vars, erasedVars, sysVars>>
     \/ part = "task" /\ Erased!Next
        /\ UNCHANGED <<vars, ownVars, sysVars>>
     \/ part = "sys" /\ Sys!Next
        /\ UNCHANGED <<vars, ownVars, erasedVars>>
     \/ part \in {"worker", "task", "sys"}  \* it may stop
        /\ UNCHANGED <<vars, ownVars, erasedVars, sysVars>>

suiteVars == <<part, vars, ownVars, erasedVars, sysVars>>

SuiteSpec ==
  /\ SuiteInit /\ [][SuiteNext]_suiteVars
  /\ \A t \in Task : WF_vars(part = "thread" /\ ThreadStep(t))
  /\ WF_vars(part = "thread" /\ ShutdownStep)
  /\ \A a \in Own!Agent : WF_ownVars(part = "worker" /\ Own!ReleaseSemaphore(a))
  /\ WF_ownVars(part = "worker" /\ (Own!EnqueueMoved \/ Own!EnqueueMovedThrows))
  /\ WF_ownVars(part = "worker" /\ Own!DrainQueue)
  /\ WF_ownVars(part = "worker" /\ Own!Acquire)
  /\ WF_ownVars(part = "worker" /\ Own!PopTask)
  /\ WF_ownVars(part = "worker" /\ Own!QueueDrained)
  /\ WF_ownVars(part = "worker" /\ Own!TaskReturns)
  /\ WF_ownVars(part = "worker" /\ Own!ShutdownSteps)
  /\ \A w \in Workers : WF_sysVars(part = "sys" /\ Sys!WorkerStep(w))
  /\ \A a \in Adders : WF_sysVars(part = "sys" /\ Sys!NotifyOne(a))
  /\ WF_sysVars(part = "sys" /\ (Sys!WakeAll \/ Sys!Join))

-----------------------------------------------------------------------------
(* A task that an executor accepted is run or still held, once and in order: *)
(* WorkerThread's two queues with its semaphore, and ThreadPool of sys, whose*)
(* threads drain the queue before they end (sys/thread.cc, the constructor). *)
AcceptedKept ==
  /\ Own!TypeOK /\ Own!TasksKept
  /\ Sys!PoolDrains

(* What was started ends: WorkerThread runs every task it keeps and its      *)
(* shutdown returns, and so does the destructor of sys's ThreadPool.         *)
StartedEnds ==
  /\ Own!TasksRun /\ Own!ShutdownReturns
  /\ Sys!PoolJoins
=============================================================================
