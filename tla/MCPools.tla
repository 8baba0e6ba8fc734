------------------------------ MODULE MCPools -------------------------------
(* The ThreadPool executor and the Manual one.  They share no variable, so   *)
(* each behaviour is of one of them; Manual appears twice, with many threads *)
(* and small counts, and with two threads that loop and wait for more tasks. *)
(* Tasks and clients of Manual are interchangeable; the pool's are told      *)
(* apart by the order they come in.                                          *)
EXTENDS ThreadPool, TLC

CONSTANTS HandTask, HandClient, HandPair

ASSUME HandAssumption == IsFiniteSet(HandTask) /\ IsFiniteSet(HandClient)

Symmetry == Permutations(HandTask) \cup Permutations(HandClient)

VARIABLES
  part,  \* the component that this behaviour is of
  tasks, handAbort, handAtomicAbort, pc, call, executed, handRunning, answer,
  handFate, given, taken

Hand == INSTANCE Manual WITH
  Task <- HandTask, Client <- HandClient, MaxCount <- 1, abort <- handAbort,
  atomicAbort <- handAtomicAbort, running <- handRunning, fate <- handFate
Pair == INSTANCE Manual WITH
  Task <- HandTask, Client <- HandPair, MaxCount <- 2, abort <- handAbort,
  atomicAbort <- handAtomicAbort, running <- handRunning, fate <- handFate

handVars == <<tasks, handAbort, handAtomicAbort, pc, call, executed,
              handRunning, answer, handFate, given, taken>>

Parts == {"pool", "manual", "manual_pair"}

SuiteInit ==
  /\ part \in Parts
  /\ Init
  /\ IF part = "manual_pair" THEN Pair!Init ELSE Hand!Init

(* One component takes its steps and the others stay as they began.          *)
SuiteNext ==
  /\ UNCHANGED part
  /\ \/ part = "pool" /\ Next
        /\ UNCHANGED <<handVars>>
     \/ part = "manual" /\ Hand!Next
        /\ UNCHANGED <<vars>>
     \/ part = "manual_pair" /\ Pair!Next
        /\ UNCHANGED <<vars>>
     \/ part = "pool"  \* it may stop
        /\ UNCHANGED <<vars, handVars>>

suiteVars == <<part, vars, handVars>>

SuiteSpec == SuiteInit /\ [][SuiteNext]_suiteVars

-----------------------------------------------------------------------------
(* The pool keeps every task it accepted, run once, queued or on its way, and*)
(* a worker with work to do is awake or about to be woken, whoever enqueues, *)
(* donates or stops (executor/thread_pool.cc).                               *)
PoolKeepsTasks == part = "pool" => TypeOK /\ TasksKept /\ WakeupKept

(* Manual: whoever sleeps for tasks that are there has a thread that will    *)
(* wake it, and tasks start once, in the order they were accepted            *)
(* (executor/manual.cc).                                                     *)
ManualSafe ==
  /\ part = "manual" => Hand!TypeOK /\ Hand!WakerExists /\ Hand!TasksKept
  /\ part = "manual_pair" => Pair!TypeOK /\ Pair!WakerExists /\ Pair!TasksKept
=============================================================================
