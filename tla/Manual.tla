------------------------------- MODULE Manual -------------------------------
(***************************************************************************)
(* The Manual executor (concurrency/executor/manual.cc): a queue of tasks  *)
(* that any number of threads fill, run (loop), wait on (wait_for_tasks)   *)
(* and clear, with one mutex and one condition variable.                   *)
(*                                                                         *)
(* A critical section is one step; notify_all comes after it, in a step of *)
(* its own.  A timed call may find its deadline passed whenever it looks   *)
(* at the clock or sleeps.  A sleeper may also wake for no reason.         *)
(***************************************************************************)
EXTENDS Naturals, Sequences, FiniteSets, SequencesExt

CONSTANTS
  Task,     \* the tasks; each is enqueued at most once
  Client,   \* the threads that use the executor
  MaxCount  \* the largest count given to a loop or a wait

VARIABLES
  tasks,        \* tasks_
  abort,        \* abort_
  atomicAbort,  \* atomic_abort_
  pc,           \* client -> where it is
  call,         \* client -> the loop or wait it is in
  executed,     \* client -> executed, in its loop
  running,      \* client -> the tasks it runs (none or one)
  answer,       \* client -> what its last loop or wait came to
  fate,         \* task -> what became of it
  given, taken  \* the tasks in the order they were accepted, and started

abortVars == <<abort, atomicAbort>>
callVars == <<call, answer>>
runVars == <<executed, running>>
taskVars == <<tasks, fate, given, taken>>
vars == <<abortVars, pc, callVars, runVars, taskVars>>

Pc == {"idle", "notify", "shutdown", "loop", "wait", "asleep", "late",
       "running", "check", "return"}
Call == [kind : {"loop", "wait", "waitTask"}, count : 0..MaxCount,
         timed : BOOLEAN]
Fate == {"new", "pending", "executed", "rejected", "dropped"}

NoCall == [kind |-> "loop", count |-> 0, timed |-> FALSE]
NoAnswer == [threw |-> FALSE, value |-> 0, size |-> 0]

Init ==
  /\ tasks = <<>>
  /\ abort = FALSE /\ atomicAbort = FALSE
  /\ pc = [c \in Client |-> "idle"]
  /\ call = [c \in Client |-> NoCall]
  /\ executed = [c \in Client |-> 0]
  /\ running = [c \in Client |-> {}]
  /\ answer = [c \in Client |-> NoAnswer]
  /\ fate = [t \in Task |-> "new"]
  /\ given = <<>> /\ taken = <<>>

Goto(c, there) == pc' = [pc EXCEPT ![c] = there]

SetFate(s, f) == [t \in Task |-> IF t \in ToSet(s) THEN f ELSE fate[t]]

Batch ==
  LET new == {t \in Task : fate[t] = "new"}
  IN  {<<t>> : t \in new} \cup {p \in new \X new : p[1] # p[2]}

-----------------------------------------------------------------------------
(* enqueue, clear and shutdown.                                              *)

PushBack(batch) == tasks \o batch

Refuses == abort

Enqueue(c) ==
  /\ pc[c] = "idle"
  /\ \E batch \in Batch :
       IF Refuses
         THEN /\ fate' = SetFate(batch, "rejected")
              /\ UNCHANGED <<tasks, given, pc>>
         ELSE /\ tasks' = PushBack(batch)
              /\ given' = given \o batch
              /\ fate' = SetFate(batch, "pending")
              /\ Goto(c, "notify")
  /\ UNCHANGED <<taken, abortVars, callVars, runVars>>

Asleep == {c \in Client : pc[c] = "asleep"}

NotifiedOne == IF Asleep = {} THEN {} ELSE {CHOOSE c \in Asleep : TRUE}

(* condition_.notify_all(): every sleeper looks at its condition again.      *)
Notified == Asleep

NotifyAll(c) ==
  /\ pc[c] = "notify"
  /\ pc' = [d \in Client |-> IF d = c THEN "idle"
                             ELSE IF d \in Notified THEN "wait" ELSE pc[d]]
  /\ UNCHANGED <<abortVars, callVars, runVars, taskVars>>

Clear(c) ==
  /\ pc[c] = "idle"
  /\ ~abort
  /\ tasks' = <<>>
  /\ fate' = SetFate(tasks, "dropped")
  /\ UNCHANGED <<pc, given, taken, abortVars, callVars, runVars>>

Shutdown(c) ==
  /\ pc[c] = "idle"
  /\ ~atomicAbort
  /\ atomicAbort' = TRUE
  /\ Goto(c, "shutdown")
  /\ UNCHANGED <<abort, callVars, runVars, taskVars>>

ShutdownLock(c) ==
  /\ pc[c] = "shutdown"
  /\ abort' = TRUE
  /\ tasks' = <<>>
  /\ fate' = SetFate(tasks, "dropped")
  /\ Goto(c, "notify")
  /\ UNCHANGED <<atomicAbort, given, taken, callVars, runVars>>

(* What a thread sleeps on: the predicates given to condition_.              *)
WaitOver(c) ==
  abort \/ Len(tasks) >= IF call[c].kind = "loop" THEN 1 ELSE call[c].count

-----------------------------------------------------------------------------
(* loop, loop_for, loop_until and their once forms: loop_impl and            *)
(* loop_until_impl.                                                          *)

(* A loop or wait comes to its end: what it returns, or that it throws.      *)
Answer(c, threw, value) ==
  /\ answer' = [answer EXCEPT ![c] = [threw |-> threw, value |-> value,
                                      size |-> Len(tasks)]]
  /\ Goto(c, "return")

BeginLoop(c) ==
  /\ pc[c] = "idle"
  /\ \E n \in 0..MaxCount, timed \in BOOLEAN :
       /\ call' = [call EXCEPT ![c] = [kind |-> "loop", count |-> n,
                                       timed |-> timed]]
       /\ IF n = 0
            THEN Answer(c, FALSE, 0)
            ELSE Goto(c, "loop") /\ UNCHANGED answer
  /\ UNCHANGED <<abortVars, runVars, taskVars>>

LoopEnoughOffByOne(c) == executed[c] = call[c].count + 1

LoopEnough(c) == executed[c] = call[c].count

(* Both loops stop when they have run enough, when the executor is shut      *)
(* down, and when there is no task left (or none came in time).              *)
LoopEnds(c) ==
  /\ call[c].kind = "loop"
  /\ \/ /\ pc[c] = "loop"
        /\ LoopEnough(c) \/ call[c].timed \/ tasks = <<>>
     \/ pc[c] \in {"loop", "wait", "late"} /\ abort
     \/ pc[c] = "late" /\ tasks = <<>>
  /\ Goto(c, "check")
  /\ UNCHANGED <<abortVars, callVars, runVars, taskVars>>

KeepsFront == tasks

PopFront == Tail(tasks)

LoopTakes(c) ==
  /\ pc[c] \in {"loop", "wait", "late"} /\ call[c].kind = "loop"
  /\ ~LoopEnough(c)
  /\ ~abort
  /\ tasks # <<>>
  /\ running' = [running EXCEPT ![c] = {Head(tasks)}]
  /\ taken' = Append(taken, Head(tasks))
  /\ tasks' = PopFront
  /\ Goto(c, "running")
  /\ UNCHANGED <<executed, fate, given, abortVars, callVars>>

TaskReturns(c) ==
  /\ pc[c] = "running"
  /\ executed' = [executed EXCEPT ![c] = @ + 1]
  /\ fate' = SetFate(SetToSeq(running[c]), "executed")
  /\ running' = [running EXCEPT ![c] = {}]
  /\ Goto(c, "loop")
  /\ UNCHANGED <<tasks, given, taken, abortVars, callVars>>

ShutdownSeen == atomicAbort

(* The last lines of both loops.                                             *)
CheckShutdown(c) ==
  /\ pc[c] = "check"
  /\ Answer(c, ShutdownSeen, executed[c])
  /\ UNCHANGED <<call, abortVars, runVars, taskVars>>

-----------------------------------------------------------------------------
(* wait_for_task, wait_for_tasks and their timed forms: wait_for_tasks_impl. *)

BeginWait(c) ==
  /\ pc[c] = "idle"
  /\ \E n \in 0..MaxCount, timed \in BOOLEAN, kind \in {"wait", "waitTask"} :
       /\ kind = "waitTask" => n = 1 /\ timed
       /\ call' = [call EXCEPT ![c] = [kind |-> kind, count |-> n,
                                       timed |-> timed]]
       /\ IF n = 0 /\ ~timed
            THEN Answer(c, atomicAbort, 0)
            ELSE Goto(c, "wait") /\ UNCHANGED answer
  /\ UNCHANGED <<abortVars, runVars, taskVars>>

(* wait_for_task_for is true when the size is 1 ("== 1", manual.cc:100).     *)
Value(c) ==
  IF call[c].kind = "waitTask"
    THEN IF Len(tasks) = 1 THEN 1 ELSE 0
    ELSE Len(tasks)

WaitReturns(c) ==
  /\ call[c].kind # "loop"
  /\ (pc[c] = "wait" /\ WaitOver(c)) \/ pc[c] = "late"
  /\ Answer(c, abort, Value(c))
  /\ UNCHANGED <<call, abortVars, runVars, taskVars>>

Sleep(c) ==
  /\ \/ pc[c] = "wait"
     \/ pc[c] = "loop" /\ call[c].timed /\ ~LoopEnough(c)
  /\ ~WaitOver(c)
  /\ Goto(c, "asleep")
  /\ UNCHANGED <<abortVars, callVars, runVars, taskVars>>

(* The caller has its answer.                                                *)
Return(c) ==
  /\ pc[c] = "return"
  /\ call' = [call EXCEPT ![c] = NoCall]
  /\ executed' = [executed EXCEPT ![c] = 0]
  /\ answer' = [answer EXCEPT ![c] = NoAnswer]
  /\ Goto(c, "idle")
  /\ UNCHANGED <<running, abortVars, taskVars>>

(* wait_until gives up at the deadline and looks at the condition once more. *)
DeadlinePassed(c) ==
  /\ pc[c] = "asleep" /\ call[c].timed
  /\ Goto(c, "late")
  /\ UNCHANGED <<abortVars, callVars, runVars, taskVars>>

SpuriousWakeup(c) ==
  /\ pc[c] = "asleep"
  /\ Goto(c, "wait")
  /\ UNCHANGED <<abortVars, callVars, runVars, taskVars>>

-----------------------------------------------------------------------------
Continue(c) ==
  \/ NotifyAll(c) \/ ShutdownLock(c)
  \/ LoopEnds(c) \/ LoopTakes(c) \/ TaskReturns(c) \/ CheckShutdown(c)
  \/ WaitReturns(c) \/ Sleep(c) \/ DeadlinePassed(c)
  \/ Return(c)

Next ==
  \E c \in Client :
    \/ Enqueue(c) \/ Clear(c) \/ Shutdown(c) \/ BeginLoop(c) \/ BeginWait(c)
    \/ Continue(c)
    \/ SpuriousWakeup(c)

Spec == Init /\ [][Next]_vars

-----------------------------------------------------------------------------
TypeOK ==
  /\ tasks \in Seq(Task)
  /\ abort \in BOOLEAN /\ atomicAbort \in BOOLEAN
  /\ pc \in [Client -> Pc] /\ call \in [Client -> Call]
  /\ DOMAIN executed = Client
  /\ \A c \in Client : executed[c] \in 0..call[c].count
  /\ running \in [Client -> SUBSET Task]
  /\ answer \in [Client -> [threw : BOOLEAN, value : Nat, size : Nat]]
  /\ fate \in [Task -> Fate]
  /\ given \in Seq(Task) /\ taken \in Seq(Task)

(* Nobody sleeps while the condition it sleeps on holds, unless a            *)
(* notify_all (of enqueue or shutdown) is still to come.                     *)
WakerExists ==
  \A c \in Client :
    pc[c] = "asleep" /\ WaitOver(c) => \E d \in Client : pc[d] = "notify"

(* An accepted task is in the queue or in one thread's hands until it has    *)
(* been run, cleared or dropped by shutdown; after shutdown none is left.    *)
(* However many threads loop, tasks are started in the order in which        *)
(* enqueue accepted them, and none is started twice.                         *)
TasksKept ==
  LET position(t) == CHOOSE i \in 1..Len(given) : given[i] = t
  IN  /\ \A t \in Task :
           (IF t \in ToSet(tasks) THEN 1 ELSE 0)
               + Cardinality({c \in Client : t \in running[c]})
             = IF fate[t] = "pending" THEN 1 ELSE 0
      /\ abort => tasks = <<>>
      /\ \A i, j \in 1..Len(taken) :
           i < j => position(taken[i]) < position(taken[j])

(* wait_for_task_for is true whenever it found tasks                         *)
(* ("case 2: tasks already exist", manual_executor_tests.cc:1129).           *)
WaitSeesTasks ==
  \A c \in Client :
    pc[c] = "return" /\ call[c].kind = "waitTask" /\ ~answer[c].threw /\ answer[c].size > 0
      => answer[c].value = 1
=============================================================================
