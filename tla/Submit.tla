------------------------------- MODULE Submit -------------------------------
(***************************************************************************)
(* Submitting work to an executor (executor/basic.h, derivable.h,          *)
(* inline.h): a coroutine is created for the callable and suspended at     *)
(* once; an AwaitViaFunctor that will resume it is posted to the executor  *)
(* (result/promise.h). The body may hop to another executor with resume_on *)
(* (result/resume_on.h). A functor that is destroyed without being called, *)
(* because the executor refuses it or drops its queue, resumes the         *)
(* coroutine on the spot with its interrupted flag set (consumer_context.  *)
(* cc), which throws out of the await.                                     *)
(*                                                                         *)
(* Queueing executors are external here: tasks they hold are called in any *)
(* order or dropped (ThreadPool, WorkerThread, Manual and ThreadExecutor   *)
(* are their models).                                                      *)
(***************************************************************************)
EXTENDS Naturals

CONSTANTS
  Jobs,       \* submitted callables
  Executors, Inline,  \* executors, and those of them that run inline
  NoOne       \* no executor: the thread that submits or shuts down

VARIABLES
  pc,         \* where a coroutine is: "new", "gathered", "queued", "body", "over"
  at,         \* the executor in whose context it last continued
  target,     \* the executor the pending functor was posted to
  hopped,     \* it has done its resume_on
  result,     \* what its Result shows: "Idle", "Value", "Exception"
  called,     \* how often the callable ran
  queue, shut \* per executor: pending functors; abort_

vars == <<pc, at, target, hopped, result, called, queue, shut>>

Init ==
  /\ pc = [j \in Jobs |-> "new"] /\ at = [j \in Jobs |-> NoOne]
  /\ target = [j \in Jobs |-> NoOne] /\ hopped = [j \in Jobs |-> FALSE]
  /\ result = [j \in Jobs |-> "Idle"] /\ called = [j \in Jobs |-> 0]
  /\ queue = [e \in Executors |-> {}] /\ shut = [e \in Executors |-> FALSE]

-----------------------------------------------------------------------------
(* What becomes of the functors in fs, posted to e.                        *)

\* AwaitViaFunctor::operator(): the flag's address is forgotten, the coroutine
\* resumes in e's context and its await returns normally.
Resumed(e, fs) ==
  /\ pc' = [j \in Jobs |-> IF j \in fs THEN "body" ELSE pc[j]]
  /\ at' = [j \in Jobs |-> IF j \in fs THEN e ELSE at[j]]
  /\ UNCHANGED result

\* ~AwaitViaFunctor of one that was not called: interrupted_ is set and the
\* await throws; the exception ends the coroutine and is its result.
Interrupted(fs) ==
  /\ pc' = [j \in Jobs |-> IF j \in fs THEN "over" ELSE pc[j]]
  /\ result' = [j \in Jobs |-> IF j \in fs THEN "Exception" ELSE result[j]]
  /\ UNCHANGED at

\* Basic::post and enqueue: a shut executor throws and the Task that holds the
\* functor is destroyed (awaits swallow the exception); the inline one calls
\* it; the others queue it.
MutantRefuses(e) == FALSE
Refuses(e) == shut[e]

Enqueue(e, fs) ==
  /\ target' = [j \in Jobs |-> IF j \in fs THEN e ELSE target[j]]
  /\ CASE Refuses(e)  -> Interrupted(fs) /\ UNCHANGED queue
       [] ~ Refuses(e) /\ e \in Inline -> Resumed(e, fs) /\ UNCHANGED queue
       [] OTHER -> /\ queue' = [queue EXCEPT ![e] = @ \cup fs]
                   /\ pc' = [j \in Jobs |-> IF j \in fs THEN "queued" ELSE pc[j]]
                   /\ UNCHANGED <<at, result>>

-----------------------------------------------------------------------------
(* Operations                                                              *)

\* submit: the coroutine's initial_suspend posts it.
DoSubmit(j, e) ==
  /\ pc[j] = "new" /\ Enqueue(e, {j})
  /\ UNCHANGED <<hopped, called, shut>>

\* bulk_submit, first loop: each coroutine suspends into the accumulator.
Gather(j) ==
  /\ pc[j] = "new" /\ pc' = [pc EXCEPT ![j] = "gathered"]
  /\ UNCHANGED <<at, target, hopped, result, called, queue, shut>>

\* bulk_submit: the accumulated tasks are enqueued together (one at least, by
\* the assertion). If enqueue throws the accumulator destroys them.
BulkEnqueue(e) ==
  LET fs == {j \in Jobs : pc[j] = "gathered"}
  IN  /\ fs # {} /\ Enqueue(e, fs)
      /\ UNCHANGED <<hopped, called, shut>>

\* An executor calls a task.
Work(e) ==
  /\ ~ shut[e]
  /\ \E j \in queue[e] :
       queue' = [queue EXCEPT ![e] = @ \ {j}] /\ Resumed(e, {j})
  /\ UNCHANGED <<target, hopped, called, shut>>

\* The body: resume_on another executor, once at most here.
Hop(j, e) ==
  /\ pc[j] = "body" /\ ~ hopped[j] /\ e # at[j]
  /\ Enqueue(e, {j})
  /\ hopped' = [hopped EXCEPT ![j] = TRUE]
  /\ UNCHANGED <<called, shut>>

\* The callable returns or throws: return_value or unhandled_exception, and
\* final_suspend publishes the state (ResultState).
Finish(j, r) ==
  /\ pc[j] = "body"
  /\ called' = [called EXCEPT ![j] = @ + 1]
  /\ result' = [result EXCEPT ![j] = r]
  /\ pc' = [pc EXCEPT ![j] = "over"]
  /\ UNCHANGED <<at, target, hopped, queue, shut>>

\* shutdown: the flag first, then the queued tasks are destroyed.
Shutdown(e) ==
  /\ ~ shut[e] /\ shut' = [shut EXCEPT ![e] = TRUE]
  /\ Interrupted(queue[e])
  /\ queue' = [queue EXCEPT ![e] = {}]
  /\ UNCHANGED <<target, hopped, called>>

Body(j) == (\E e \in Executors : Hop(j, e)) \/ (\E r \in {"Value", "Exception"} : Finish(j, r))

Next ==
  \/ \E e \in Executors :
       \/ BulkEnqueue(e) \/ Work(e) \/ Shutdown(e)
       \/ \E j \in Jobs : DoSubmit(j, e)
  \/ \E j \in Jobs : Gather(j) \/ Body(j)

\* Executors' threads keep taking tasks, bodies end, a bulk_submit that has
\* begun reaches its enqueue.
Spec == /\ Init /\ [][Next]_vars
        /\ \A j \in Jobs : WF_vars(Body(j))
        /\ \A e \in Executors : WF_vars(Work(e))
        /\ WF_vars(\E e \in Executors : BulkEnqueue(e))

-----------------------------------------------------------------------------
TypeOK ==
  /\ pc \in [Jobs -> {"new", "gathered", "queued", "body", "over"}]
  /\ at \in [Jobs -> Executors \cup {NoOne}] /\ target \in [Jobs -> Executors \cup {NoOne}]
  /\ result \in [Jobs -> {"Idle", "Value", "Exception"}] /\ called \in [Jobs -> 0..1]

\* A coroutine's body only ever continues in the executor it asked for, its
\* callable runs at most once, a queued functor waits in exactly one queue of
\* an executor that was not shut down, and every coroutine that has ended has
\* a result.
RunsWhereSubmitted ==
  \A j \in Jobs :
    /\ pc[j] = "body" => at[j] = target[j]
    /\ result[j] = "Value" => called[j] = 1 /\ at[j] = target[j]
    /\ pc[j] = "queued" =>
         /\ target[j] \in Executors /\ ~ shut[target[j]]
         /\ \A e \in Executors : j \in queue[e] <=> e = target[j]
    /\ pc[j] = "over" <=> result[j] # "Idle"

\* Whatever shuts down and when, a submitted callable's result is settled.
SubmittedSettles == \A j \in Jobs : pc[j] # "new" ~> result[j] # "Idle"
=============================================================================
