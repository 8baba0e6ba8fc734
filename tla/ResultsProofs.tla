---------------------------- MODULE ResultsProofs ----------------------------
(***************************************************************************)
(* The safety properties of a result's state, for every set of outcomes,   *)
(* of coroutines submitted to executors, of when_any, for every number of  *)
(* results, and of a shared result, for every set of clients.              *)
(*                                                                         *)
(* process_status_ alone does not tell who may free the state: the proof   *)
(* needs to know, for each place a side can be in, which values the word   *)
(* may have.  That table is the inductive invariant IInv.                  *)
(*                                                                         *)
(* For submitted coroutines, JobInv says where a coroutine can be found at *)
(* each point of its way to an executor.                                   *)
(*                                                                         *)
(* For when_any, AnyInv adds to its two properties which results the       *)
(* coroutine can have registered with at each point of its two loops       *)
(* (Registered), that a winner has left resume_consumer (Winner), and how  *)
(* far the second loop has come (Rewound).                                 *)
(***************************************************************************)
EXTENDS ResultState, TLAPS

Published == ppc \notin {"working", "built"}

InWait == cpc \in {"check", "futex", "asleep", "expired"}

(* What the producer's place says of the word.                               *)
ProducerTable ==
  /\ ~Published => processStatus # "ProducerDone"
  /\ Published => processStatus \in {"ProducerDone", "ConsumerDone"}
  /\ ppc = "resuming" => cpc = "suspended" /\ consumerStatus = "Await"
  /\ ppc = "deleting" =>
       cpc = "done" /\ deletes = 0 /\ processStatus = "ProducerDone"

(* What the consumer's place says of the word.                               *)
ConsumerTable ==
  /\ cpc \in {"promise", "holding", "cas"} =>
       processStatus \in {"Idle", "ProducerDone"}
  /\ InWait => processStatus \in {"ConsumerWaiting", "ProducerDone"}
  /\ cpc = "asleep" => processStatus = "ConsumerWaiting" \/ ppc = "notifying"
  /\ cpc = "suspended" =>
       \/ processStatus = "ConsumerSet" /\ consumerStatus = "Await"
       \/ processStatus = "ProducerDone" /\ ppc = "resuming"
  /\ cpc \in {"satisfied", "joining"} => processStatus = "ProducerDone"
  /\ cpc = "deleting" => processStatus = "ConsumerDone" /\ Published
  /\ cpc = "done" =>
       \/ deletes = 1 /\ Published
       \/ deletes = 0 /\ processStatus = "ConsumerDone" /\ ~Published
       \/ deletes = 0 /\ ppc = "deleting"
  /\ cpc # "done" => deletes = 0

(* A handle is stored only on the way into a suspension, or too late for one.*)
HandleTable ==
  /\ consumerStatus = "Await" => cpc = "suspended" \/ Published
  /\ cpc = "cas" => consumerStatus = "Idle"

(* An outcome is there when the word says so, unless nobody will look at it. *)
OutcomeTable ==
  /\ ppc # "working" /\ cpc # "done" => produced \in Outcome
  /\ ppc = "working" => seen = NoOutcome
  /\ seen # NoOutcome => seen = produced /\ Published
  /\ op = "none" => cpc \in {"promise", "holding", "done", "deleting"}

(* The inductive invariant.                                                  *)
IInv ==
  /\ TypeOK
  /\ ProducerTable
  /\ ConsumerTable
  /\ HandleTable
  /\ OutcomeTable

USE OutcomeAssumption

(* The initial state has the invariant.                                      *)
LEMMA InitIInv == Init => IInv
  BY DEF Init, IInv, TypeOK, ProducerTable, ConsumerTable, HandleTable,
         OutcomeTable, Published, InWait, ProcessStatus, ConsumerStatus,
         ProducerPc, ConsumerPc

(* No step leaves the types.                                                 *)
LEMMA NextTypeOK == TypeOK /\ [Next]_vars => TypeOK'
  BY DEF TypeOK, Next, vars, Produce, SetOutcome, MayPublish, Abandon, ProducerStep, ConsumerStep,
         ConsumerChoice, CompleteProducer, AfterPublish, ResumeConsumer, NotifyAll,
         ProducerDelete, GetResult, Drop, Begin, WaitCas, AwaitCas, CheckWord,
         FutexWait, ExpireCas, ReturnFromOp, CompleteJoined, ConsumerDelete,
         WakeUp, AfterWakeUp, TakeBackWord, AfterDrop, DeadlinePassed, Finished,
         ProcessStatus, ConsumerStatus,
         ProducerPc, ConsumerPc, Ops, WaitOps, AwaitOps

(* Every step keeps the invariant.                                           *)
LEMMA NextIInv == IInv /\ [Next]_vars => IInv'
<1> SUFFICES ASSUME IInv, [Next]_vars PROVE IInv'
  OBVIOUS
<1>0. TypeOK /\ TypeOK'
  BY NextTypeOK DEF IInv
<1> USE DEF IInv, TypeOK, ProducerTable, ConsumerTable, HandleTable, OutcomeTable,
            Published, InWait, ProcessStatus, ConsumerStatus, ProducerPc,
            ConsumerPc, Ops, WaitOps, AwaitOps
<1>1. ASSUME NEW o \in Outcome, SetOutcome(o) PROVE IInv'
  BY <1>0, <1>1 DEF SetOutcome, MayPublish
<1>2. CASE Abandon
  BY <1>0, <1>2 DEF Abandon
<1>3. CASE CompleteProducer
  BY <1>0, <1>3 DEF CompleteProducer, AfterPublish
<1>4. CASE ResumeConsumer
  BY <1>0, <1>4 DEF ResumeConsumer
<1>5. CASE NotifyAll
  BY <1>0, <1>5 DEF NotifyAll, AfterWakeUp
<1>6. CASE ProducerDelete
  BY <1>0, <1>6 DEF ProducerDelete
<1>7. CASE GetResult
  BY <1>0, <1>7 DEF GetResult
<1>8. CASE Drop
  BY <1>0, <1>8 DEF Drop, AfterDrop
<1>9. ASSUME NEW o \in Ops, Begin(o) PROVE IInv'
  BY <1>0, <1>9 DEF Begin
<1>10. CASE WaitCas
  BY <1>0, <1>10 DEF WaitCas
<1>11. CASE AwaitCas
  BY <1>0, <1>11 DEF AwaitCas
<1>12. CASE CheckWord
  BY <1>0, <1>12 DEF CheckWord
<1>13. CASE FutexWait
  BY <1>0, <1>13 DEF FutexWait
<1>14. CASE ExpireCas
  BY <1>0, <1>14 DEF ExpireCas, TakeBackWord
<1>15. CASE ReturnFromOp
  BY <1>0, <1>15 DEF ReturnFromOp
<1>16. CASE CompleteJoined
  BY <1>0, <1>16 DEF CompleteJoined
<1>17. CASE ConsumerDelete
  BY <1>0, <1>17 DEF ConsumerDelete
<1>18. CASE WakeUp
  BY <1>0, <1>18 DEF WakeUp, AfterWakeUp
<1>19. CASE DeadlinePassed
  BY <1>0, <1>19 DEF DeadlinePassed
<1>20. CASE Finished \/ UNCHANGED vars
  BY <1>0, <1>20 DEF Finished, vars
<1> QED
  BY <1>1, <1>2, <1>3, <1>4, <1>5, <1>6, <1>7, <1>8, <1>9, <1>10, <1>11, <1>12, <1>13, <1>14, <1>15, <1>16, <1>17, <1>18, <1>19, <1>20, Zenon
  DEF Next, Produce, ProducerStep, ConsumerChoice, ConsumerStep

(* Every reachable state has the invariant.                                  *)
THEOREM Invariance == Spec => []IInv
  BY InitIInv, NextIInv, PTL DEF Spec

(* Type correctness of the rendezvous.                                       *)
THEOREM TypeCorrect == Spec => []TypeOK
  BY Invariance, PTL DEF IInv

(* No side touches the state after delete_self, for any outcomes.            *)
THEOREM NoUse == Spec => []NoUseAfterDelete
<1>1. IInv => NoUseAfterDelete
  BY DEF IInv, TypeOK, ProducerTable, ConsumerTable, Published, ProducerPc,
         NoUseAfterDelete
<1> QED
  BY <1>1, Invariance, PTL

(* delete_self runs exactly once, whichever side finishes last.              *)
THEOREM Deletion == Spec => []DeletedOnce
<1>1. IInv => DeletedOnce
  BY DEF IInv, TypeOK, ConsumerTable, Published, DeletedOnce
<1> QED
  BY <1>1, Invariance, PTL

(* The assert_done() of every consumer operation holds, and what get() and   *)
(* co_await return is what the producer published.                           *)
THEOREM Delivery == Spec => [](DoneWhenSatisfied /\ SeenIsProduced)
<1>1. IInv => DoneWhenSatisfied /\ SeenIsProduced
  BY DEF IInv, ProducerTable, ConsumerTable, OutcomeTable, Published,
         DoneWhenSatisfied, SeenIsProduced
<1> QED
  BY <1>1, Invariance, PTL

(* The asserts of complete_producer, complete_consumer and set_await_handle. *)
THEOREM Asserts == Spec => []ExchangeAsserts
<1>1. IInv => ExchangeAsserts
  BY DEF IInv, ProducerTable, ConsumerTable, HandleTable, Published,
         ExchangeAsserts
<1> QED
  BY <1>1, Invariance, PTL

(* No wake-up is lost: a blocked thread or coroutine still has its waker.    *)
THEOREM NoLostWakeup == Spec => []WakerExists
<1>1. IInv => WakerExists
  BY DEF IInv, ProducerTable, ConsumerTable, WakerExists
<1> QED
  BY <1>1, Invariance, PTL

(* A published outcome is never taken back.                                  *)
THEOREM Publication == Spec => PublishedStays
<1>1. IInv /\ [Next]_vars =>
        [processStatus = "ProducerDone" =>
           processStatus' \in {"ProducerDone", "ConsumerDone"}]_vars
  BY DEF IInv, TypeOK, ProducerTable, ConsumerTable, Published, Next, vars,
         Produce, SetOutcome, MayPublish, Abandon, ProducerStep, ConsumerStep, ConsumerChoice,
         CompleteProducer, ResumeConsumer, NotifyAll, ProducerDelete, GetResult,
         Drop, Begin, WaitCas, AwaitCas, CheckWord, FutexWait, ExpireCas, TakeBackWord,
         ReturnFromOp, CompleteJoined, ConsumerDelete, WakeUp, DeadlinePassed,
         Finished
<1> QED
  BY <1>1, Invariance, PTL DEF Spec, PublishedStays

-----------------------------------------------------------------------------
(* Coroutines that are submitted to executors.                               *)

CONSTANTS Jobs, Executors, Inline, NoOne

VARIABLES subPc, at, target, hopped, result, subCalled, subQueue, shut

Sub == INSTANCE Submit WITH pc <- subPc, called <- subCalled, queue <- subQueue

(* A submitted callable runs on the executor it was submitted to, and after  *)
(* resume_on goes on where that put it (executor/basic.h, resume_on.h).      *)
RunsWhereSubmitted == Sub!TypeOK /\ Sub!RunsWhereSubmitted

SubTypes ==
  /\ Sub!TypeOK
  /\ subQueue \in [Executors -> SUBSET Jobs] /\ shut \in [Executors -> BOOLEAN]

(* A functor is in the queue of the executor it was posted to, which is not  *)
(* shut, and nowhere else; a coroutine that has not ended was not called and *)
(* has no result.                                                            *)
JobInv(j) ==
  /\ \A e \in Executors : j \in subQueue[e] <=> subPc[j] = "queued" /\ target[j] = e
  /\ subPc[j] = "queued" => target[j] \in Executors /\ ~shut[target[j]]
  /\ subPc[j] = "body" => at[j] = target[j]
  /\ subPc[j] # "over" => subCalled[j] = 0 /\ result[j] = "Idle"
  /\ subPc[j] = "over" => result[j] # "Idle"
  /\ result[j] = "Value" => subCalled[j] = 1 /\ at[j] = target[j]

SubInv == SubTypes /\ \A j \in Jobs : JobInv(j)

(* Nothing was submitted.                                                    *)
LEMMA SubInitial == Sub!Init => SubInv
<1> SUFFICES ASSUME Sub!Init PROVE SubInv
  OBVIOUS
<1>1. SubTypes
  BY DEF Sub!Init, SubTypes, Sub!TypeOK
<1>2. \A j \in Jobs : JobInv(j)
  BY DEF Sub!Init, JobInv
<1> QED
  BY <1>1, <1>2 DEF SubInv

(* A coroutine that a step leaves alone.                                     *)
LEMMA JobFrame ==
  ASSUME NEW j \in Jobs, JobInv(j),
         subPc'[j] = subPc[j], at'[j] = at[j], target'[j] = target[j],
         subCalled'[j] = subCalled[j], result'[j] = result[j],
         \A e \in Executors : j \in subQueue'[e] <=> j \in subQueue[e],
         \A e \in Executors : j \in subQueue[e] => (shut'[e] <=> shut[e])
  PROVE  JobInv(j)'
  BY DEF JobInv

(* What enqueue does with functors that wait nowhere: refused, called at     *)
(* once or queued.                                                           *)
LEMMA EnqueueInv ==
  ASSUME SubInv, NEW e \in Executors, NEW fs \in SUBSET Jobs,
         \A j \in fs : subPc[j] \in {"new", "gathered", "body"},
         Sub!Enqueue(e, fs), UNCHANGED <<subCalled, shut>>
  PROVE  SubInv'
<1>1. target' = [j \in Jobs |-> IF j \in fs THEN e ELSE target[j]]
  BY DEF Sub!Enqueue
<1>2. \A j \in fs : /\ \A d \in Executors : j \notin subQueue[d]
                    /\ subCalled[j] = 0 /\ result[j] = "Idle"
  BY DEF SubInv, JobInv
<1>3. CASE shut[e]
  <2>1. /\ subPc' = [j \in Jobs |-> IF j \in fs THEN "over" ELSE subPc[j]]
        /\ result' = [j \in Jobs |-> IF j \in fs THEN "Exception" ELSE result[j]]
        /\ at' = at /\ subQueue' = subQueue
    BY <1>3 DEF Sub!Enqueue, Sub!Refuses, Sub!Interrupted
  <2>2. SubTypes'
    BY <1>1, <2>1 DEF SubInv, SubTypes, Sub!TypeOK
  <2>3. \A j \in fs : JobInv(j)'
    BY <1>2, <2>1 DEF JobInv
  <2>4. \A j \in Jobs \ fs : JobInv(j)'
    BY <1>1, <2>1, JobFrame DEF SubInv
  <2> QED
    BY <2>2, <2>3, <2>4 DEF SubInv
<1>4. CASE ~shut[e] /\ e \in Inline
  <2>1. /\ subPc' = [j \in Jobs |-> IF j \in fs THEN "body" ELSE subPc[j]]
        /\ at' = [j \in Jobs |-> IF j \in fs THEN e ELSE at[j]]
        /\ result' = result /\ subQueue' = subQueue
    BY <1>4 DEF Sub!Enqueue, Sub!Refuses, Sub!Resumed
  <2>2. SubTypes'
    BY <1>1, <2>1 DEF SubInv, SubTypes, Sub!TypeOK
  <2>3. \A j \in fs : JobInv(j)'
    BY <1>1, <1>2, <2>1 DEF JobInv
  <2>4. \A j \in Jobs \ fs : JobInv(j)'
    BY <1>1, <2>1, JobFrame DEF SubInv
  <2> QED
    BY <2>2, <2>3, <2>4 DEF SubInv
<1>5. CASE ~shut[e] /\ e \notin Inline
  <2>1. /\ subPc' = [j \in Jobs |-> IF j \in fs THEN "queued" ELSE subPc[j]]
        /\ subQueue' = [subQueue EXCEPT ![e] = @ \cup fs]
        /\ at' = at /\ result' = result
    BY <1>5 DEF Sub!Enqueue, Sub!Refuses
  <2>2. SubTypes'
    BY <1>1, <2>1 DEF SubInv, SubTypes, Sub!TypeOK
  <2>3. \A d \in Executors : subQueue'[d] = IF d = e THEN subQueue[e] \cup fs ELSE subQueue[d]
    BY <2>1 DEF SubInv, SubTypes
  <2>4. \A j \in fs : JobInv(j)'
    BY <1>1, <1>2, <1>5, <2>1, <2>3 DEF JobInv
  <2>5. \A j \in Jobs \ fs : JobInv(j)'
    BY <1>1, <2>1, <2>3, JobFrame DEF SubInv
  <2> QED
    BY <2>2, <2>4, <2>5 DEF SubInv
<1> QED
  BY <1>3, <1>4, <1>5 DEF SubInv, SubTypes

(* An executor calls a functor.                                              *)
LEMMA WorkInv ==
  ASSUME SubInv, NEW e \in Executors, Sub!Work(e)
  PROVE  SubInv'
<1>1. PICK h \in subQueue[e] :
        /\ subQueue' = [subQueue EXCEPT ![e] = @ \ {h}]
        /\ Sub!Resumed(e, {h})
  BY Zenon DEF Sub!Work
<1>2. UNCHANGED <<target, subCalled, shut>> /\ h \in Jobs
  BY DEF Sub!Work, SubInv, SubTypes
<1>3. /\ subPc' = [j \in Jobs |-> IF j = h THEN "body" ELSE subPc[j]]
      /\ at' = [j \in Jobs |-> IF j = h THEN e ELSE at[j]] /\ result' = result
  BY <1>1 DEF Sub!Resumed
<1>4. \A d \in Executors : subQueue'[d] = IF d = e THEN subQueue[e] \ {h} ELSE subQueue[d]
  BY <1>1 DEF SubInv, SubTypes
<1>5. /\ subPc[h] = "queued" /\ target[h] = e /\ subCalled[h] = 0 /\ result[h] = "Idle"
      /\ \A d \in Executors : h \in subQueue[d] => d = e
  BY <1>1, <1>2 DEF SubInv, JobInv
<1>6. SubTypes'
  BY <1>1, <1>2, <1>3 DEF SubInv, SubTypes, Sub!TypeOK
<1>7. JobInv(h)'
  BY <1>2, <1>3, <1>4, <1>5 DEF JobInv
<1>8. \A j \in Jobs \ {h} : JobInv(j)'
  BY <1>2, <1>3, <1>4, JobFrame DEF SubInv
<1> QED
  BY <1>6, <1>7, <1>8 DEF SubInv

(* An executor is shut down and destroys the functors it holds.              *)
LEMMA SubShutdownInv ==
  ASSUME SubInv, NEW e \in Executors, Sub!Shutdown(e)
  PROVE  SubInv'
<1>1. PICK fs \in SUBSET Jobs : fs = subQueue[e]
  BY DEF SubInv, SubTypes
<1>2. /\ subPc' = [j \in Jobs |-> IF j \in fs THEN "over" ELSE subPc[j]]
      /\ result' = [j \in Jobs |-> IF j \in fs THEN "Exception" ELSE result[j]]
      /\ subQueue' = [subQueue EXCEPT ![e] = {}] /\ shut' = [shut EXCEPT ![e] = TRUE]
      /\ UNCHANGED <<at, target, subCalled>>
  BY <1>1 DEF Sub!Shutdown, Sub!Interrupted
<1>3. /\ subQueue'[e] = {}
      /\ \A d \in Executors : d # e => subQueue'[d] = subQueue[d] /\ shut'[d] = shut[d]
  BY <1>2 DEF SubInv, SubTypes
<1>4. \A j \in fs : \A d \in Executors : j \in subQueue[d] => d = e
  BY <1>1 DEF SubInv, JobInv
<1>5. SubTypes'
  BY <1>2 DEF SubInv, SubTypes, Sub!TypeOK
<1>6. ASSUME NEW j \in fs PROVE JobInv(j)'
  <2>1. j \in Jobs
    BY <1>1
  <2>2. subPc'[j] = "over" /\ result'[j] = "Exception"
    BY <2>1, <1>2
  <2>3. \A d \in Executors : j \notin subQueue'[d]
    BY <1>3, <1>4
  <2> QED
    BY <2>2, <2>3 DEF JobInv
<1>7. \A j \in Jobs \ fs : JobInv(j)'
  BY <1>1, <1>2, <1>3, JobFrame DEF SubInv
<1> QED
  BY <1>5, <1>6, <1>7 DEF SubInv

(* Every step of the callers, the bodies and the executors.                  *)
LEMMA SubInductive == SubInv /\ [Sub!Next]_Sub!vars => SubInv'
<1> SUFFICES ASSUME SubInv, [Sub!Next]_Sub!vars PROVE SubInv'
  OBVIOUS
<1>1. ASSUME NEW j \in Jobs, NEW e \in Executors, Sub!DoSubmit(j, e) PROVE SubInv'
  BY <1>1, EnqueueInv DEF Sub!DoSubmit
<1>2. ASSUME NEW j \in Jobs, NEW e \in Executors, Sub!Hop(j, e) PROVE SubInv'
  BY <1>2, EnqueueInv DEF Sub!Hop
<1>3. ASSUME NEW e \in Executors, Sub!BulkEnqueue(e) PROVE SubInv'
  <2>1. PICK fs \in SUBSET Jobs : fs = {j \in Jobs : subPc[j] = "gathered"}
    BY Zenon
  <2> QED
    BY <1>3, <2>1, EnqueueInv DEF Sub!BulkEnqueue
<1>4. ASSUME NEW j \in Jobs, Sub!Gather(j) PROVE SubInv'
  <2>1. /\ subPc[j] = "new" /\ subPc' = [subPc EXCEPT ![j] = "gathered"]
        /\ UNCHANGED <<at, target, result, subCalled, subQueue, shut>>
    BY <1>4 DEF Sub!Gather
  <2>2. subPc'[j] = "gathered" /\ \A k \in Jobs : k # j => subPc'[k] = subPc[k]
    BY <2>1 DEF SubInv, SubTypes, Sub!TypeOK
  <2>3. SubTypes'
    BY <2>1 DEF SubInv, SubTypes, Sub!TypeOK
  <2>4. JobInv(j)'
    BY <2>1, <2>2 DEF SubInv, JobInv
  <2>5. \A k \in Jobs \ {j} : JobInv(k)'
    BY <2>1, <2>2, JobFrame DEF SubInv
  <2> QED
    BY <2>3, <2>4, <2>5 DEF SubInv
<1>5. ASSUME NEW j \in Jobs, NEW r \in {"Value", "Exception"}, Sub!Finish(j, r) PROVE SubInv'
  <2>1. /\ subPc[j] = "body" /\ subPc' = [subPc EXCEPT ![j] = "over"]
        /\ subCalled' = [subCalled EXCEPT ![j] = @ + 1]
        /\ result' = [result EXCEPT ![j] = r]
        /\ UNCHANGED <<at, target, subQueue, shut>>
    BY <1>5 DEF Sub!Finish
  <2>2. subCalled[j] = 0 /\ at[j] = target[j] /\ \A e \in Executors : j \notin subQueue[e]
    BY <2>1 DEF SubInv, JobInv
  <2>3. /\ subPc'[j] = "over" /\ subCalled'[j] = 1 /\ result'[j] = r
        /\ \A k \in Jobs : k # j =>
             subPc'[k] = subPc[k] /\ subCalled'[k] = subCalled[k] /\ result'[k] = result[k]
    BY <2>1, <2>2 DEF SubInv, SubTypes, Sub!TypeOK
  <2>4. SubTypes'
    BY <2>1, <2>2 DEF SubInv, SubTypes, Sub!TypeOK
  <2>5. JobInv(j)'
    BY <2>1, <2>2, <2>3 DEF JobInv
  <2>6. \A k \in Jobs \ {j} : JobInv(k)'
    BY <2>1, <2>3, JobFrame DEF SubInv
  <2> QED
    BY <2>4, <2>5, <2>6 DEF SubInv
<1>6. CASE UNCHANGED Sub!vars
  BY <1>6 DEF Sub!vars, SubInv, SubTypes, Sub!TypeOK, JobInv
<1> QED
  BY <1>1, <1>2, <1>3, <1>4, <1>5, <1>6, WorkInv, SubShutdownInv DEF Sub!Next, Sub!Body

(* A coroutine that submit, bulk_submit or resume_on posted continues on the *)
(* executor it was posted to or, refused or dropped there, ends with an      *)
(* exception; its functor waits in one queue, and its callable runs once at  *)
(* most.                                                                     *)
THEOREM SubmitSafety == Sub!Spec => []RunsWhereSubmitted
<1>1. SubInv => RunsWhereSubmitted
  BY DEF SubInv, SubTypes, JobInv, RunsWhereSubmitted, Sub!RunsWhereSubmitted
<1> QED
  BY <1>1, SubInitial, SubInductive, PTL DEF Sub!Spec

-----------------------------------------------------------------------------
(* when_any over N results.                                                  *)

CONSTANT N

(* when_any of no result is refused: a static_assert for a list of results,  *)
(* an exception for a range (result/when.h).                                 *)
ASSUME SomeResult == N \in Nat \ {0}

VARIABLES
  anyProcessStatus, anyConsumerStatus, anyPpc, anyFreed, ctx, pc, i, index

Any == INSTANCE WhenAny WITH
  processStatus <- anyProcessStatus, consumerStatus <- anyConsumerStatus,
  ppc <- anyPpc, freed <- anyFreed

(* when_any: a result resumes the awaiting coroutine only while it is        *)
(* suspended, and every result is handed back without a trace of the context *)
(* (result/when.h, WhenAnyAwaitable and try_rewind_consumer).                *)
WhenAnySafe == Any!WhenAnySafe

Registering == {"loop", "when_any", "register", "inline"}
Rewinding == {"rewind", "rewindCas"}

(* The loop index names a result where the loop body uses it.                *)
IndexInv ==
  /\ pc \in (Registering \ {"loop"}) \cup Rewinding => i <= N
  /\ pc = "collected" => i = N + 1

(* The producer and the word: until the results are back with the caller     *)
(* nobody but its producer ends a result, and no state is freed.             *)
WordInv ==
  /\ \A r \in Any!Results : anyPpc[r] = "working" => anyProcessStatus[r] # "ProducerDone"
  /\ pc # "collected" =>
       \A r \in Any!Results :
         /\ anyProcessStatus[r] # "ConsumerDone"
         /\ anyPpc[r] # "working" => anyProcessStatus[r] = "ProducerDone"
  /\ pc = "inline" => anyProcessStatus[i] = "ProducerDone"

(* A context is in a state exactly while the word says so, or it is the      *)
(* producer's.  The first loop has registered with results below its index,  *)
(* the second one has taken the registrations below its index back.          *)
Registered ==
  \A r \in Any!Results :
    /\ anyProcessStatus[r] = "Idle" => anyConsumerStatus[r] = "Idle"
    /\ anyProcessStatus[r] = "ConsumerSet" \/ anyPpc[r] = "resuming" =>
         (pc \in Registering => r < i)
    /\ anyProcessStatus[r] = "ConsumerSet" =>
         pc # "collected" /\ (pc \in Rewinding => r >= i)

(* The completed result, once there is one, has left resume_consumer.        *)
Winner ==
  /\ ctx \in Any!Results => anyPpc[ctx] \notin {"working", "resuming"}
  /\ pc \in Rewinding \cup {"collected"} => ctx \in Any!Results

(* await_resume has found the completed result once it is past it.           *)
Rewound ==
  pc \in Rewinding \cup {"collected"} => (ctx < i => index = ctx)

AnyInv ==
  /\ Any!TypeOK /\ Any!ResumableWhileSuspended
  /\ IndexInv /\ WordInv /\ Registered /\ Winner /\ Rewound

(* AnyInv holds when the coroutine begins to register.                       *)
LEMMA AnyInitial == Any!Init => AnyInv
  BY SomeResult DEF Any!Init, AnyInv, Any!TypeOK, Any!ResumableWhileSuspended, IndexInv,
         WordInv, Registered, Winner, Rewound, Any!Results, Any!Context, Any!Processing,
         Any!DoneProcessing, Any!ProducerPc, Any!CoroutinePc, Registering, Rewinding

(* Every step of the coroutine and of a producer keeps AnyInv.               *)
LEMMA AnyInductive == AnyInv /\ [Any!Next]_(Any!vars) => AnyInv'
<1> SUFFICES ASSUME AnyInv, [Any!Next]_(Any!vars)
             PROVE  AnyInv'
  OBVIOUS
<1> USE SomeResult DEF AnyInv, Any!TypeOK, Any!ResumableWhileSuspended, IndexInv,
            WordInv, Registered, Winner, Rewound, Any!Results, Any!Context, Any!Processing,
            Any!DoneProcessing, Any!ProducerPc, Any!CoroutinePc, Registering, Rewinding
<1>1. ASSUME NEW r \in Any!Results, Any!CompleteProducer(r) PROVE AnyInv'
  BY <1>1, SMTT(30) DEF Any!CompleteProducer
<1>2. ASSUME NEW r \in Any!Results, Any!ResumeConsumer(r) PROVE AnyInv'
  BY <1>2, SMTT(30) DEF Any!ResumeConsumer
<1>3. ASSUME NEW r \in Any!Results, Any!TryResumeLoad(r) PROVE AnyInv'
  BY <1>3, SMTT(30) DEF Any!TryResumeLoad, Any!TryResumeBranch
<1>4. ASSUME NEW r \in Any!Results, Any!TryResumeDone(r) PROVE AnyInv'
  BY <1>4, SMTT(30) DEF Any!TryResumeDone, Any!RecordWinner
<1>5. ASSUME NEW r \in Any!Results, Any!TryResumeProcessing(r) PROVE AnyInv'
  <2>1. CASE ctx = Any!Processing
    <3>1. /\ anyPpc[r] = "casProcessing" /\ ctx' = r /\ anyPpc' = [anyPpc EXCEPT ![r] = "done"]
          /\ UNCHANGED <<anyProcessStatus, anyConsumerStatus, anyFreed, pc, i, index>>
      BY <1>5, <2>1 DEF Any!TryResumeProcessing
    <3>2. pc \notin Rewinding \cup {"collected", "suspended"}
      BY <2>1
    <3>3. Any!TypeOK' /\ Any!ResumableWhileSuspended' /\ IndexInv'
      BY <3>1, <3>2
    <3>4. WordInv'
      BY <3>1
    <3>5. Registered'
      BY <3>1
    <3>6. Winner' /\ Rewound'
      BY <3>1, <3>2
    <3> QED
      BY <3>3, <3>4, <3>5, <3>6
  <2>2. CASE ctx # Any!Processing
    <3>1. /\ anyPpc[r] = "casProcessing" /\ anyPpc' = [anyPpc EXCEPT ![r] = "load"]
          /\ UNCHANGED <<anyProcessStatus, anyConsumerStatus, anyFreed, ctx, pc, i, index>>
      BY <1>5, <2>2 DEF Any!TryResumeProcessing
    <3> QED
      BY <3>1
  <2> QED
    BY <2>1, <2>2
<1>6. ASSUME NEW r \in Any!Results, Any!ProducerDelete(r) PROVE AnyInv'
  BY <1>6, SMTT(30) DEF Any!ProducerDelete
<1>7. ASSUME NEW r \in Any!Results, Any!Drop(r) PROVE AnyInv'
  BY <1>7, SMTT(30) DEF Any!Drop
<1>8. CASE Any!AnyResultFinished
  BY <1>8, SMTT(30) DEF Any!AnyResultFinished, Any!GoOn, Any!producerVars
<1>9. CASE Any!WhenAnyLoad
  BY <1>9, SMTT(30) DEF Any!WhenAnyLoad, Any!producerVars
<1>10. CASE Any!WhenAnyRegister
  BY <1>10, SMTT(30) DEF Any!WhenAnyRegister, Any!NextIndex, Any!producerVars
<1>11. CASE Any!ResumeInline
  BY <1>11, SMTT(30) DEF Any!ResumeInline, Any!GoOn, Any!producerVars
<1>12. CASE Any!FinishProcessing
  BY <1>12, SMTT(30) DEF Any!FinishProcessing, Any!GoOn, Any!Suspend, Any!producerVars
<1>13. CASE Any!RewindLoad
  BY <1>13, SMTT(30) DEF Any!RewindLoad, Any!NextResult, Any!NextIndex, Any!producerVars
<1>14. CASE Any!RewindCas
  <2>1. CASE anyProcessStatus[i] = "ConsumerSet"
    <3>1. /\ i \in 1..N /\ pc \in Rewinding /\ UNCHANGED <<ctx, anyPpc, anyFreed>>
          /\ anyProcessStatus' = [anyProcessStatus EXCEPT ![i] = "Idle"]
          /\ anyConsumerStatus' = [anyConsumerStatus EXCEPT ![i] = "Idle"]
          /\ Any!NextResult
      BY <1>14, <2>1 DEF Any!RewindCas, Any!TakeBack, Any!producerVars
    <3>2. Any!TypeOK' /\ Any!ResumableWhileSuspended' /\ IndexInv'
      BY <3>1 DEF Any!NextResult, Any!NextIndex
    <3>3. WordInv'
      BY <2>1, <3>1 DEF Any!NextResult, Any!NextIndex
    <3>4. Registered'
      BY <3>1 DEF Any!NextResult, Any!NextIndex
    <3>5. Winner' /\ Rewound'
      BY <3>1 DEF Any!NextResult, Any!NextIndex
    <3> QED
      BY <3>2, <3>3, <3>4, <3>5
  <2>2. CASE anyProcessStatus[i] # "ConsumerSet"
    BY <1>14, <2>2 DEF Any!RewindCas, Any!NextResult, Any!NextIndex, Any!producerVars
  <2> QED
    BY <2>1, <2>2
<1>15. CASE UNCHANGED Any!vars
  BY <1>15 DEF Any!vars
<1> HIDE DEF AnyInv, Any!Results
<1> QED
  BY <1>1, <1>2, <1>3, <1>4, <1>5, <1>6, <1>7, <1>8, <1>9, <1>10, <1>11,
     <1>12, <1>13, <1>14, <1>15, Zenon
  DEF Any!Next, Any!Resume, Any!Coroutine

(* AnyInv holds in every state of every behaviour of a when_any over one or  *)
(* more results: of the context and of every producer's registration.        *)
THEOREM AnyInvariance == Any!Spec => []AnyInv
<1>1. Any!Init => AnyInv
  BY AnyInitial
<1>2. AnyInv /\ [Any!Next]_(Any!vars) => AnyInv'
  BY AnyInductive
<1> QED
  BY <1>1, <1>2, PTL DEF Any!Spec

-----------------------------------------------------------------------------
(* For every number of results: a producer resumes the coroutine of when_any *)
(* only while it is suspended, and the caller gets the results back with the *)
(* index of a finished one and no registration left (WhenAnyAwaitable,       *)
(* WhenAnyContext::try_resume, StateBasic::try_rewind_consumer).             *)
THEOREM WhenAnySafety == Any!Spec => []WhenAnySafe
<1>1. AnyInv => Any!HandedBackClean
  <2> SUFFICES ASSUME AnyInv, pc = "collected"
               PROVE  /\ index \in Any!Results
                      /\ anyPpc[index] \notin {"working", "resuming"}
                      /\ \A r \in Any!Results :
                           /\ anyProcessStatus[r] # "ConsumerSet"
                           /\ anyProcessStatus[r] = "Idle" => anyConsumerStatus[r] = "Idle"
    BY DEF Any!HandedBackClean
  <2>1. ctx \in Any!Results /\ ctx < i
    BY SomeResult DEF AnyInv, Winner, IndexInv, Any!Results
  <2>2. index = ctx
    BY <2>1 DEF AnyInv, Rewound
  <2> QED
    BY <2>1, <2>2 DEF AnyInv, Winner, Registered
<1>2. AnyInv => WhenAnySafe
  BY <1>1 DEF AnyInv, WhenAnySafe, Any!WhenAnySafe
<1> QED
  BY <1>2, AnyInvariance, PTL

(* The first result to finish stays the winner: whatever finishes later, the *)
(* context never names another one (the exchanges of try_resume and of       *)
(* resume_inline).                                                           *)
THEOREM WinnerStays ==
  Any!Spec => [][(ctx \in Any!Results) => UNCHANGED ctx]_(Any!vars)
<1>1. AnyInv /\ [Any!Next]_(Any!vars) => [(ctx \in Any!Results) => UNCHANGED ctx]_(Any!vars)
  <2> SUFFICES ASSUME AnyInv, Any!Next, ctx \in Any!Results PROVE UNCHANGED ctx
    OBVIOUS
  <2>1. ctx # Any!Processing /\ ctx # Any!DoneProcessing
    BY SomeResult DEF Any!Results, Any!Processing, Any!DoneProcessing
  <2> QED
    BY <2>1 DEF Any!Next, Any!Resume, Any!Coroutine, Any!CompleteProducer, Any!ResumeConsumer,
      Any!TryResumeLoad, Any!TryResumeDone, Any!TryResumeProcessing, Any!ProducerDelete, Any!Drop,
      Any!AnyResultFinished, Any!WhenAnyLoad, Any!WhenAnyRegister, Any!ResumeInline,
      Any!FinishProcessing, Any!RewindLoad, Any!RewindCas
<1> QED
  BY <1>1, AnyInvariance, PTL DEF Any!Spec

-----------------------------------------------------------------------------
(* A shared result with the clients that hold a copy of it.                  *)

CONSTANT Client

VARIABLES
  sharedProcessStatus, sharedConsumerStatus, sharedFreed, sharedPpc, spc, fin,
  status, ready, awaiters, calling, sharedCpc, before, dpc, pushed, called

Shared == INSTANCE SharedResultProofs WITH
  processStatus <- sharedProcessStatus,
  consumerStatus <- sharedConsumerStatus, freed <- sharedFreed,
  ppc <- sharedPpc, cpc <- sharedCpc

(* share(): every client that pushed itself is called back, and the inner    *)
(* state outlives whoever uses it (result/shared.h, SharedStateBasic).       *)
SharedSafe == Shared!SharedSafe

(* For every set of clients of a shared result: no coroutine that awaits it  *)
(* is lost or called twice, and both states live as long as they are used    *)
(* (SharedState::await, on_finished and ~SharedState).                       *)
THEOREM SharedStateSafety == Shared!Spec => []SharedSafe
  BY Shared!SharedSafety DEF SharedSafe
=============================================================================
