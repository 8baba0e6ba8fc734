------------------------------ MODULE WhenAny ------------------------------
(***************************************************************************)
(* when_any over N results (result/when.h, result/detail/state.cc,         *)
(* consumer_context.cc).  A coroutine registers one WhenAnyContext in each *)
(* result's state, suspends, is resumed by the first producer to finish,   *)
(* takes its registrations back and hands the results to the caller, who   *)
(* then drops them or reads them.                                          *)
(*                                                                         *)
(* A result's state is freed by the side that finishes last, as in         *)
(* ResultState.  Reading a freed state is undefined: the status that       *)
(* resume_consumer switches on is then arbitrary.                          *)
(***************************************************************************)
EXTENDS Integers

CONSTANT N   \* the number of results given to when_any, at least one

Results == 1..N

VARIABLES
  processStatus,  \* result -> StateBasic::process_status_
  consumerStatus, \* result -> StateBasic::consumer_.status_
  ppc,            \* result -> where its producer is
  freed,          \* the results whose state was deleted
  ctx,            \* WhenAnyContext::status_
  pc,             \* where the awaiting coroutine is
  i,              \* the loop index of await_suspend, then of await_resume
  index           \* completed_result_index; 0 is numeric_limits::max()

vars == <<processStatus, consumerStatus, ppc, freed, ctx, pc, i, index>>

producerVars == <<ppc, freed>>

ProducerPc == {"working", "resuming", "load", "casDone", "casProcessing",
               "deleting", "done", "failed"}
CoroutinePc == {"loop", "when_any", "register", "inline",
                "suspended", "rewind", "rewindCas", "collected"}

(* The context holds one of these two pointers or the completed result.      *)
Processing == -1
DoneProcessing == 0

Context == {Processing, DoneProcessing} \cup Results

Init ==
  /\ processStatus = [r \in Results |-> "Idle"]
  /\ consumerStatus = [r \in Results |-> "Idle"]
  /\ ppc = [r \in Results |-> "working"]
  /\ freed = {}
  /\ ctx = Processing
  /\ pc = "loop"
  /\ i = 1
  /\ index = 0

-----------------------------------------------------------------------------
(* The producers.                                                            *)

(* complete_producer: the exchange and the branch on what it replaced.       *)
CompleteProducer(r) ==
  /\ ppc[r] = "working"
  /\ processStatus' = [processStatus EXCEPT ![r] = "ProducerDone"]
  /\ ppc' = [ppc EXCEPT ![r] =
       IF processStatus[r] = "ConsumerSet" THEN "resuming"
       ELSE IF processStatus[r] = "ConsumerDone" THEN "deleting" ELSE "done"]
  /\ UNCHANGED <<consumerStatus, freed, ctx, pc, i, index>>

(* resume_consumer: switches on consumer_.status_ and copies the context.    *)
(* Falling out of the switch is its assert(false).                           *)
ResumeConsumer(r) ==
  /\ ppc[r] = "resuming"
  /\ \E status \in IF r \in freed THEN {"Idle", "WhenAny", "garbage"}
                   ELSE {consumerStatus[r]} :
       ppc' = [ppc EXCEPT ![r] =
         CASE status = "Idle"    -> "done"
           [] status = "WhenAny" -> "load"
           [] OTHER              -> "failed"]
  /\ UNCHANGED <<processStatus, consumerStatus, freed, ctx, pc, i, index>>

TryResumeBranchIgnoresDone ==
  IF ctx = Processing THEN "casProcessing" ELSE "done"

(* try_resume: the branch on the loaded context.                             *)
TryResumeBranch ==
  CASE ctx = DoneProcessing -> "casDone"
    [] ctx = Processing     -> "casProcessing"
    [] OTHER                -> "done"

(* try_resume: the load at the head of its loop.                             *)
TryResumeLoad(r) ==
  /\ ppc[r] = "load"
  /\ ppc' = [ppc EXCEPT ![r] = TryResumeBranch]
  /\ UNCHANGED <<processStatus, consumerStatus, freed, ctx, pc, i, index>>

RecordWinnerNot(r) == UNCHANGED ctx

RecordWinner(r) == ctx' = r

(* kDoneProcessing -> this result: the winner calls the coroutine, which     *)
(* goes on in await_resume.                                                  *)
TryResumeDone(r) ==
  /\ ppc[r] = "casDone"
  /\ ppc' = [ppc EXCEPT ![r] = "done"]
  /\ \/ /\ ctx = DoneProcessing
        /\ RecordWinner(r)
        /\ pc' = "rewind"
        /\ i' = 1
     \/ /\ ctx # DoneProcessing
        /\ UNCHANGED <<ctx, pc, i>>
  /\ UNCHANGED <<processStatus, consumerStatus, freed, index>>

(* kProcessing -> this result; a failure goes round the loop again.          *)
TryResumeProcessing(r) ==
  /\ ppc[r] = "casProcessing"
  /\ \/ /\ ctx = Processing
        /\ ctx' = r
        /\ ppc' = [ppc EXCEPT ![r] = "done"]
     \/ /\ ctx # Processing
        /\ ppc' = [ppc EXCEPT ![r] = "load"]
        /\ UNCHANGED ctx
  /\ UNCHANGED <<processStatus, consumerStatus, freed, pc, i, index>>

ProducerDelete(r) ==
  /\ ppc[r] = "deleting"
  /\ freed' = freed \cup {r}
  /\ ppc' = [ppc EXCEPT ![r] = "done"]
  /\ UNCHANGED <<processStatus, consumerStatus, ctx, pc, i, index>>

-----------------------------------------------------------------------------
(* await_suspend.                                                            *)

(* await_suspend returned false: the coroutine goes on by itself.            *)
GoOn == pc' = "rewind" /\ i' = 1

(* any_result_finished, at the head of the loop.                             *)
AnyResultFinished ==
  /\ pc = "loop"
  /\ i <= N
  /\ IF ctx # Processing THEN GoOn ELSE pc' = "when_any" /\ UNCHANGED i
  /\ UNCHANGED <<processStatus, consumerStatus, ctx, index, producerVars>>

(* StateBasic::when_any: the load, whose value is what it returns.           *)
WhenAnyLoad ==
  /\ pc = "when_any"
  /\ pc' = IF processStatus[i] = "ProducerDone" THEN "inline" ELSE "register"
  /\ UNCHANGED <<processStatus, consumerStatus, ctx, i, index, producerVars>>

NextIndexTwice == i + 2

NextIndex == i + 1

(* StateBasic::when_any: set_when_any_context, then Idle -> ConsumerSet.     *)
(* Whether or not the exchange succeeded, the status loaded before it is     *)
(* returned and the loop goes on.                                            *)
WhenAnyRegister ==
  /\ pc = "register"
  /\ consumerStatus' = [consumerStatus EXCEPT ![i] = "WhenAny"]
  /\ processStatus' = [processStatus EXCEPT ![i] =
       IF @ = "Idle" THEN "ConsumerSet" ELSE @]
  /\ pc' = "loop"
  /\ i' = NextIndex
  /\ UNCHANGED <<ctx, index, producerVars>>

(* resume_inline: either way it returns false.                               *)
ResumeInline ==
  /\ pc = "inline"
  /\ ctx' = IF ctx = Processing THEN i ELSE ctx
  /\ GoOn
  /\ UNCHANGED <<processStatus, consumerStatus, index, producerVars>>

(* finish_processing succeeded, and await_suspend returns true.              *)
Suspend ==
  /\ ctx' = DoneProcessing
  /\ pc' = "suspended"
  /\ UNCHANGED i

(* finish_processing: kProcessing -> kDoneProcessing.                        *)
FinishProcessing ==
  /\ pc = "loop"
  /\ i > N
  /\ \/ /\ ctx = Processing
        /\ Suspend
     \/ /\ ctx # Processing
        /\ GoOn
        /\ UNCHANGED ctx
  /\ UNCHANGED <<processStatus, consumerStatus, index, producerVars>>

-----------------------------------------------------------------------------
(* await_resume.                                                             *)

NextResult ==
  /\ index' = IF ctx = i THEN i ELSE index
  /\ i' = NextIndex
  /\ pc' = IF i = N THEN "collected" ELSE "rewind"

(* try_rewind_consumer: the load.                                            *)
RewindLoad ==
  /\ pc = "rewind"
  /\ IF processStatus[i] = "ConsumerSet"
       THEN pc' = "rewindCas" /\ UNCHANGED <<i, index>>
       ELSE NextResult
  /\ UNCHANGED <<processStatus, consumerStatus, ctx, producerVars>>

TakeBackKeepsContext ==
  /\ processStatus' = [processStatus EXCEPT ![i] = "Idle"]
  /\ UNCHANGED consumerStatus

(* ConsumerSet -> Idle, and consumer_.clear().                               *)
TakeBack ==
  /\ processStatus' = [processStatus EXCEPT ![i] = "Idle"]
  /\ consumerStatus' = [consumerStatus EXCEPT ![i] = "Idle"]

(* try_rewind_consumer: the exchange.                                        *)
RewindCas ==
  /\ pc = "rewindCas"
  /\ IF processStatus[i] = "ConsumerSet"
       THEN TakeBack
       ELSE UNCHANGED <<processStatus, consumerStatus>>
  /\ NextResult
  /\ UNCHANGED <<ctx, producerVars>>

(* The caller destroys a result it got back: complete_consumer.  Reading a   *)
(* finished one frees its state as well (ResultState!CompleteJoined).        *)
Drop(r) ==
  /\ pc = "collected"
  /\ processStatus[r] # "ConsumerDone"
  /\ r \notin freed
  /\ processStatus' = [processStatus EXCEPT ![r] = "ConsumerDone"]
  /\ freed' = IF processStatus[r] = "ProducerDone" THEN freed \cup {r} ELSE freed
  /\ UNCHANGED <<consumerStatus, ppc, ctx, pc, i, index>>

-----------------------------------------------------------------------------
Resume(r) ==
  \/ ResumeConsumer(r) \/ TryResumeLoad(r) \/ TryResumeDone(r)
  \/ TryResumeProcessing(r) \/ ProducerDelete(r)

Coroutine ==
  \/ AnyResultFinished \/ WhenAnyLoad \/ WhenAnyRegister \/ ResumeInline
  \/ FinishProcessing \/ RewindLoad \/ RewindCas

Next ==
  \/ \E r \in Results : CompleteProducer(r) \/ Resume(r) \/ Drop(r)
  \/ Coroutine

Spec == Init /\ [][Next]_vars

(* Running threads go on; a result may stay unfinished for ever.             *)
FairSpec ==
  /\ Spec
  /\ WF_vars(Coroutine)
  /\ \A r \in Results : WF_vars(Resume(r))

(* Every task given to when_any ends.                                        *)
FinishingSpec ==
  /\ FairSpec
  /\ \A r \in Results : WF_vars(CompleteProducer(r))

-----------------------------------------------------------------------------
TypeOK ==
  /\ processStatus \in [Results ->
       {"Idle", "ConsumerSet", "ConsumerDone", "ProducerDone"}]
  /\ consumerStatus \in [Results -> {"Idle", "WhenAny"}]
  /\ ppc \in [Results -> ProducerPc]
  /\ freed \subseteq Results
  /\ ctx \in Context
  /\ pc \in CoroutinePc
  /\ i \in 1..(N + 1)
  /\ index \in 0..N

(* The coroutine can be resumed exactly while it is suspended: no producer   *)
(* calls it while it still registers or after another one called it.  The    *)
(* asserts of any_result_finished, finish_processing and resume_inline.      *)
ResumableWhileSuspended == ctx = DoneProcessing <=> pc = "suspended"

(* What when_any hands back is right: the index of a finished result (the    *)
(* assert of await_resume), and the results as they were given.  None is     *)
(* left registered with a context that nobody waits on, and one that is not  *)
(* finished can be awaited again (set_await_handle asserts consumer_ is      *)
(* Idle).                                                                    *)
HandedBackClean ==
  pc = "collected" =>
    /\ index \in Results
    /\ ppc[index] \notin {"working", "resuming"}
    /\ \A r \in Results :
         /\ processStatus[r] # "ConsumerSet"
         /\ processStatus[r] = "Idle" => consumerStatus[r] = "Idle"

(* Both, for every number of results.                                        *)
WhenAnySafe == TypeOK /\ ResumableWhileSuspended /\ HandedBackClean

(* A registered coroutine is resumed when a result it is registered with     *)
(* finishes.                                                                 *)
RegisteredResumes ==
  \A r \in Results :
    (pc = "suspended" /\ ppc[r] = "resuming") ~> pc = "collected"

(* One finished result is enough for when_any to return: the resuming tests  *)
(* set one promise of sixteen and then get() the result of when_any.         *)
FinishedResultReturns ==
  \A r \in Results : processStatus[r] = "ProducerDone" ~> pc = "collected"

(* resume_consumer's assert(false): it switches on one of the four statuses. *)
ResumeConsumerAssert == \A r \in Results : ppc[r] # "failed"
=============================================================================
