---------------------------- MODULE ResultState ----------------------------
(***************************************************************************)
(* The rendezvous of one producer and one consumer on a result state       *)
(* (StateBasic and State<T>: result/detail/state.h, state.cc) together     *)
(* with the two handles that drive it: ResultPromise<T>, or the promise of *)
(* a coroutine, on the producer's side and Result<T> on the consumer's     *)
(* (result/basic.h, result/awaitable.h).                                   *)
(*                                                                         *)
(* The two sides share one atomic word, process_status_.  Every step below *)
(* is one atomic operation on that word together with the accesses to      *)
(* memory that only the stepping side may touch at that point.  The state  *)
(* is freed by whichever side finishes last.                               *)
(***************************************************************************)
EXTENDS Naturals

CONSTANTS
  Outcome,     \* the values and exceptions a producer may publish
  NoOutcome    \* producer_.status_ == ResultStatus::Idle

ASSUME OutcomeAssumption == NoOutcome \notin Outcome

VARIABLES
  processStatus,  \* StateBasic::process_status_
  consumerStatus, \* StateBasic::consumer_.status_
  produced,       \* State<T>::producer_
  ppc,            \* where the producer is
  cpc,            \* where the consumer is
  op,             \* the operation of Result<T> the consumer is in
  seen,           \* what get() or co_await handed to the consumer
  deletes         \* how many times delete_self ran

vars == <<processStatus, consumerStatus, produced, ppc, cpc, op, seen, deletes>>

ProcessStatus ==
  {"Idle", "ConsumerSet", "ConsumerWaiting", "ConsumerDone", "ProducerDone"}

(* ConsumerStatus of this module: WhenAny and Shared are in WhenAny and      *)
(* SharedResult.                                                             *)
ConsumerStatus == {"Idle", "Await"}

WaitOps == {"wait", "wait_for", "get"}
AwaitOps == {"co_await", "resolve"}
Ops == WaitOps \cup AwaitOps

ProducerPc == {"working", "built", "resuming", "notifying", "deleting", "done"}
ConsumerPc == {"promise", "holding", "cas", "check", "futex", "asleep",
               "expired", "suspended", "satisfied", "joining", "deleting",
               "done"}

(* The consumer's end is still inside the ResultPromise ("promise") until    *)
(* get_result() moves it into a Result ("holding").                          *)
Init ==
  /\ processStatus = "Idle"
  /\ consumerStatus = "Idle"
  /\ produced = NoOutcome
  /\ ppc = "working"
  /\ cpc = "promise"
  /\ op = "none"
  /\ seen = NoOutcome
  /\ deletes = 0

-----------------------------------------------------------------------------
(* The producer.                                                             *)

(* throw_if_empty: the promise still has the producer's end.                 *)
MayPublish == ppc = "working"

(* set_result, set_exception, from_callable, unhandled_exception, or the     *)
(* "interrupted" exception of a promise dropped after get_result().          *)
SetOutcome(o) ==
  /\ MayPublish
  /\ produced' = o
  /\ ppc' = "built"
  /\ UNCHANGED <<processStatus, consumerStatus, cpc, op, seen, deletes>>

(* ~ResultPromise with both ends still inside: break_task_if_needed leaves   *)
(* the state alone and the members go in reverse order, the consumer's end   *)
(* first; its complete_consumer finds Idle.                                  *)
Abandon ==
  /\ ppc = "working"
  /\ cpc = "promise"
  /\ processStatus' = "ConsumerDone"
  /\ cpc' = "done"
  /\ ppc' = "built"
  /\ UNCHANGED <<consumerStatus, produced, op, seen, deletes>>

AfterPublishNoDelete(status) ==
  CASE status = "ConsumerSet"     -> "resuming"
    [] status = "ConsumerWaiting" -> "notifying"
    [] OTHER                      -> "done"

AfterPublishNoNotify(status) ==
  CASE status = "ConsumerSet"  -> "resuming"
    [] status = "ConsumerDone" -> "deleting"
    [] OTHER                   -> "done"

(* complete_producer: the branch on what the exchange replaced.              *)
AfterPublish(status) ==
  CASE status = "ConsumerSet"     -> "resuming"
    [] status = "ConsumerWaiting" -> "notifying"
    [] status = "ConsumerDone"    -> "deleting"
    [] OTHER                      -> "done"

CompleteProducer ==
  /\ ppc = "built"
  /\ processStatus' = "ProducerDone"
  /\ ppc' = AfterPublish(processStatus)
  /\ UNCHANGED <<consumerStatus, produced, cpc, op, seen, deletes>>

(* ConsumerContext::resume_consumer copies the handle and calls it; the      *)
(* coroutine goes on inside this call, on the producer's thread, and the     *)
(* producer touches the state no more.                                       *)
ResumeConsumer ==
  /\ ppc = "resuming"
  /\ cpc' = IF consumerStatus = "Await" THEN "satisfied" ELSE cpc
  /\ ppc' = "done"
  /\ UNCHANGED <<processStatus, consumerStatus, produced, op, seen, deletes>>

AfterWakeUpUnchecked == "satisfied"

(* A woken thread goes round the loop of atomic_wait.                        *)
AfterWakeUp == "check"

(* atomic_notify_all: only the address of the word is used.                  *)
NotifyAll ==
  /\ ppc = "notifying"
  /\ cpc' = IF cpc = "asleep" THEN AfterWakeUp ELSE cpc
  /\ ppc' = "done"
  /\ UNCHANGED <<processStatus, consumerStatus, produced, op, seen, deletes>>

ProducerDelete ==
  /\ ppc = "deleting"
  /\ deletes' = deletes + 1
  /\ ppc' = "done"
  /\ UNCHANGED <<processStatus, consumerStatus, produced, cpc, op, seen>>

-----------------------------------------------------------------------------
(* The consumer.                                                             *)

(* ResultPromise::get_result throws once the producer's end is gone.         *)
GetResult ==
  /\ cpc = "promise"
  /\ ppc = "working"
  /\ cpc' = "holding"
  /\ UNCHANGED <<processStatus, consumerStatus, produced, ppc, op, seen, deletes>>

(* The first load of wait, wait_for and await.                               *)
Begin(o) ==
  /\ cpc = "holding"
  /\ op' = o
  /\ cpc' = IF processStatus = "ProducerDone" THEN "satisfied" ELSE "cas"
  /\ UNCHANGED <<processStatus, consumerStatus, produced, ppc, seen, deletes>>

(* wait, wait_for: Idle -> ConsumerWaiting; a failed exchange means done.    *)
WaitCas ==
  /\ cpc = "cas"
  /\ op \in WaitOps
  /\ \/ /\ processStatus = "Idle"
        /\ processStatus' = "ConsumerWaiting"
        /\ cpc' = "check"
     \/ /\ processStatus # "Idle"
        /\ cpc' = "satisfied"
        /\ UNCHANGED processStatus
  /\ UNCHANGED <<consumerStatus, produced, ppc, op, seen, deletes>>

(* await: set_await_handle, then Idle -> ConsumerSet.                        *)
AwaitCas ==
  /\ cpc = "cas"
  /\ op \in AwaitOps
  /\ consumerStatus' = "Await"
  /\ \/ /\ processStatus = "Idle"
        /\ processStatus' = "ConsumerSet"
        /\ cpc' = "suspended"
     \/ /\ processStatus # "Idle"
        /\ cpc' = "satisfied"
        /\ UNCHANGED processStatus
  /\ UNCHANGED <<produced, ppc, op, seen, deletes>>

(* The load at the head of the loop of atomic_wait and atomic_wait_for.      *)
CheckWord ==
  /\ cpc = "check"
  /\ cpc' = IF processStatus # "ConsumerWaiting" THEN "satisfied" ELSE "futex"
  /\ UNCHANGED <<processStatus, consumerStatus, produced, ppc, op, seen, deletes>>

(* FUTEX_WAIT: the kernel compares the word again before it sleeps.          *)
FutexWait ==
  /\ cpc = "futex"
  /\ cpc' = IF processStatus = "ConsumerWaiting" THEN "asleep" ELSE "check"
  /\ UNCHANGED <<processStatus, consumerStatus, produced, ppc, op, seen, deletes>>

(* A wake-up nobody sent, or the end of a timed FUTEX_WAIT.                  *)
WakeUp ==
  /\ cpc = "asleep"
  /\ cpc' = AfterWakeUp
  /\ UNCHANGED <<processStatus, consumerStatus, produced, ppc, op, seen, deletes>>

(* atomic_wait_for: past the deadline the word is loaded once more.          *)
DeadlinePassed ==
  /\ cpc = "futex"
  /\ op = "wait_for"
  /\ cpc' = IF processStatus # "ConsumerWaiting" THEN "satisfied" ELSE "expired"
  /\ UNCHANGED <<processStatus, consumerStatus, produced, ppc, op, seen, deletes>>

(* The exchange ConsumerWaiting -> Idle, unless the producer got there first.*)
TakeBackWord ==
  \/ /\ processStatus = "ConsumerWaiting"
     /\ processStatus' = "Idle"
     /\ cpc' = "holding"
  \/ /\ processStatus # "ConsumerWaiting"
     /\ cpc' = "satisfied"
     /\ UNCHANGED processStatus

(* wait_for after a timeout.                                                 *)
ExpireCas ==
  /\ cpc = "expired"
  /\ TakeBackWord
  /\ UNCHANGED <<consumerStatus, produced, ppc, op, seen, deletes>>

(* assert_done holds here: get and co_await release the state into a joined  *)
(* pointer and read the outcome, the other operations leave a Result.        *)
ReturnFromOp ==
  /\ cpc = "satisfied"
  /\ \/ /\ op \in {"get", "co_await"}
        /\ seen' = produced
        /\ cpc' = "joining"
     \/ /\ op \in {"wait", "wait_for", "resolve"}
        /\ cpc' = "holding"
        /\ UNCHANGED seen
  /\ UNCHANGED <<processStatus, consumerStatus, produced, ppc, op, deletes>>

(* complete_joined_consumer.                                                 *)
CompleteJoined ==
  /\ cpc = "joining"
  /\ deletes' = deletes + 1
  /\ cpc' = "done"
  /\ UNCHANGED <<processStatus, consumerStatus, produced, ppc, op, seen>>

AfterDropAlways(status) == "deleting"

(* complete_consumer: the branch on what the exchange replaced.              *)
AfterDrop(status) ==
  IF status = "ProducerDone" THEN "deleting" ELSE "done"

(* The Result is destroyed, or the emptied promise that never gave it out:   *)
(* complete_consumer.                                                        *)
Drop ==
  /\ cpc = "holding" \/ (cpc = "promise" /\ ppc = "done")
  /\ processStatus' = "ConsumerDone"
  /\ cpc' = AfterDrop(processStatus)
  /\ UNCHANGED <<consumerStatus, produced, ppc, op, seen, deletes>>

ConsumerDelete ==
  /\ cpc = "deleting"
  /\ deletes' = deletes + 1
  /\ cpc' = "done"
  /\ UNCHANGED <<processStatus, consumerStatus, produced, ppc, op, seen>>

-----------------------------------------------------------------------------
Produce == \E o \in Outcome : SetOutcome(o)

ProducerStep ==
  CompleteProducer \/ ResumeConsumer \/ NotifyAll \/ ProducerDelete

(* Steps a thread inside an operation takes without waiting for anybody.     *)
ConsumerStep ==
  \/ WaitCas \/ AwaitCas \/ CheckWord \/ FutexWait \/ ExpireCas
  \/ ReturnFromOp \/ CompleteJoined \/ ConsumerDelete

ConsumerChoice == GetResult \/ Drop \/ \E o \in Ops : Begin(o)

(* Both handles gone: the program goes on without this state.                *)
Finished ==
  /\ ppc = "done"
  /\ cpc = "done"
  /\ UNCHANGED vars

Next ==
  \/ Produce \/ Abandon \/ ProducerStep
  \/ ConsumerChoice \/ ConsumerStep \/ WakeUp \/ DeadlinePassed
  \/ Finished

Spec == Init /\ [][Next]_vars

(* A running thread takes its next step, and the task behind a promise ends  *)
(* some day.  Nothing forces a wake-up nobody sent, nor the user's choices.  *)
FairSpec ==
  /\ Spec
  /\ WF_vars(Produce \/ Abandon)
  /\ WF_vars(ProducerStep)
  /\ WF_vars(ConsumerStep)

-----------------------------------------------------------------------------
TypeOK ==
  /\ processStatus \in ProcessStatus
  /\ consumerStatus \in ConsumerStatus
  /\ produced \in Outcome \cup {NoOutcome}
  /\ ppc \in ProducerPc
  /\ cpc \in ConsumerPc
  /\ op \in Ops \cup {"none"}
  /\ seen \in Outcome \cup {NoOutcome}
  /\ deletes \in Nat

(* delete_self runs when neither side will touch the state again: a producer *)
(* may at most still hold the address for its notify.                        *)
NoUseAfterDelete ==
  deletes > 0 => cpc = "done" /\ ppc \in {"notifying", "done"}

(* Whichever order the two sides finish in, delete_self runs exactly once.   *)
DeletedOnce ==
  /\ deletes <= 1
  /\ ppc = "done" /\ cpc = "done" => deletes = 1

(* The assert_done() of wait, wait_for, await and get: an operation that     *)
(* comes back as finished finds ProducerDone and a published outcome.        *)
DoneWhenSatisfied ==
  cpc \in {"satisfied", "joining"} =>
    processStatus = "ProducerDone" /\ produced \in Outcome

(* get() and co_await return the outcome the producer published.             *)
SeenIsProduced == seen # NoOutcome => seen = produced

(* The asserts of complete_producer, complete_consumer and set_await_handle: *)
(* the producer never publishes twice, a Result is not dropped while a       *)
(* coroutine is registered or a thread waits, and a handle is stored only    *)
(* where none is.                                                            *)
ExchangeAsserts ==
  /\ ppc = "built" => processStatus # "ProducerDone"
  /\ cpc = "holding" => processStatus \in {"Idle", "ProducerDone"}
  /\ cpc = "cas" /\ op \in AwaitOps => consumerStatus = "Idle"

(* No lost wake-up: a thread asleep on the word, or a suspended coroutine,   *)
(* still has its waker: the registered status or a producer about to wake it.*)
WakerExists ==
  /\ cpc = "asleep" =>
       processStatus = "ConsumerWaiting" \/ ppc = "notifying"
  /\ cpc = "suspended" =>
       \/ processStatus = "ConsumerSet"
       \/ ppc = "resuming" /\ consumerStatus = "Await"

(* A published outcome is never taken back: the status leaves ProducerDone   *)
(* only when the consumer's end goes away.                                   *)
PublishedStays ==
  [][processStatus = "ProducerDone" =>
       processStatus' \in {"ProducerDone", "ConsumerDone"}]_vars

(* Every blocked wait and every suspended coroutine is let go in the end.    *)
ConsumerUnblocks ==
  /\ cpc = "asleep" ~> cpc # "asleep"
  /\ cpc = "suspended" ~> cpc # "suspended"
=============================================================================
