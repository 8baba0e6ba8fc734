---------------------------- MODULE SharedResult ----------------------------
(***************************************************************************)
(* Shared<T> (result/shared.h, result/detail/shared_state.h and .cc,       *)
(* StateBasic::share): a result turned into one that any number of clients *)
(* copy, wait for and co_await.                                            *)
(*                                                                         *)
(* The shared state registers itself (weakly) as the consumer of the       *)
(* result's state; on_finished, run by the producer or by the constructor  *)
(* that found the result finished, wakes the waiting threads and calls the *)
(* coroutines pushed on a lock-free list.  The last copy to go destroys    *)
(* the shared state, which takes its registration back.                    *)
(***************************************************************************)
EXTENDS Naturals, Sequences, FiniteSets, SequencesExt

CONSTANT Client

VARIABLES
  processStatus,  \* StateBasic::process_status_ of the inner state
  consumerStatus, \* its consumer_.status_
  freed,          \* the inner state was deleted
  ppc,            \* where the producer is
  spc,            \* where the constructor of Shared, inside share(), is
  fin,            \* where on_finished is
  status,         \* SharedStateBasic::status_ : "Idle" or "Ready"
  ready,          \* awaiters_ holds ready_constant()
  awaiters,       \* otherwise the list it holds, the last pushed first
  calling,        \* the reversed list on_finished still has to call
  cpc,            \* client -> where it is
  before,         \* client -> awaiter_before of its await()
  dpc,            \* where ~SharedState is
  pushed, called  \* history: the coroutines pushed and those called back

innerVars == <<processStatus, consumerStatus, freed>>
listVars == <<ready, awaiters, calling, pushed, called>>
vars == <<innerVars, ppc, spc, fin, status, listVars, cpc, before, dpc>>

ProducerPc == {"working", "resuming", "finishing", "deleting", "done", "failed"}
SharePc == {"load", "cas", "finishing", "built"}
FinishPc == {"none", "store", "notify", "exchange", "call"}
ClientPc == {"none", "holding", "check", "asleep", "pushLoad", "pushCas",
             "suspended", "satisfied", "gone"}
DestroyPc == {"none", "rewind", "rewindCas", "reset", "deleting", "done"}

Init ==
  /\ processStatus = "Idle"
  /\ consumerStatus = "Idle"
  /\ freed = FALSE
  /\ ppc = "working"
  /\ spc = "load"
  /\ fin = "none"
  /\ status = "Idle"
  /\ ready = FALSE
  /\ awaiters = <<>>
  /\ calling = <<>>
  /\ cpc = [c \in Client |-> "none"]
  /\ before = [c \in Client |-> <<>>]
  /\ dpc = "none"
  /\ pushed = <<>>
  /\ called = <<>>

(* The clients whose copy keeps the shared state alive.                      *)
Holders == {c \in Client : cpc[c] \notin {"none", "gone"}}

-----------------------------------------------------------------------------
(* The constructor Shared(Result): StateBasic::share.                        *)

(* The Shared that was built is copied to every client.                      *)
Built ==
  /\ spc' = "built"
  /\ cpc' = [c \in Client |-> "holding"]

ShareLoad ==
  /\ spc = "load"
  /\ IF processStatus = "ProducerDone"
       THEN spc' = "finishing" /\ fin' = "store"
       ELSE spc' = "cas" /\ UNCHANGED fin
  /\ UNCHANGED <<innerVars, ppc, status, listVars, cpc, before, dpc>>

(* set_shared_context, then Idle -> ConsumerSet.                             *)
ShareCas ==
  /\ spc = "cas"
  /\ consumerStatus' = "Shared"
  /\ \/ /\ processStatus = "Idle"
        /\ processStatus' = "ConsumerSet"
        /\ Built
        /\ UNCHANGED fin
     \/ /\ processStatus # "Idle"
        /\ spc' = "finishing"
        /\ fin' = "store"
        /\ UNCHANGED <<processStatus, cpc>>
  /\ UNCHANGED <<freed, ppc, status, listVars, before, dpc>>

-----------------------------------------------------------------------------
(* The producer.                                                             *)

CompleteProducer ==
  /\ ppc = "working"
  /\ processStatus' = "ProducerDone"
  /\ ppc' = CASE processStatus = "ConsumerSet"  -> "resuming"
              [] processStatus = "ConsumerDone" -> "deleting"
              [] OTHER                          -> "done"
  /\ UNCHANGED <<consumerStatus, freed, spc, fin, status, listVars, cpc, before, dpc>>

(* resume_consumer: copies the weak pointer and locks it.  On a freed state  *)
(* the switch may miss every case, or the lock fail.                         *)
ResumeConsumer ==
  /\ ppc = "resuming"
  /\ \/ /\ freed
        /\ ppc' \in {"failed", "done"}
        /\ UNCHANGED fin
     \/ /\ ~freed
        /\ consumerStatus = "Shared"
        /\ Holders # {}
        /\ ppc' = "finishing"
        /\ fin' = "store"
     \/ /\ ~freed
        /\ consumerStatus # "Shared" \/ Holders = {}
        /\ ppc' = "done"
        /\ UNCHANGED fin
  /\ UNCHANGED <<innerVars, spc, status, listVars, cpc, before, dpc>>

ProducerDelete ==
  /\ ppc = "deleting"
  /\ freed' = TRUE
  /\ ppc' = "done"
  /\ UNCHANGED <<processStatus, consumerStatus, spc, fin, status, listVars, cpc,
                 before, dpc>>

-----------------------------------------------------------------------------
(* SharedState::on_finished.                                                 *)

FinalStatusOfWord == processStatus

(* state_->status(): the outcome, not the word of the rendezvous.            *)
FinalStatus == "Ready"

FinishStore ==
  /\ fin = "store"
  /\ status' = FinalStatus
  /\ fin' = "notify"
  /\ UNCHANGED <<innerVars, ppc, spc, listVars, cpc, before, dpc>>

WokenNone == {}

Woken == {c \in Client : cpc[c] = "asleep"}

FinishNotify ==
  /\ fin = "notify"
  /\ cpc' = [c \in Client |-> IF c \in Woken THEN "check" ELSE cpc[c]]
  /\ fin' = "exchange"
  /\ UNCHANGED <<innerVars, ppc, spc, status, listVars, before, dpc>>

(* The reversal of the list.                                                 *)
CallOrder == Reverse(awaiters)

(* The exchange with ready_constant().                                       *)
FinishExchange ==
  /\ fin = "exchange"
  /\ ready' = TRUE
  /\ awaiters' = <<>>
  /\ calling' = CallOrder
  /\ fin' = "call"
  /\ UNCHANGED <<innerVars, ppc, spc, status, cpc, before, dpc, pushed, called>>

(* The coroutine goes on inside the call.                                    *)
CallAwaiter ==
  /\ fin = "call"
  /\ calling # <<>>
  /\ cpc' = [cpc EXCEPT ![Head(calling)] = "satisfied"]
  /\ called' = Append(called, Head(calling))
  /\ calling' = Tail(calling)
  /\ UNCHANGED <<innerVars, ppc, spc, fin, status, ready, awaiters, before, dpc,
                 pushed>>

(* on_finished returns: the producer lets its locked pointer go, which may   *)
(* be the last one; the constructor has its Shared.                          *)
FinishReturn ==
  /\ fin = "call"
  /\ calling = <<>>
  /\ fin' = "none"
  /\ \/ /\ ppc = "finishing"
        /\ ppc' = "done"
        /\ dpc' = IF Holders = {} THEN "rewind" ELSE dpc
        /\ UNCHANGED <<spc, cpc>>
     \/ /\ spc = "finishing"
        /\ Built
        /\ UNCHANGED <<ppc, dpc>>
  /\ UNCHANGED <<innerVars, status, listVars, before>>

-----------------------------------------------------------------------------
(* A client.                                                                 *)

ClientMove(c, from, to) ==
  /\ cpc[c] = from
  /\ cpc' = [cpc EXCEPT ![c] = to]
  /\ UNCHANGED <<innerVars, ppc, spc, fin, status, dpc>>

(* wait(), wait_for(), get(): into atomic_wait on status_.                   *)
Wait(c) == ClientMove(c, "holding", "check") /\ UNCHANGED <<listVars, before>>

(* The load and the FUTEX_WAIT that compares again before it sleeps.         *)
WaitCheck(c) ==
  /\ ClientMove(c, "check", IF status # "Idle" THEN "satisfied" ELSE "asleep")
  /\ UNCHANGED <<listVars, before>>

AfterWake == "check"

(* A wake-up nobody sent, or a wait_for that gives up.                       *)
WaitWake(c) ==
  /\ ClientMove(c, "asleep", AfterWake) \/ ClientMove(c, "asleep", "holding")
  /\ UNCHANGED <<listVars, before>>

(* co_await, resolve.                                                        *)
Await(c) == ClientMove(c, "holding", "pushLoad") /\ UNCHANGED <<listVars, before>>

(* await(): the load.                                                        *)
AwaitLoad(c) ==
  /\ ClientMove(c, "pushLoad", IF ready THEN "satisfied" ELSE "pushCas")
  /\ before' = [before EXCEPT ![c] = awaiters]
  /\ UNCHANGED listVars

HeadUnchangedAssumed(c) == ~ready

HeadUnchanged(c) == ~ready /\ awaiters = before[c]

(* await(): the exchange; the head tells the list, which only grows.         *)
AwaitCas(c) ==
  /\ \/ /\ HeadUnchanged(c)
        /\ awaiters' = <<c>> \o before[c]
        /\ pushed' = Append(pushed, c)
        /\ ClientMove(c, "pushCas", "suspended")
     \/ /\ ~HeadUnchanged(c)
        /\ ClientMove(c, "pushCas", "pushLoad")
        /\ UNCHANGED <<awaiters, pushed>>
  /\ before' = [before EXCEPT ![c] = <<>>]
  /\ UNCHANGED <<ready, calling, called>>

(* get() and await_resume read the inner state; the copy stays.              *)
GetRef(c) ==
  ClientMove(c, "satisfied", "holding") /\ UNCHANGED <<listVars, before>>

LastReferenceForgetsLock(c) == Holders = {c}

(* Neither another client nor the producer's locked pointer is left.         *)
LastReference(c) == Holders = {c} /\ ppc # "finishing"

(* A copy goes; the last reference runs ~SharedState.                        *)
DropCopy(c) ==
  /\ cpc[c] = "holding"
  /\ cpc' = [cpc EXCEPT ![c] = "gone"]
  /\ dpc' = IF LastReference(c) THEN "rewind" ELSE dpc
  /\ UNCHANGED <<innerVars, ppc, spc, fin, status, listVars, before>>

-----------------------------------------------------------------------------
(* ~SharedState: try_rewind_consumer, then complete_consumer.                *)

DestroyMove(to) ==
  /\ dpc' = to
  /\ UNCHANGED <<ppc, spc, fin, status, listVars, cpc, before>>

MustRewind == processStatus = "ConsumerSet"

RewindLoad ==
  /\ dpc = "rewind"
  /\ DestroyMove(IF MustRewind THEN "rewindCas" ELSE "reset")
  /\ UNCHANGED innerVars

RewindCas ==
  /\ dpc = "rewindCas"
  /\ IF processStatus = "ConsumerSet"
       THEN processStatus' = "Idle" /\ consumerStatus' = "Idle"
       ELSE UNCHANGED <<processStatus, consumerStatus>>
  /\ DestroyMove("reset")
  /\ UNCHANGED freed

CompleteConsumer ==
  /\ dpc = "reset"
  /\ processStatus' = "ConsumerDone"
  /\ DestroyMove(IF processStatus = "ProducerDone" THEN "deleting" ELSE "done")
  /\ UNCHANGED <<consumerStatus, freed>>

ConsumerDelete ==
  /\ dpc = "deleting"
  /\ freed' = TRUE
  /\ DestroyMove("done")
  /\ UNCHANGED <<processStatus, consumerStatus>>

-----------------------------------------------------------------------------
Construct == ShareLoad \/ ShareCas
ProducerStep == ResumeConsumer \/ ProducerDelete
OnFinished ==
  FinishStore \/ FinishNotify \/ FinishExchange \/ CallAwaiter \/ FinishReturn
ClientChoice(c) == Wait(c) \/ Await(c) \/ WaitWake(c) \/ DropCopy(c)
ClientStep(c) == WaitCheck(c) \/ AwaitLoad(c) \/ AwaitCas(c) \/ GetRef(c)
Destroy == RewindLoad \/ RewindCas \/ CompleteConsumer \/ ConsumerDelete

(* Everything was let go, or the program died in an assert.                  *)
Finished ==
  /\ ppc \in {"done", "failed"}
  /\ dpc = "done"
  /\ UNCHANGED vars

Next ==
  \/ Construct \/ CompleteProducer \/ ProducerStep \/ OnFinished
  \/ \E c \in Client : ClientChoice(c) \/ ClientStep(c)
  \/ Destroy \/ Finished

Spec == Init /\ [][Next]_vars

(* Threads inside an operation go on, and the task ends.                     *)
FairSpec ==
  /\ Spec
  /\ WF_vars(Construct) /\ WF_vars(CompleteProducer) /\ WF_vars(ProducerStep)
  /\ WF_vars(OnFinished) /\ WF_vars(Destroy)
  /\ \A c \in Client : WF_vars(ClientStep(c))

-----------------------------------------------------------------------------
TypeOK ==
  /\ processStatus \in {"Idle", "ConsumerSet", "ConsumerDone", "ProducerDone"}
  /\ consumerStatus \in {"Idle", "Shared"}
  /\ freed \in BOOLEAN
  /\ ppc \in ProducerPc
  /\ spc \in SharePc
  /\ fin \in FinishPc
  /\ status \in {"Idle", "Ready"}
  /\ ready \in BOOLEAN
  /\ \A s \in {awaiters, calling, pushed, called} : s \in Seq(Client)
  /\ cpc \in [Client -> ClientPc]
  /\ before \in [Client -> Seq(Client)]
  /\ dpc \in DestroyPc

(* No awaiter is lost or called twice: a suspended client is in exactly one  *)
(* place, the pushed list or the list on_finished is calling, and coroutines *)
(* are called back in the order they were pushed.                            *)
AwaitersKept ==
  LET waiting == awaiters \o calling
  IN  /\ IsInjective(waiting)
      /\ ToSet(waiting) = {c \in Client : cpc[c] = "suspended"}
      /\ IsPrefix(called, pushed)

(* The states live as long as they are used, and no longer: on_finished runs *)
(* once, on a shared state that is there; a client that comes back from      *)
(* wait() or co_await reads a finished state (assert_done of get_ref); the   *)
(* inner state is not let go while registered (complete_consumer's assert)   *)
(* and is freed in the end.                                                  *)
StateLifetime ==
  /\ fin = "store" => status = "Idle" /\ ~ready
  /\ fin # "none" => dpc = "none" /\ (ppc = "finishing" \/ spc = "finishing")
  /\ \A c \in Client :
       cpc[c] = "satisfied" => processStatus = "ProducerDone" /\ ~freed
  /\ dpc = "reset" => processStatus # "ConsumerSet"
  /\ ppc = "done" /\ dpc = "done" => freed

(* Both, for every set of clients.                                           *)
SharedSafe == TypeOK /\ AwaitersKept /\ StateLifetime

(* Every waiting thread and every suspended coroutine goes on in the end.    *)
ClientUnblocks ==
  \A c \in Client :
    cpc[c] \in {"asleep", "suspended"} ~> cpc[c] \notin {"asleep", "suspended"}

(* resume_consumer's assert(false): it switches on one of the four statuses. *)
ResumeConsumerAssert == ppc # "failed"
=============================================================================
