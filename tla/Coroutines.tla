----------------------------- MODULE Coroutines -----------------------------
(***************************************************************************)
(* A lazy coroutine (result/lazy.h, lazy_awaitable.h, detail/lazy_state.h) *)
(* with the body that when_all gives it (result/when.h): it starts when it *)
(* is first awaited, waits for every input result in turn, moves to an     *)
(* executor with resume_on and returns. Whoever holds its handle destroys  *)
(* the frame: a LazyResult, or the awaitable of a co_await or a resolve.   *)
(*                                                                         *)
(* Input results and the executor complete in any order, from other        *)
(* threads; the rendezvous with one input is ResultState's await.          *)
(*                                                                         *)
(* And a generator coroutine with its iterator (result/generator.h,        *)
(* detail/generator_state.h). The coroutine publishes the address of what  *)
(* it yields and suspends; begin() and ++ resume it and rethrow what its   *)
(* body threw; the iterator compares equal to end() once it is done. It    *)
(* shares nothing with the lazy one.                                       *)
(*                                                                         *)
(* And the storage of what a coroutine leaves in its result                *)
(* (result/detail/producer_context.h), which shares nothing with either.   *)
(***************************************************************************)
EXTENDS Naturals, Sequences

CONSTANTS Inputs,   \* number of results given to when_all
          MaxAwaits, \* bound on resolves by the caller (TLC only)
          Length    \* how many values the body of the generator can yield

ASSUME FramesAssumption == Inputs \in Nat /\ MaxAwaits \in Nat /\ Length \in Nat

Holders == {"result", "other", "awaitable"} \* two LazyResults and the awaitable

VARIABLES
  held,      \* which of the holders have the frame's handle
  frame,     \* "start", "input", "hop", "final": where the coroutine is suspended;
             \* "body" while it runs; "freed"
  next,      \* the input the loop is at
  done,      \* inputs whose producer is done
  outcome,   \* producer_: "Idle", "Value", "Exception"
  caller,    \* coroutine_handle_: is the caller's handle stored
  callerPc, callerOp,   \* the caller: "idle", "check", "suspended", "resumed", "end"; its operation
  got,       \* what the caller got: "none", "Value", "Exception"
  destroys,  \* how often the frame was destroyed
  awaits, executorShut

lazyVars == <<held, frame, next, done, outcome, caller, callerPc, callerOp, got, destroys, awaits, executorShut>>

LazyInit ==
  /\ held = [h \in Holders |-> h = "result"] /\ frame = "start"
  /\ next = 1 /\ done = {} /\ outcome = "Idle" /\ caller = FALSE
  /\ callerPc = "idle" /\ callerOp = "none" /\ got = "none" /\ destroys = 0
  /\ awaits = 0 /\ executorShut = FALSE

-----------------------------------------------------------------------------
(* Handles                                                                 *)

\* std::exchange(state_, {}) from one holder to another.
MutantMovedHandle(from, to) == [held EXCEPT ![to] = held[from]]
MovedHandle(from, to) == [held EXCEPT ![to] = held[from], ![from] = FALSE]

\* state_.destroy() if the holder has one.
Destroyed(h) ==
  /\ destroys' = IF held[h] THEN destroys + 1 ELSE destroys
  /\ frame' = IF held[h] THEN "freed" ELSE frame

\* LazyResult's move assignment destroys what the target held.
MoveResult(a, b) ==
  /\ callerPc = "idle" /\ a # b
  /\ Destroyed(b) /\ held' = MovedHandle(a, b)
  /\ UNCHANGED <<next, done, outcome, caller, callerPc, callerOp, got, awaits, executorShut>>

\* ~LazyResult.
DropResult(a) ==
  /\ callerPc = "idle" /\ held[a]
  /\ Destroyed(a) /\ held' = [held EXCEPT ![a] = FALSE]
  /\ UNCHANGED <<next, done, outcome, caller, callerPc, callerOp, got, awaits, executorShut>>

-----------------------------------------------------------------------------
(* The caller: co_await, resolve(), and run(), whose coroutine awaits the    *)
(* result it was moved into.                                               *)

AwaitResult(a, o) ==
  /\ callerPc = "idle" /\ held[a] /\ awaits < MaxAwaits
  /\ held' = MovedHandle(a, "awaitable")
  /\ callerOp' = o /\ callerPc' = "check" /\ awaits' = awaits + 1
  /\ UNCHANGED <<frame, next, done, outcome, caller, got, destroys, executorShut>>

\* throw_if_empty: an empty result refuses every operation.
AwaitEmpty(a) ==
  /\ callerPc = "idle" /\ ~ held[a] /\ got # "refused" /\ got' = "refused"
  /\ UNCHANGED <<held, frame, next, done, outcome, caller, callerPc, callerOp, destroys, awaits, executorShut>>

\* await_ready: the coroutine is done already, or await_suspend stores the
\* caller and transfers to the coroutine.
Await ==
  /\ callerPc = "check"
  /\ IF frame = "final" THEN callerPc' = "resumed" /\ UNCHANGED <<caller, frame>>
     ELSE callerPc' = "suspended" /\ caller' = TRUE /\ frame' = "body"
  /\ UNCHANGED <<held, next, done, outcome, callerOp, got, destroys, awaits, executorShut>>

\* await_resume, then the awaitable's destructor: a co_await takes the value or
\* the exception and destroys the frame; a resolve hands the handle back.
Resume ==
  /\ callerPc = "resumed"
  /\ IF callerOp = "resolve"
     THEN /\ held' = MovedHandle("awaitable", "result") /\ UNCHANGED <<got, frame, destroys>>
     ELSE /\ got' = outcome /\ held' = [held EXCEPT !["awaitable"] = FALSE]
          /\ Destroyed("awaitable")
  /\ callerPc' = IF callerOp = "resolve" THEN "idle" ELSE "end"
  /\ UNCHANGED <<next, done, outcome, caller, callerOp, awaits, executorShut>>

-----------------------------------------------------------------------------
(* The coroutine                                                           *)

\* when_all_impl: await of the next input, which does not suspend when that
\* input is done; after the last, resume_on posts to the executor.
MutantReady(k) == k \in done \/ k = Inputs
Ready(k) == k \in done

Step ==
  /\ frame = "body"
  /\ CASE next <= Inputs /\ Ready(next) -> next' = next + 1 /\ UNCHANGED <<frame, outcome>>
       [] next <= Inputs /\ ~ Ready(next) -> frame' = "input" /\ UNCHANGED <<next, outcome>>
       [] next > Inputs /\ outcome = "Idle" /\ executorShut ->
            frame' = "final" /\ outcome' = "Exception" /\ UNCHANGED next
       [] OTHER -> frame' = "hop" /\ UNCHANGED <<next, outcome>>
  /\ callerPc' = IF frame' = "final" THEN "resumed" ELSE callerPc
  /\ UNCHANGED <<held, done, caller, callerOp, got, destroys, awaits, executorShut>>

\* A producer finishes an input; it resumes the coroutine that waits for it.
Complete(k) ==
  /\ k \notin done /\ done' = done \cup {k}
  /\ frame # "freed"
  /\ IF frame = "input" /\ next = k
     THEN frame' = "body" /\ next' = next + 1 ELSE UNCHANGED <<frame, next>>
  /\ UNCHANGED <<held, outcome, caller, callerPc, callerOp, got, destroys, awaits, executorShut>>

\* The executor calls or, shut down, destroys the functor: the body returns the
\* results or throws; final_suspend resumes the caller.
Hop ==
  /\ frame = "hop" /\ frame' = "final"
  /\ outcome' = IF executorShut THEN "Exception" ELSE "Value"
  /\ callerPc' = "resumed"
  /\ UNCHANGED <<held, next, done, caller, callerOp, got, destroys, awaits, executorShut>>

Shutdown ==
  /\ ~ executorShut /\ executorShut' = TRUE
  /\ UNCHANGED <<held, next, done, caller, callerOp, got, destroys, awaits>>
  /\ UNCHANGED <<frame, outcome, callerPc>>

LazyNext ==
  \/ \E a, b \in {"result", "other"} : MoveResult(a, b)
  \/ \E a \in {"result", "other"} :
       \/ DropResult(a) \/ AwaitEmpty(a)
       \/ \E o \in {"await", "resolve", "run"} : AwaitResult(a, o)
  \/ Await \/ Resume \/ Step \/ Hop \/ Shutdown
  \/ \E k \in 1..Inputs : Complete(k)

LazySpec == /\ LazyInit /\ [][LazyNext]_lazyVars
        /\ WF_lazyVars(Await \/ Resume \/ Step \/ Hop) /\ \A k \in 1..Inputs : WF_lazyVars(Complete(k))

-----------------------------------------------------------------------------
\* One holder owns the frame and destroys it once; the coroutine runs only
\* while an awaitable, in the suspended caller, holds it; and a caller is only
\* resumed at the coroutine's end, with its outcome set.
FrameOwned ==
  /\ \A g, h \in Holders : held[g] /\ held[h] => g = h
  /\ destroys = IF \E h \in Holders : held[h] THEN 0 ELSE 1
  /\ frame = "freed" <=> destroys = 1
  /\ frame \in {"body", "input", "hop"} => held["awaitable"] /\ caller /\ callerPc = "suspended"
  /\ callerPc = "resumed" => frame = "final" /\ outcome # "Idle"

\* when_all hands back its results only after every one of them is done.
AllDone == outcome # "Idle" => done = 1..Inputs

\* A caller that awaits the lazy result is resumed.
CallerResumes == callerPc = "suspended" ~> callerPc = "resumed"

-----------------------------------------------------------------------------
(* The generator                                                           *)

VARIABLES
  handle,     \* Generator::coroutine_handle_ is set
  body,       \* its frame: "start", "yield", "done", "freed"
  yielded,    \* values the body has yielded: 1, 2, ...
  value,      \* value_: the last one published, 0 for none
  exception,  \* exception_ is set
  iter,       \* the loop has an iterator
  loopSeen,   \* values the loop read through it
  ending      \* "none", "end" or "thrown": how the loop ended

generatorVars == <<handle, body, yielded, value, exception, iter, loopSeen, ending>>

GeneratorInit ==
  /\ handle = TRUE /\ body = "start" /\ yielded = 0 /\ value = 0
  /\ exception = FALSE /\ iter = FALSE /\ loopSeen = <<>> /\ ending = "none"

\* throw_if_exception.
MutantThrowIfException == UNCHANGED ending
ThrowIfException == ending' = IF exception' THEN "thrown" ELSE ending

\* resume(): the body runs to its next co_yield, its end, or an exception, which
\* unhandled_exception keeps; a done coroutine then rethrows it.
Resumed ==
  \/ /\ yielded < Length
     /\ yielded' = yielded + 1 /\ value' = yielded + 1 /\ body' = "yield"
     /\ UNCHANGED <<exception, ending>> /\ iter' = TRUE
  \/ /\ body' = "done" /\ exception' \in BOOLEAN /\ ThrowIfException
     /\ iter' = (iter \/ ~ exception') /\ UNCHANGED <<yielded, value>>

\* begin(): asserts that the coroutine is not done.
BeginLoop ==
  /\ handle /\ ~ iter /\ body = "start" /\ ending = "none"
  /\ Resumed /\ UNCHANGED <<handle, loopSeen>>

\* *it, when it differs from end(), once per position as a range-for does.
Read ==
  /\ iter /\ body = "yield" /\ Len(loopSeen) < yielded
  /\ loopSeen' = Append(loopSeen, value)
  /\ UNCHANGED <<handle, body, yielded, value, exception, iter, ending>>

\* ++it after the read.
Advance ==
  /\ iter /\ body = "yield" /\ Len(loopSeen) = yielded /\ ending = "none"
  /\ Resumed /\ UNCHANGED <<handle, loopSeen>>

\* The loop sees it == end().
End ==
  /\ iter /\ body = "done" /\ ending = "none" /\ ending' = "end"
  /\ UNCHANGED <<handle, body, yielded, value, exception, iter, loopSeen>>

\* ~Generator, also of a loop left early; a moved-from Generator does nothing.
Destroy ==
  /\ handle /\ handle' = FALSE /\ body' = "freed" /\ iter' = FALSE
  /\ UNCHANGED <<yielded, value, exception, loopSeen, ending>>

GeneratorNext == BeginLoop \/ Read \/ Advance \/ End \/ Destroy
GeneratorSpec == GeneratorInit /\ [][GeneratorNext]_generatorVars

\* A loop over a generator sees what the body yields, in order and without a
\* gap, and an exception of the body reaches it after all of them.
YieldsInOrder ==
  /\ loopSeen = [k \in 1..Len(loopSeen) |-> k] /\ Len(loopSeen) \in {yielded, yielded - 1}
  /\ ending # "none" => Len(loopSeen) = yielded /\ (ending = "thrown") = exception

-----------------------------------------------------------------------------
(* The storage                                                             *)
\* ProducerContext: a union and a status that says which member of it is alive.
\* The three classes, for a value, for void and for a reference, are told apart
\* by kind. A reference's pointer owns nothing; an object and an exception_ptr
\* are constructed in place and must be destroyed by hand. A constructor of T
\* that throws leaves the context as it was, so it is no step of its own.

CONSTANTS
  Contexts, \* the producer contexts
  Stored    \* values and exceptions that are built into them

VARIABLES
  kind,     \* "value", "void" or "reference": the class all contexts are of
  alive,    \* the contexts whose destructor has not run
  contextStatus,   \* status_
  storage,  \* the live member of storage_, with what was built into it
  built,    \* the outcomes built so far, each of them once
  ended     \* how often the member holding an outcome was destroyed for good

storeVars == <<kind, alive, contextStatus, storage, built, ended>>

None == [member |-> "none"]
Member(m, o) == [member |-> m, of |-> o]

StoreInit ==
  /\ kind \in {"value", "void", "reference"}
  /\ alive = Contexts
  /\ contextStatus = [c \in Contexts |-> "Idle"]
  /\ storage = [c \in Contexts |-> None]
  /\ built = {}
  /\ ended = [o \in Stored |-> 0]

(* What a value leaves in the storage: void has no member for it.            *)
ValueMember(o) ==
  CASE kind = "value" -> Member("object", o)
    [] kind = "void" -> None
    [] kind = "reference" -> Member("pointer", o)

build_result(c, o) ==
  /\ c \in alive /\ contextStatus[c] = "Idle"  \* assert
  /\ o \in Stored \ built
  /\ storage' = [storage EXCEPT ![c] = ValueMember(o)]
  /\ contextStatus' = [contextStatus EXCEPT ![c] = "Value"]
  /\ built' = built \union {o}
  /\ UNCHANGED <<kind, alive, ended>>

build_exception(c, o) ==
  /\ c \in alive /\ contextStatus[c] = "Idle"  \* assert
  /\ o \in Stored \ built
  /\ storage' = [storage EXCEPT ![c] = Member("exception", o)]
  /\ contextStatus' = [contextStatus EXCEPT ![c] = "Exception"]
  /\ built' = built \union {o}
  /\ UNCHANGED <<kind, alive, ended>>

(* get() of a value moves out of the object, which stays constructed; the    *)
(* other reads, and rethrowing an exception, change nothing.                 *)
get(c) ==
  /\ c \in alive /\ contextStatus[c] = "Value" /\ kind = "value"
  /\ storage' = [storage EXCEPT ![c].member = "moved"]
  /\ UNCHANGED <<kind, alive, contextStatus, built, ended>>

MutantAssigned(c, rhs) == [contextStatus EXCEPT ![c] = contextStatus[rhs]]

(* operator=(&&), of the classes for void and for a reference: the source    *)
(* is Idle afterwards and its exception_ptr, copied, is destroyed.           *)
Assigned(c, rhs) == [contextStatus EXCEPT ![c] = contextStatus[rhs], ![rhs] = "Idle"]

AssignedVoid(c, rhs) ==
  IF contextStatus[rhs] = "Exception"
  THEN [storage EXCEPT ![c] = storage[rhs], ![rhs] = None]
  ELSE storage

AssignedReference(c, rhs) ==
  CASE contextStatus[rhs] = "Value" -> [storage EXCEPT ![c] = storage[rhs]]
    [] contextStatus[rhs] = "Exception" ->
         [storage EXCEPT ![c] = storage[rhs], ![rhs] = None]
    [] contextStatus[rhs] = "Idle" -> storage

Assign(c, rhs) ==
  /\ c # rhs /\ {c, rhs} \subseteq alive /\ kind # "value"
  /\ contextStatus[c] = "Idle"  \* assert
  /\ contextStatus' = Assigned(c, rhs)
  /\ storage' = IF kind = "void" THEN AssignedVoid(c, rhs)
                                 ELSE AssignedReference(c, rhs)
  /\ UNCHANGED <<kind, alive, built, ended>>

MutantDestroysValue(c) == contextStatus[c] = "Exception"

(* The destructors: which of them destroys a member of the union.            *)
DestroysValue(c) == contextStatus[c] \in {"Value", "Exception"}
DestroysVoid(c) == contextStatus[c] = "Exception"
DestroysReference(c) == contextStatus[c] = "Exception"

Destroys(c) ==
  CASE kind = "value" -> DestroysValue(c)
    [] kind = "void" -> DestroysVoid(c)
    [] kind = "reference" -> DestroysReference(c)

DestroyContext(c) ==
  /\ c \in alive
  /\ alive' = alive \ {c}
  /\ ended' = [o \in Stored |->
                 IF Destroys(c) /\ storage[c] # None /\ storage[c].of = o
                 THEN ended[o] + 1 ELSE ended[o]]
  /\ storage' = IF Destroys(c) THEN [storage EXCEPT ![c] = None] ELSE storage
  /\ UNCHANGED <<kind, contextStatus, built>>

StoreNext ==
  \E c \in Contexts :
    \/ \E o \in Stored : build_result(c, o) \/ build_exception(c, o)
    \/ get(c)
    \/ \E rhs \in Contexts : Assign(c, rhs)
    \/ DestroyContext(c)

StoreSpec == StoreInit /\ [][StoreNext]_storeVars

Owning == {"object", "moved", "exception"}

(* The status of a living context names a member that is constructed, so     *)
(* that reading it, moving it to another context and destroying it are       *)
(* defined however the contexts were built, assigned and used again.         *)
StatusNamesMember ==
  \A c \in alive :
    CASE contextStatus[c] = "Exception" -> storage[c].member = "exception"
      [] contextStatus[c] = "Idle" -> storage[c].member \notin Owning
      [] contextStatus[c] = "Value" ->
           CASE kind = "value" -> storage[c].member \in {"object", "moved"}
             [] kind = "void" -> storage[c].member = "none"
             [] kind = "reference" -> storage[c].member = "pointer"

(* What is constructed in place is destroyed once: an outcome has at most    *)
(* one owner, an owner is a living context, and an outcome that ended has no *)
(* owner left (the destructors and operator=).                               *)
OwnedOnce ==
  \A o \in Stored :
    LET owners == {c \in Contexts : storage[c].member \in Owning /\ storage[c].of = o}
    IN  /\ ended[o] <= IF owners = {} THEN 1 ELSE 0
        /\ \A c, d \in owners : c = d
        /\ owners \subseteq alive

-----------------------------------------------------------------------------
(* Side by side                                                            *)

FramesInit == LazyInit /\ GeneratorInit /\ StoreInit

(* Coroutine frames: a lazy one has one owner, is destroyed once and, in     *)
(* when_all, ends only when every input is done; a loop over a generator     *)
(* sees what the body yields, in order, and its exception after all of it.   *)
(* What a coroutine leaves in its result's storage is read while it is       *)
(* constructed and destroyed once (result/detail/producer_context.h).        *)
CoroutinesSafe ==
  /\ FrameOwned /\ AllDone
  /\ YieldsInOrder
  /\ StatusNamesMember /\ OwnedOnce
=============================================================================
