------------------------------- MODULE RpcCall -------------------------------
(***************************************************************************)
(* Remote calls over one connection object (connection/basic.h call,       *)
(* async_call and send; connection/basic.cc send_call, new_call_index,     *)
(* handle_rpc_request, handle_rpc_response and init; rpc/dispatcher).      *)
(* Caller threads take an index, write the request and register a promise  *)
(* under it; the peer's worker runs the bound function and answers with    *)
(* the index; this side's worker looks the index up.  The manager closes   *)
(* the connection and hands the object out again, which init() resets.     *)
(* Requests and answers travel in order (NetStream).                       *)
(***************************************************************************)
EXTENDS Integers, Sequences, FiniteSets

CONSTANTS
  Callers,    \* threads, each making one call
  Names,      \* function names a caller may use
  Void,       \* those whose function returns nothing
  MaxLives    \* bound on the uses of the connection object (TLC only)

VARIABLES
  callIndex,  \* call_index
  callings,   \* index -> caller whose promise is registered; entries are never erased
  bound,      \* names in the peer's dispatcher
  requests,   \* on the way to the peer: [index, name, by]
  answers,    \* on the way back: [index, error, of]
  open,       \* the socket is connected
  life,       \* which use of the object this is
  pc,         \* caller -> "start", "indexed", "wait", "done"
  asked,      \* caller -> the name called
  index, born,\* caller -> its index, and the life it took it in
  outcome,    \* caller -> "none", the answer's caller, "error", "timeout", "failed", "broken"
  crashed     \* std::terminate, or a null dereference

vars == <<callIndex, callings, bound, requests, answers, open, life, pc, asked, index, born, outcome, crashed>>
callerVars == <<pc, asked, index, born>>

Fail == {"error", "timeout", "failed", "broken"}

Init ==
  /\ callIndex = 0 /\ callings = <<>> /\ bound = {} /\ requests = <<>> /\ answers = <<>>
  /\ open = TRUE /\ life = 1
  /\ pc = [c \in Callers |-> "start"] /\ asked \in [Callers -> Names]
  /\ index = [c \in Callers |-> 0] /\ born = [c \in Callers |-> 0]
  /\ outcome = [c \in Callers |-> "none"] /\ crashed = FALSE

\* A promise can be satisfied once; destroying it unsatisfied breaks it.
Settle(c, how) == outcome' = [outcome EXCEPT ![c] = IF @ = "none" THEN how ELSE @]

-----------------------------------------------------------------------------
(* Callers                                                                 *)

\* async_call: new_call_index under the mutex.
NewIndex(c) ==
  /\ pc[c] = "start"
  /\ callIndex' = callIndex + 1
  /\ index' = [index EXCEPT ![c] = callIndex + 1]
  /\ born' = [born EXCEPT ![c] = life]
  /\ pc' = [pc EXCEPT ![c] = "indexed"]
  /\ UNCHANGED <<callings, bound, requests, answers, open, life, asked, outcome, crashed>>

MutantRegistered(c) == callings

\* The registration: emplace leaves an entry with that index in place, and then
\* the promise moved into the pair is destroyed with it.
Registered(c) == IF index[c] \in DOMAIN callings THEN callings
                 ELSE [k \in DOMAIN callings \cup {index[c]} |-> IF k = index[c] THEN c ELSE callings[k]]
\* send_call, under the mutex: the request is written, then the promise
\* registered.  A socket that is closed still lets the stream be written.
SendCall(c) ==
  /\ pc[c] = "indexed"
  /\ requests' = IF open THEN Append(requests, [index |-> index[c], name |-> asked[c], by |-> c]) ELSE requests
  /\ callings' = Registered(c)
  /\ IF index[c] \in DOMAIN callings THEN Settle(c, "broken") ELSE UNCHANGED outcome
  /\ pc' = [pc EXCEPT ![c] = "wait"]
  /\ UNCHANGED <<callIndex, bound, answers, open, life, asked, index, born, crashed>>

\* The codec gave no bytes: nothing is registered and async_call sets the exception.
SendFails(c) ==
  /\ pc[c] = "indexed"
  /\ Settle(c, "failed")
  /\ pc' = [pc EXCEPT ![c] = "wait"]
  /\ UNCHANGED <<callIndex, callings, bound, requests, answers, open, life, asked, index, born, crashed>>

\* future.get() returns or throws what the promise holds.
Return(c) ==
  /\ pc[c] = "wait" /\ outcome[c] # "none"
  /\ pc' = [pc EXCEPT ![c] = "done"]
  /\ UNCHANGED <<callIndex, callings, bound, requests, answers, open, life, asked, index, born, outcome, crashed>>

\* call(): wait_for ran into the timeout; the entry in callings stays.
Timeout(c) ==
  /\ pc[c] = "wait" /\ outcome[c] = "none"
  /\ outcome' = [outcome EXCEPT ![c] = "timeout"]
  /\ pc' = [pc EXCEPT ![c] = "done"]
  /\ UNCHANGED <<callIndex, callings, bound, requests, answers, open, life, asked, index, born, crashed>>

-----------------------------------------------------------------------------
(* The peer                                                                *)

\* Dispatcher::bind (a name already there throws) and unbind.
Bind(n) == /\ n \notin bound /\ n # ""
           /\ bound' = bound \cup {n}
           /\ UNCHANGED <<callIndex, callings, requests, answers, open, life, outcome, crashed>> /\ UNCHANGED callerVars
Unbind(n) == /\ n \in bound /\ requests # <<>>
             /\ bound' = bound \ {n}
             /\ UNCHANGED <<callIndex, callings, requests, answers, open, life, outcome, crashed>> /\ UNCHANGED callerVars

\* Dispatcher::dispatch: an empty or unknown name is an error.
Dispatched(name) == name # "" /\ name \in bound

\* handle_rpc_request: dispatch, and answer with the index and the error or the
\* packed result.  A void function leaves no packer, which is dereferenced.
HandleRequest ==
  LET r == Head(requests)
  IN  /\ open /\ requests # <<>> /\ ~ crashed
      /\ requests' = Tail(requests)
      /\ IF Dispatched(r.name) /\ r.name \in Void
         THEN crashed' = TRUE /\ UNCHANGED answers
         ELSE /\ answers' = Append(answers, [index |-> r.index, error |-> ~ Dispatched(r.name), of |-> r.by])
              /\ UNCHANGED crashed
      /\ UNCHANGED <<callIndex, callings, bound, open, life, outcome>> /\ UNCHANGED callerVars

-----------------------------------------------------------------------------
(* This side's worker                                                      *)

\* handle_rpc_response.  Satisfying a promise twice throws future_error, and the
\* handler for it throws again, out of a noexcept function.
HandleResponse ==
  LET a == Head(answers)
      c == callings[a.index]
      how == IF a.error THEN "error" ELSE a.of
  IN  /\ open /\ answers # <<>> /\ ~ crashed
      /\ answers' = Tail(answers)
      /\ IF a.index \notin DOMAIN callings
         THEN open' = FALSE /\ UNCHANGED <<outcome, crashed>>   \* false: the connection is removed
         ELSE /\ Settle(c, how)
              /\ crashed' = (outcome[c] \notin {"none", "timeout"})
              /\ UNCHANGED open
      /\ UNCHANGED <<callIndex, callings, bound, requests, life>> /\ UNCHANGED callerVars

\* The manager removes the connection: the streams are cleared, callings are not.
Disconnect ==
  /\ open' = FALSE /\ open
  /\ requests' = <<>> /\ answers' = <<>>
  /\ UNCHANGED <<callIndex, callings, bound, life, outcome, crashed>> /\ UNCHANGED callerVars

\* new_conn hands the object out again; init() drops the calls, which breaks
\* their promises, and counts indices from zero.
Reuse ==
  /\ ~ open /\ life < MaxLives
  /\ open' = TRUE /\ life' = life + 1
  /\ requests' = <<>> /\ answers' = <<>>
  /\ outcome' = [c \in Callers |-> IF outcome[c] = "none" /\ \E k \in DOMAIN callings : callings[k] = c
                                   THEN "broken" ELSE outcome[c]]
  /\ callings' = <<>> /\ callIndex' = 0
  /\ UNCHANGED <<bound, crashed>> /\ UNCHANGED callerVars

CallerStep(c) == NewIndex(c) \/ SendCall(c) \/ SendFails(c) \/ Return(c) \/ Timeout(c)

Next ==
  \/ \E c \in Callers : CallerStep(c)
  \/ \E n \in Names : Bind(n) \/ Unbind(n)
  \/ HandleRequest \/ HandleResponse \/ Disconnect \/ Reuse

Spec == Init /\ [][Next]_vars

-----------------------------------------------------------------------------
TypeOK ==
  /\ DOMAIN callings \subseteq 1..Cardinality(Callers)
  /\ \A k \in DOMAIN callings : callings[k] \in Callers
  /\ pc \in [Callers -> {"start", "indexed", "wait", "done"}]
  /\ bound \subseteq Names /\ open \in BOOLEAN /\ crashed \in BOOLEAN

\* A caller wrote its request with an index it took before the object was reused.
StaleIndex == \E c \in Callers : pc[c] \in {"wait", "done"} /\ outcome[c] # "failed" /\ born[c] < life
                                   /\ \E d \in Callers : d # c /\ born[d] = life /\ index[d] = index[c]

\* While every request in flight carries an index of this use of the object, a
\* call gets the answer to its own request or a failure, an answer always finds
\* its call (otherwise the connection is dropped), and no promise is satisfied
\* twice.
AnswerMatchesCall ==
  StaleIndex \/
    /\ \A c \in Callers : outcome[c] \in {"none", c} \cup Fail
    /\ \A k \in 1..Len(answers) : /\ answers[k].index \in DOMAIN callings
                                  /\ callings[answers[k].index] = answers[k].of
    /\ \A c \in Callers : pc[c] = "wait" /\ outcome[c] = "none" => index[c] \in DOMAIN callings

\* Satisfying twice, and the null packer of a void function, never bring the
\* process down: does not hold.
NeverCrashes == ~ crashed
=============================================================================
