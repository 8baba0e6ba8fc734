--------------------------- MODULE WepollHandles ----------------------------
(***************************************************************************)
(* How the bundled wepoll library (wepoll.c) keeps a port alive: the       *)
(* handle tree maps epoll handles to ports under an SRW lock, and every    *)
(* port carries a reflock, which callers reference and which epoll_close   *)
(* destroys.  A handle is the port's i/o completion port handle, so its    *)
(* value may be used again as soon as port_close has closed it.            *)
(*                                                                         *)
(* Each step is one critical section of the tree lock, one interlocked     *)
(* operation, or one system call.                                          *)
(***************************************************************************)
EXTENDS Integers, FiniteSets

CONSTANTS Threads, Handles, Ports, Null,
          MaxCreates      \* bound: ports created

VARIABLES
  tree,      \* epoll__handle_tree: handle -> port
  open,      \* iocp handles the process has open
  handleOf,  \* port -> its iocp handle
  refs,      \* port -> reference count of its reflock
  destroy,   \* port -> "no", "destroy" or "poison": the high bits of the reflock
  memory,    \* port -> "none", "live" or "freed"
  pc, cur,   \* where each thread is, and the port it works on
  creates, aborted

vars == <<tree, open, handleOf, refs, destroy, memory, pc, cur, creates, aborted>>

Init ==
  /\ tree = [h \in Handles |-> Null] /\ open = {}
  /\ handleOf = [p \in Ports |-> Null]
  /\ refs = [p \in Ports |-> 0] /\ destroy = [p \in Ports |-> "no"]
  /\ memory = [p \in Ports |-> "none"]
  /\ pc = [t \in Threads |-> "idle"] /\ cur = [t \in Threads |-> Null]
  /\ creates = 0 /\ aborted = FALSE

Goto(t, label) == pc' = [pc EXCEPT ![t] = label]

\* port_new: the memory, the iocp handle, a reflock of 0
PortNew(t) ==
  /\ pc[t] = "idle" /\ creates < MaxCreates /\ creates' = creates + 1
  /\ \E p \in {q \in Ports : memory[q] # "live"}, h \in Handles \ open :
       /\ memory' = [memory EXCEPT ![p] = "live"]
       /\ open' = open \cup {h} /\ handleOf' = [handleOf EXCEPT ![p] = h]
       /\ refs' = [refs EXCEPT ![p] = 0] /\ destroy' = [destroy EXCEPT ![p] = "no"]
       /\ cur' = [cur EXCEPT ![t] = p]
  /\ Goto(t, "add")
  /\ UNCHANGED <<tree, aborted>>

\* ts_tree_add; a handle that is there already deletes the port again (whose
\* iocp handle is still open, which port_delete asserts it is not)
TreeAdd(t) ==
  LET h == handleOf[cur[t]]
  IN  /\ pc[t] = "add" /\ Goto(t, "idle")
      /\ IF tree[h] = Null
           THEN tree' = [tree EXCEPT ![h] = cur[t]] /\ UNCHANGED aborted
           ELSE aborted' = TRUE /\ UNCHANGED tree
      /\ UNCHANGED <<open, handleOf, refs, destroy, memory, cur, creates>>

\* epoll_ctl, epoll_wait: ts_tree_find_and_ref; reflock_ref asserts that the
\* lock is not being destroyed
FindAndRef(t) ==
  /\ pc[t] = "idle" /\ Goto(t, "use")
  /\ \E h \in Handles :
       /\ tree[h] # Null
       /\ refs' = [refs EXCEPT ![tree[h]] = @ + 1]
       /\ cur' = [cur EXCEPT ![t] = tree[h]]
       /\ aborted' = (aborted \/ destroy[tree[h]] # "no")
  /\ UNCHANGED <<tree, open, handleOf, destroy, memory, creates>>

\* port_ctl or port_wait has returned: reflock_unref
Unref(t) ==
  LET p == cur[t]
  IN  /\ pc[t] = "use"
      /\ refs' = [refs EXCEPT ![p] = @ - 1]
      /\ aborted' = (aborted \/ destroy[p] = "poison" \/ refs[p] = 0)
      /\ Goto(t, IF refs[p] = 1 /\ destroy[p] = "destroy" THEN "signal" ELSE "idle")
      /\ UNCHANGED <<tree, open, handleOf, destroy, memory, cur, creates>>

MutantTaken(h) == tree

\* tree_del, in the critical section of the reference
Taken(h) == [tree EXCEPT ![h] = Null]

\* epoll_close: ts_tree_del_and_ref
DelAndRef(t) ==
  /\ pc[t] = "idle" /\ Goto(t, "close")
  /\ \E h \in Handles :
       /\ tree[h] # Null
       /\ tree' = Taken(h)
       /\ refs' = [refs EXCEPT ![tree[h]] = @ + 1]
       /\ cur' = [cur EXCEPT ![t] = tree[h]]
       /\ aborted' = (aborted \/ destroy[tree[h]] # "no")
  /\ UNCHANGED <<open, handleOf, destroy, memory, creates>>

\* port_close
PortClose(t) ==
  /\ pc[t] = "close" /\ Goto(t, "destroy")
  /\ open' = open \ {handleOf[cur[t]]}
  /\ UNCHANGED <<tree, handleOf, refs, destroy, memory, cur, creates, aborted>>

MutantMustAwait(p) == refs[p] > 2

\* other references are left once this one is given back
MustAwait(p) == refs[p] # 1

\* reflock_unref_and_destroy: one InterlockedAdd of DESTROY - REF
UnrefAndDestroy(t) ==
  LET p == cur[t]
  IN  /\ pc[t] = "destroy"
      /\ refs' = [refs EXCEPT ![p] = @ - 1]
      /\ destroy' = [destroy EXCEPT ![p] = "destroy"]
      /\ aborted' = (aborted \/ destroy[p] # "no")
      /\ Goto(t, IF MustAwait(p) THEN "await" ELSE "poison")
      /\ UNCHANGED <<tree, open, handleOf, memory, cur, creates>>

\* the keyed event: the releaser and the waiter of one address meet
SignalEvent(t, u) ==
  /\ pc[t] = "signal" /\ pc[u] = "await" /\ cur[t] = cur[u]
  /\ pc' = [pc EXCEPT ![t] = "idle", ![u] = "poison"]
  /\ UNCHANGED <<tree, open, handleOf, refs, destroy, memory, cur, creates, aborted>>

\* InterlockedExchange(POISON), which asserts that no reference is left
Poison(t) ==
  /\ pc[t] = "poison" /\ Goto(t, "delete")
  /\ destroy' = [destroy EXCEPT ![cur[t]] = "poison"]
  /\ aborted' = (aborted \/ refs[cur[t]] # 0 \/ destroy[cur[t]] # "destroy")
  /\ UNCHANGED <<tree, open, handleOf, refs, memory, cur, creates>>

\* port_delete
PortDelete(t) ==
  /\ pc[t] = "delete" /\ Goto(t, "idle")
  /\ memory' = [memory EXCEPT ![cur[t]] = "freed"]
  /\ UNCHANGED <<tree, open, handleOf, refs, destroy, cur, creates, aborted>>

Step(t) == \/ TreeAdd(t) \/ Unref(t) \/ PortClose(t) \/ UnrefAndDestroy(t)
           \/ (\E u \in Threads : SignalEvent(t, u) \/ SignalEvent(u, t))
           \/ Poison(t) \/ PortDelete(t)

Next == \E t \in Threads : PortNew(t) \/ FindAndRef(t) \/ DelAndRef(t) \/ Step(t)

\* A thread inside a call runs on; port_wait returns once the iocp handle is
\* closed (GetQueuedCompletionStatusEx fails), so a caller gives its reference
\* back.
Spec == Init /\ [][Next]_vars /\ \A t \in Threads : WF_vars(Step(t))

-----------------------------------------------------------------------------
\* No caller works on a port that was freed, and none is in the tree.
PortAlive ==
  /\ \A t \in Threads : pc[t] # "idle" /\ pc[t] # "signal" => memory[cur[t]] = "live"
  /\ \A h \in Handles : tree[h] # Null => memory[tree[h]] = "live"

\* No assertion on a reflock or on the tree fails: a lock is not referenced once
\* it is being destroyed, it is destroyed once with no reference left, and a
\* handle value that Windows hands out again is not in the tree any more
\* ("This should never happen." in epoll__create).
ReflockSound == ~aborted

\* epoll_close returns, and the thread that signals it does not hang.
CloseReturns ==
  \A t \in Threads : pc[t] \in {"destroy", "signal"} ~> pc[t] = "idle"
=============================================================================
