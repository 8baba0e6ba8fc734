-------------------------------- MODULE Task --------------------------------
(***************************************************************************)
(* The move-only callable the executors queue (concurrency/task.h, task.cc)*)
(* and the two functors it knows by type: CoroutineHandleFunctor, which    *)
(* owns a coroutine, and AwaitViaFunctor (consumer_context.cc), which owes *)
(* a suspended coroutine one resumption.                                   *)
(*                                                                         *)
(* A Task is a vtable pointer and a buffer. The buffer holds the callable, *)
(* or a pointer to it when it is too large or may throw on a move; what    *)
(* matters of a callable is what it owns: a handle, a heap object, the     *)
(* captured state. Null stands for a moved-from one.                       *)
(***************************************************************************)
EXTENDS Naturals

CONSTANTS Tasks, Callables, Null,
          KindOf   \* [Callables -> {"coroutine", "via", "inline", "heap", "trivial"}]

VARIABLES
  vtable,   \* vtable_: the kind, or Null for an empty Task
  buffer,   \* buffer_: whose callable it is; garbage where vtable is Null
  made,     \* callables that were handed to a Task
  called,   \* how often the callable ran to its end
  ended,    \* how often what it owns was released: destroyed, deleted, resumed as interrupted
  leaked    \* callables that threw: their destructor is skipped

vars == <<vtable, buffer, made, called, ended, leaked>>

Init ==
  /\ vtable = [t \in Tasks |-> Null] /\ buffer = [t \in Tasks |-> Null]
  /\ made = {} /\ leaked = {}
  /\ called = [c \in Callables |-> 0] /\ ended = [c \in Callables |-> 0]

\* The functors' move constructors exchange their handle for an empty one, and
\* move_destroy_allocated the pointer; a trivially copyable callable is copied
\* with memcpy and its source forgotten. What the source is left owning:
MutantMovedFrom(c) == IF c # Null /\ KindOf[c] = "via" THEN c ELSE Null
MovedFrom(c) == Null

\* The destructor of a callable: nothing for a moved-from or a trivial one.
Release(counts, c) ==
  IF c = Null \/ (c \in Callables /\ KindOf[c] = "trivial") THEN counts
  ELSE [counts EXCEPT ![c] = @ + 1]

\* Task::build(T &&callable): constructed in the buffer or on the heap.
Build(t, c) ==
  /\ vtable[t] = Null /\ c \notin made
  /\ made' = made \cup {c}
  /\ vtable' = [vtable EXCEPT ![t] = KindOf[c]]
  /\ buffer' = [buffer EXCEPT ![t] = c]
  /\ UNCHANGED <<called, ended, leaked>>

\* Task::clear: the vtable is taken out first, then the callable destroyed.
Cleared(t) == IF vtable[t] = Null THEN ended ELSE Release(ended, buffer[t])

\* ~Task and clear.
Clear(t) ==
  /\ ended' = Cleared(t)
  /\ vtable' = [vtable EXCEPT ![t] = Null]
  /\ UNCHANGED <<buffer, made, called, leaked>>

\* operator=(Task &&): not for itself; clear, then Task::build(Task &&), which
\* takes the vtable, moves the callable over and destroys the moved-from one.
\* Move construction is the same into an empty Task.
Assign(t, u) ==
  /\ t # u
  /\ IF vtable[u] = Null
     THEN /\ vtable' = [vtable EXCEPT ![t] = Null] /\ ended' = Cleared(t)
          /\ UNCHANGED buffer
     ELSE /\ vtable' = [vtable EXCEPT ![t] = vtable[u], ![u] = Null]
          /\ buffer' = [buffer EXCEPT ![t] = buffer[u], ![u] = MovedFrom(buffer[u])]
          /\ ended' = Release(Cleared(t), MovedFrom(buffer[u]))
  /\ UNCHANGED <<made, called, leaked>>

\* operator(): the Task is empty before the call. CoroutineHandleFunctor gives
\* its handle away and AwaitViaFunctor forgets its flag before resuming, so
\* their destructor does nothing; others are destroyed after the call.
OwesNothing(c) == KindOf[c] \in {"coroutine", "via"}

Invoke(t) ==
  /\ vtable[t] # Null
  /\ LET c == buffer[t]
     IN  /\ vtable' = [vtable EXCEPT ![t] = Null]
         /\ called' = [called EXCEPT ![c] = @ + 1]
         /\ ended' = IF OwesNothing(c) THEN ended ELSE Release(ended, c)
  /\ UNCHANGED <<buffer, made, leaked>>

\* A callable that is not noexcept throws out of operator().
InvokeThrows(t) ==
  /\ vtable[t] \in {"inline", "heap"}
  /\ vtable' = [vtable EXCEPT ![t] = Null]
  /\ leaked' = leaked \cup {buffer[t]}
  /\ UNCHANGED <<buffer, made, called, ended>>

Next ==
  \E t \in Tasks :
    \/ \E c \in Callables : Build(t, c)
    \/ \E u \in Tasks : Assign(t, u)
    \/ Clear(t) \/ Invoke(t) \/ InvokeThrows(t)

Spec == Init /\ [][Next]_vars

-----------------------------------------------------------------------------
TypeOK ==
  /\ \A t \in Tasks : vtable[t] # Null => buffer[t] \in made /\ vtable[t] = KindOf[buffer[t]]
  /\ made \subseteq Callables

Holders(c) == {t \in Tasks : vtable[t] # Null /\ buffer[t] = c}

\* How often a callable has come to its end.
Fate(c) ==
  IF OwesNothing(c) THEN called[c] + ended[c]
  ELSE IF KindOf[c] = "trivial" THEN called[c]
  ELSE ended[c] + (IF c \in leaked THEN 1 ELSE 0)

\* However Tasks are moved, assigned, called and destroyed, a callable is in
\* exactly one Task until it is called, destroyed or throws, and never again:
\* a coroutine is resumed or destroyed once, an awaiter resumed exactly once.
CallableOnce ==
  \A c \in made :
    /\ called[c] <= 1
    /\ IF Holders(c) # {} THEN Fate(c) = 0 /\ \E t \in Tasks : Holders(c) = {t}
       ELSE Fate(c) = 1 \/ (KindOf[c] = "trivial" /\ Fate(c) = 0)

=============================================================================
