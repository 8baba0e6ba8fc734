------------------------------ MODULE RingSpsc ------------------------------
(***************************************************************************)
(* insert(data) and remove(data) of a FixedRing (basic/ring.h), called by  *)
(* one producer and one consumer thread without a lock, one action per     *)
(* access to a shared word.  head_ is published with release ordering      *)
(* after the cell is written and read with acquire ordering before it is   *)
(* read (tail_ the same way round), so the interleaving of these accesses  *)
(* is all a thread can observe.                                            *)
(***************************************************************************)
EXTENDS Integers, Sequences

CONSTANTS
  Values,     \* what is inserted
  Capacity,   \* SIZE, a power of two
  MaxInserts  \* bound on the number of insertions (TLC only)

(* A FixedRing requires power_of_two<SIZE>, so its size is positive.         *)
ASSUME RingAssumption == Capacity \in Nat \ {0} /\ MaxInserts \in Nat

VARIABLES
  head, tail,   \* head_ and tail_
  cell,         \* buffer_
  ppc,          \* the producer: "idle", "store" (room found), "publish"
  pv, ph,       \* its element, its copy tmp_head
  cpc,          \* the consumer: "idle", "load" (an element seen), "publish"
  ct, out       \* its copy tmp_tail; what *data received, in order

vars == <<head, tail, cell, ppc, pv, ph, cpc, ct, out>>

Init ==
  /\ head = 0 /\ tail = 0
  /\ cell \in [0..Capacity-1 -> {0}]
  /\ ppc = "idle" /\ pv = 0 /\ ph = 0
  /\ cpc = "idle" /\ ct = 0 /\ out = <<>>

Consumer == <<tail, cpc, ct, out>>
Producer == <<head, cell, ppc, pv, ph>>

MutantFull(h, t) == h - t > Capacity

Full(h, t) == h - t = Capacity

\* insert: load head_, let can_insert load tail_ and refuse when full.
InsertCheck(x) ==
  /\ ppc = "idle" /\ head < MaxInserts
  /\ ~ Full(head, tail)
  /\ ppc' = "store" /\ pv' = x /\ ph' = head
  /\ UNCHANGED <<head, cell>> /\ UNCHANGED Consumer

\* buffer_[tmp_head++ & mask_] = data.
InsertStore ==
  /\ ppc = "store"
  /\ cell' = [cell EXCEPT ![ph % Capacity] = pv]
  /\ ph' = ph + 1 /\ ppc' = "publish"
  /\ UNCHANGED <<head, pv>> /\ UNCHANGED Consumer

\* head_.store(tmp_head, release).
InsertPublish ==
  /\ ppc = "publish"
  /\ head' = ph /\ ppc' = "idle"
  /\ UNCHANGED <<cell, pv, ph>> /\ UNCHANGED Consumer

\* remove: load tail_, then head_, and refuse when they are equal.
RemoveCheck ==
  /\ cpc = "idle" /\ tail # head
  /\ cpc' = "load" /\ ct' = tail
  /\ UNCHANGED <<tail, out>> /\ UNCHANGED Producer

\* *data = buffer_[tmp_tail++ & mask_].
RemoveLoad ==
  /\ cpc = "load"
  /\ out' = Append(out, cell[ct % Capacity])
  /\ ct' = ct + 1 /\ cpc' = "publish"
  /\ UNCHANGED tail /\ UNCHANGED Producer

\* tail_.store(tmp_tail, release).
RemovePublish ==
  /\ cpc = "publish"
  /\ tail' = ct /\ cpc' = "idle"
  /\ UNCHANGED <<ct, out>> /\ UNCHANGED Producer

Produce == InsertStore \/ InsertPublish \/ \E x \in Values : InsertCheck(x)
Consume == RemoveCheck \/ RemoveLoad \/ RemovePublish

Next == Produce \/ Consume

Spec == Init /\ [][Next]_vars

TypeOK ==
  /\ head \in 0..MaxInserts /\ tail \in 0..MaxInserts
  /\ cell \in [0..Capacity-1 -> Values \cup {0}]
  /\ ppc \in {"idle", "store", "publish"} /\ cpc \in {"idle", "load", "publish"}
  /\ ph \in 0..MaxInserts /\ ct \in 0..MaxInserts

-----------------------------------------------------------------------------
(* The queue a ring stands for: the published elements the consumer has    *)
(* not yet copied out.                                                     *)

Queue == LET first == IF cpc = "publish" THEN ct ELSE tail
         IN  [i \in 1..(head - first) |-> cell[(first + i - 1) % Capacity]]

F == INSTANCE Fifo WITH q <- Queue

\* insert and remove of a FixedRing, interleaved access by access, implement a
\* bounded FIFO queue: what the consumer gets is what was inserted, with nothing
\* lost, duplicated, reordered or overwritten before it is read, however the two
\* threads are scheduled.
ImplementsFifo == F!Spec
=============================================================================
