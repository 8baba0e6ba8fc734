-------------------------------- MODULE Fifo --------------------------------
(***************************************************************************)
(* What a bounded ring buffer promises its one producer and its one        *)
(* consumer: a first-in first-out queue of at most Capacity elements, each *)
(* of which the consumer gets once.                                        *)
(* Specified by the use the code of src/framework/core/include/plain/      *)
(* basic/ring.h is written for; RingSpsc implements it.                    *)
(***************************************************************************)
EXTENDS Naturals, Sequences

CONSTANTS Values, Capacity

VARIABLES
  q,    \* the queue
  out   \* what the consumer got, in order

Init == q = <<>> /\ out = <<>>

Put(x) == Len(q) < Capacity /\ q' = Append(q, x) /\ UNCHANGED out
Get == q # <<>> /\ q' = Tail(q) /\ out' = Append(out, Head(q))

Next == Get \/ \E x \in Values : Put(x)

Spec == Init /\ [][Next]_<<q, out>>
=============================================================================
