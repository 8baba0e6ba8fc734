-------------------------------- MODULE Ring --------------------------------
(***************************************************************************)
(* The ring buffer of include/plain/basic/ring.h, as operators on a record *)
(* [head, tail, size, cell].  head and tail count the elements ever        *)
(* written and read and are reduced modulo the size only when a cell is    *)
(* addressed (`index & mask_', the size being a power of two); they return *)
(* to zero whenever a bulk read or a removal empties the ring.             *)
(*                                                                         *)
(* A ring is dynamic (DynamicRing: resize enlarges the vector in place) or *)
(* fixed (FixedRing: the base class's resize refuses).                     *)
(***************************************************************************)
EXTENDS Integers, Sequences

\* The constructors: SIZE cells, value-initialised.
NewRing(n) == [head |-> 0, tail |-> 0, size |-> n, cell |-> [i \in 0..n-1 |-> 0]]

\* buffer_[index & mask_].
Slot(r, i) == i % r.size

ReadAvail(r) == r.head - r.tail
WriteAvail(r) == r.size - ReadAvail(r)

\* What a consumer would read, in order.
Contents(r) == [i \in 1..ReadAvail(r) |-> r.cell[Slot(r, r.tail + i - 1)]]

\* at(index): the element `index' places behind the tail, or nothing.
At(r, index) == IF ReadAvail(r) <= index THEN <<>> ELSE <<r.cell[Slot(r, r.tail + index)]>>

\* DynamicRing::resize.  The vector keeps its first cells where they are and
\* appends zeroes; size 0 empties it and restores the initial size.
Resize(r, n, base) ==
  LET to == IF n = 0 THEN base ELSE n
      kept(i) == n # 0 /\ i < r.size
  IN  [r EXCEPT !.size = to,
                !.cell = [i \in 0..to-1 |-> IF kept(i) THEN r.cell[i] ELSE 0]]

\* The doubling loop of write: the first size, doubled at least once, that
\* leaves room for `count' elements.  (99 doublings exceed any size_t.)
Doublings == 0..6
GrownSize(r, count) ==
  LET d == CHOOSE k \in Doublings :
             /\ r.size * 2^(k + 1) - ReadAvail(r) >= count
             /\ \A j \in Doublings : j < k => r.size * 2^(j + 1) - ReadAvail(r) < count
  IN  r.size * 2^(d + 1)

\* Storing s at the head.
Append1(r, s) ==
  [r EXCEPT !.head = @ + Len(s),
            !.cell = [i \in DOMAIN @ |->
              LET hits == {k \in 1..Len(s) : Slot(r, r.head + k - 1) = i}
              IN  IF hits = {} THEN @[i]
                  ELSE s[CHOOSE k \in hits : \A j \in hits : j <= k]]]

\* write(buffer, count, full): grow if there is no room and the ring can, then
\* store what fits, or nothing when all of it must be stored and does not fit.
Write(r, s, full, dynamic) ==
  LET g == IF WriteAvail(r) < Len(s) /\ dynamic
           THEN Resize(r, GrownSize(r, Len(s)), r.size) ELSE r
      n == IF WriteAvail(g) < Len(s) THEN WriteAvail(g) ELSE Len(s)
  IN  IF WriteAvail(g) < Len(s) /\ full
      THEN [ring |-> g, n |-> 0]
      ELSE [ring |-> Append1(g, SubSeq(s, 1, n)), n |-> n]

\* insert(data), through can_insert: a full dynamic ring doubles first.
Insert(r, x, dynamic) ==
  LET g == IF WriteAvail(r) = 0 /\ dynamic THEN Resize(r, 2 * r.size, r.size) ELSE r
  IN  IF WriteAvail(g) = 0 THEN [ring |-> g, ok |-> FALSE]
      ELSE [ring |-> Append1(g, <<x>>), ok |-> TRUE]

\* remove(count): dropping everything returns both indices to zero.
RemoveCount(r, count) ==
  IF count >= ReadAvail(r) THEN [r EXCEPT !.head = 0, !.tail = 0]
  ELSE [r EXCEPT !.tail = @ + count]

\* read(buffer, count) and, with read_only, the peek of the stream.
ReadOnly(r, count) == SubSeq(Contents(r), 1, IF count < ReadAvail(r) THEN count ELSE ReadAvail(r))

\* remove(data): one element.
RemoveOne(r) ==
  IF ReadAvail(r) = 0 THEN [ring |-> r, data |-> <<>>]
  ELSE [ring |-> [r EXCEPT !.tail = @ + 1], data |-> At(r, 0)]

\* consumer_clear (and producer_clear, which calls it).
ConsumerClear(r) == [r EXCEPT !.head = 0, !.tail = 0]

\* clear of a dynamic ring.
Clear(r, base) == ConsumerClear(Resize(r, 0, base))
=============================================================================
