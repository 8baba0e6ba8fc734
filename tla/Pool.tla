-------------------------------- MODULE Pool --------------------------------
(***************************************************************************)
(* The lock-free memory pool (sys/memory/pool.h). A leaf is a buffer that  *)
(* is handed out from its end; `available' counts what is left and         *)
(* `deallocated' what came back, and when the two add up the leaf starts   *)
(* over. An allocation is preceded by a header that names its leaf.        *)
(*                                                                         *)
(* Each step of a thread is one atomic operation on a leaf's counters, or  *)
(* one write of a header. Sizes are in units and include the header.       *)
(***************************************************************************)
EXTENDS Integers, FiniteSets

CONSTANTS
  Threads,
  LeafCount, LeafSize,   \* kLeafCount, kLeafSizeBytes
  Average,               \* kAverageAllocation
  Sizes,                 \* sizes asked for, in units, header included
  DoOSMalloc,            \* kDoOSMalloc
  MaxMallocs             \* bound on allocations (TLC only)

Leaf == 0..(LeafCount - 1)
OS == LeafCount          \* the place of an allocation made by ::malloc
NoHead == <<"zeroed", 0>>

VARIABLES
  available, deallocated, \* per leaf
  curLeaf,                \* cur_leaf_
  head,                   \* AllocHeader at [leaf][offset]: <<"own", size>> or zeroed
  live,                   \* allocations handed out: [leaf, at, size, id]
  pc, leaf, start, size, offset, returned, loaded, \* per thread: where it is and its locals
  mallocs, refused        \* allocations so far; free() called a block someone else's

vars == <<available, deallocated, curLeaf, head, live, pc, leaf, start, size, offset,
          returned, loaded, mallocs, refused>>
locals == <<leaf, start, size, offset, returned, loaded>>

Init ==
  /\ available = [l \in Leaf |-> LeafSize] /\ deallocated = [l \in Leaf |-> 0]
  /\ curLeaf = 0 /\ head = [l \in Leaf |-> [o \in 0..(LeafSize - 1) |-> NoHead]] /\ live = {}
  /\ pc = [t \in Threads |-> "idle"] /\ leaf = [t \in Threads |-> 0]
  /\ start = [t \in Threads |-> 0] /\ size = [t \in Threads |-> 0]
  /\ offset = [t \in Threads |-> 0] /\ returned = [t \in Threads |-> 0]
  /\ loaded = [t \in Threads |-> 0]
  /\ mallocs = 0 /\ refused = FALSE

Goto(t, p) == pc' = [pc EXCEPT ![t] = p]

-----------------------------------------------------------------------------
(* malloc                                                                  *)

\* cur_leaf_ is where the search starts.
Malloc(t, n) ==
  /\ pc[t] = "idle" /\ mallocs < MaxMallocs /\ mallocs' = mallocs + 1
  /\ size' = [size EXCEPT ![t] = n]
  /\ start' = [start EXCEPT ![t] = curLeaf] /\ leaf' = [leaf EXCEPT ![t] = curLeaf]
  /\ Goto(t, "look")
  /\ UNCHANGED <<available, deallocated, curLeaf, head, live, offset, returned, loaded, refused>>

\* The next leaf, until the search is back at its start.
NextLeaf(t) == (leaf[t] + 1) % LeafCount
GiveUpOrNext(t) ==
  /\ leaf' = [leaf EXCEPT ![t] = NextLeaf(t)]
  /\ Goto(t, IF NextLeaf(t) = start[t] THEN "os" ELSE "look")

\* Load of available: an exhausted leaf ends the search, one that is too small
\* is passed over.
Look(t) ==
  /\ pc[t] = "look"
  /\ CASE available[leaf[t]] <= 0 -> Goto(t, "os") /\ UNCHANGED leaf
       [] available[leaf[t]] >= size[t] -> Goto(t, "reserve") /\ UNCHANGED leaf
       [] OTHER -> GiveUpOrNext(t)
  /\ UNCHANGED <<available, deallocated, curLeaf, head, live, start, size, offset, returned, loaded, mallocs, refused>>

\* fetch_sub: a result below zero means that another thread was faster; what
\* was subtracted stays subtracted.
MutantReserved(after) == TRUE
Reserved(after) == after >= 0

Reserve(t) ==
  LET after == available[leaf[t]] - size[t]
  IN  /\ pc[t] = "reserve"
      /\ available' = [available EXCEPT ![leaf[t]] = after]
      /\ IF Reserved(after)
         THEN /\ offset' = [offset EXCEPT ![t] = after]
              /\ Goto(t, IF after < Average THEN "advance" ELSE "header") /\ UNCHANGED leaf
         ELSE GiveUpOrNext(t) /\ UNCHANGED offset
      /\ UNCHANGED <<deallocated, curLeaf, head, live, start, size, returned, loaded, mallocs, refused>>

\* A leaf that is nearly used up: others start at the one after start_leaf.
Advance(t) ==
  /\ pc[t] = "advance" /\ curLeaf' = (start[t] + 1) % LeafCount /\ Goto(t, "header")
  /\ UNCHANGED <<available, deallocated, head, live, mallocs, refused>> /\ UNCHANGED locals

\* The header is filled in and the block handed to the caller.
WriteHeader(t) ==
  /\ pc[t] = "header"
  /\ head' = [head EXCEPT ![leaf[t]][offset[t]] = <<"own", size[t]>>]
  /\ live' = live \cup {[leaf |-> leaf[t], at |-> offset[t], size |-> size[t], id |-> mallocs]}
  /\ Goto(t, "idle")
  /\ UNCHANGED <<available, deallocated, curLeaf, mallocs, refused>> /\ UNCHANGED locals

\* No leaf has room: ::malloc, or an exception when that is disabled.
OSMalloc(t) ==
  /\ pc[t] = "os" /\ Goto(t, "idle")
  /\ live' = IF DoOSMalloc
             THEN live \cup {[leaf |-> OS, at |-> mallocs, size |-> size[t], id |-> mallocs]}
             ELSE live
  /\ UNCHANGED <<available, deallocated, curLeaf, head, mallocs, refused>> /\ UNCHANGED locals

-----------------------------------------------------------------------------
(* free                                                                    *)

\* The header decides: one of this pool's, one of ::malloc's (which is given
\* back at once), or, when neither tag fits, an exception.
Free(t, b) ==
  /\ pc[t] = "idle" /\ b \in live /\ live' = live \ {b}
  /\ IF b.leaf = OS
     THEN UNCHANGED <<pc, leaf, offset, size, refused>>
     ELSE IF head[b.leaf][b.at] = NoHead
     THEN refused' = TRUE /\ UNCHANGED <<pc, leaf, offset, size>>
     ELSE /\ leaf' = [leaf EXCEPT ![t] = b.leaf] /\ offset' = [offset EXCEPT ![t] = b.at]
          /\ size' = [size EXCEPT ![t] = head[b.leaf][b.at][2]]
          /\ Goto(t, "give") /\ UNCHANGED refused
  /\ UNCHANGED <<available, deallocated, curLeaf, head, start, returned, loaded, mallocs>>

\* fetch_add on deallocated.
GiveBack(t) ==
  /\ pc[t] = "give"
  /\ deallocated' = [deallocated EXCEPT ![leaf[t]] = @ + size[t]]
  /\ returned' = [returned EXCEPT ![t] = deallocated[leaf[t]] + size[t]]
  /\ Goto(t, "compare")
  /\ UNCHANGED <<available, curLeaf, head, live, leaf, start, size, offset, loaded, mallocs, refused>>

\* Load of available: has everything come back?
MutantAllBack(t) == returned[t] >= LeafSize - available[leaf[t]] - 1
AllBack(t) == returned[t] = LeafSize - available[leaf[t]]

Compare(t) ==
  /\ pc[t] = "compare"
  /\ loaded' = [loaded EXCEPT ![t] = available[leaf[t]]]
  /\ Goto(t, IF AllBack(t) THEN "swap" ELSE "zero")
  /\ UNCHANGED <<available, deallocated, curLeaf, head, live, mallocs, refused>>
  /\ UNCHANGED <<leaf, start, size, offset, returned>>

\* compare_exchange_strong: the leaf starts over if available is what was loaded.
Swap(t) ==
  /\ pc[t] = "swap"
  /\ IF available[leaf[t]] = loaded[t]
     THEN available' = [available EXCEPT ![leaf[t]] = LeafSize] /\ Goto(t, "reset")
     ELSE UNCHANGED available /\ Goto(t, "zero")
  /\ UNCHANGED <<deallocated, curLeaf, head, live, mallocs, refused>> /\ UNCHANGED locals

\* deallocated -= what had come back.
Reset(t) ==
  /\ pc[t] = "reset"
  /\ deallocated' = [deallocated EXCEPT ![leaf[t]] = @ - returned[t]] /\ Goto(t, "zero")
  /\ UNCHANGED <<available, curLeaf, head, live, mallocs, refused>> /\ UNCHANGED locals

\* memset of the header, so that its tag is gone.
ZeroHeader(t) ==
  /\ pc[t] = "zero"
  /\ head' = [head EXCEPT ![leaf[t]][offset[t]] = NoHead] /\ Goto(t, "idle")
  /\ UNCHANGED <<available, deallocated, curLeaf, live, mallocs, refused>> /\ UNCHANGED locals

Step(t) ==
  \/ Look(t) \/ Reserve(t) \/ Advance(t) \/ WriteHeader(t) \/ OSMalloc(t)
  \/ GiveBack(t) \/ Compare(t) \/ Swap(t) \/ Reset(t) \/ ZeroHeader(t)
  \/ \E n \in Sizes : Malloc(t, n)
  \/ \E b \in live : Free(t, b)

Next == \E t \in Threads : Step(t)
Spec == Init /\ [][Next]_vars

-----------------------------------------------------------------------------
(* Properties                                                              *)

Units(b) == b.at..(b.at + b.size - 1)

\* Blocks handed out lie inside their leaf.
InLeaf == \A b \in live : b.leaf # OS => Units(b) \subseteq 0..(LeafSize - 1)

\* Two blocks handed out and not yet freed never share memory.
NoOverlap ==
  \A b, c \in live : b # c /\ b.leaf = c.leaf /\ b.leaf # OS => Units(b) \cap Units(c) = {}

\* A block that malloc handed out is recognised by free.
FreeAccepts == ~ refused
=============================================================================
