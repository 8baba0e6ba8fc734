----------------------- MODULE ConnectionWorkInvariant -----------------------
(***************************************************************************)
(* The inductive invariant of ConnectionWork, and that the steps of the    *)
(* executor threads keep it; ConnectionWorkProofs has the other steps and  *)
(* the theorems.                                                           *)
(*                                                                         *)
(* That a flagged connection is covered is not inductive: it does not say  *)
(* that who holds the connection will look at its flags again.  Covered    *)
(* does: the connection is in the queue or the deque, an actor is about to *)
(* enqueue it, or a thread is at work on it and before its last look.      *)
(***************************************************************************)
EXTENDS ConnectionWork, FiniteSetTheorems, TLAPS

(* Where a thread is in Manager::Impl::work, and those of its places that    *)
(* working_conn_count counts.                                                *)
CallPc == {"idle", "exchange", "enqueue"}
CountedPc ==
  {"input", "inCheck", "inClear", "output", "outCheck", "outClear", "command",
   "decode", "cmdNext", "cmdCheck", "cmdClear", "decrease", "drop", "exchange",
   "enqueue"}
EndPc == {"remove", "idleCheck", "again", "popNext"}

Counted == {t \in Thread : pc[t] \in CountedPc}

(* A thread here has still to look at the flags of its connection, or is     *)
(* going to enqueue or to remove it.                                         *)
LooksAgain == (CountedPc \cup EndPc) \ {"drop", "popNext"}

PcInv ==
  /\ pc \in [Actor -> CallPc \cup CountedPc \cup EndPc]
  /\ \A a \in Actor \ Thread : pc[a] \in CallPc
  /\ \A t \in Thread : pc[t] = "decode" => handled[t] < OnceHandle

CountInv ==
  /\ count = Len(queue) + Cardinality(Counted)
  /\ MaxWorking > 0 => count <= MaxWorking

Covered(c) ==
  \/ c \in Range(queue) \cup Range(deque)
  \/ \E a \in Actor : on[a] = c /\ pc[a] = "enqueue"
  \/ \E t \in Thread : on[t] = c /\ pc[t] \in LooksAgain

CoverInv ==
  running =>
    /\ \A c \in Conn : valid[c] /\ flags[c] # {} => Covered(c)
    /\ deque # <<>> => queue # <<>> \/ WillEnqueue # {}

WorkInv == TypeOK /\ PcInv /\ CountInv /\ CoverInv

(* With one thread, a whole packet has its Command flag at every moment.     *)
CommandInv ==
  /\ \A c \in Conn : valid[c] /\ istream[c] >= PacketSize => "Command" \in flags[c]
  /\ \A t \in Thread :
       pc[t] = "cmdClear" /\ valid[on[t]] => istream[on[t]] < PacketSize

-----------------------------------------------------------------------------
(* Sequences.                                                                *)

(* What push_back adds to a queue.                                           *)
LEMMA AppendRange ==
  ASSUME NEW S, NEW s \in Seq(S), NEW x \in S
  PROVE  /\ Append(s, x) \in Seq(S) /\ Append(s, x) # <<>>
         /\ Len(Append(s, x)) = Len(s) + 1
         /\ Range(Append(s, x)) = Range(s) \cup {x}
         /\ IsInjective(s) /\ x \notin Range(s) => IsInjective(Append(s, x))
<1> DEFINE t == Append(s, x)
<1>1. /\ t \in Seq(S) /\ t # <<>> /\ Len(t) = Len(s) + 1 /\ Len(s) \in Nat
      /\ DOMAIN s = 1..Len(s) /\ DOMAIN t = 1..(Len(s) + 1)
      /\ \A k \in 1..Len(s) : t[k] = s[k]
      /\ t[Len(s) + 1] = x
  OBVIOUS
<1> HIDE DEF t
<1>2. \A k \in 1..(Len(s) + 1) : k \in 1..Len(s) \/ k = Len(s) + 1
  BY <1>1
<1>3. Range(t) = Range(s) \cup {x}
  <2>1. ASSUME NEW y \in Range(t) PROVE y \in Range(s) \cup {x}
    BY <1>1, <1>2 DEF Range
  <2>2. ASSUME NEW y \in Range(s) PROVE y \in Range(t)
    BY <1>1 DEF Range
  <2>3. x \in Range(t)
    <3>1. Len(s) + 1 \in DOMAIN t
      BY <1>1
    <3> QED
      BY <1>1, <3>1 DEF Range
  <2> QED
    BY <2>1, <2>2, <2>3
<1>4. ASSUME IsInjective(s), x \notin Range(s) PROVE IsInjective(t)
  <2> SUFFICES ASSUME NEW a \in 1..(Len(s) + 1), NEW b \in 1..(Len(s) + 1), t[a] = t[b]
               PROVE  a = b
    BY <1>1 DEF IsInjective
  <2>1. \A k \in 1..Len(s) : s[k] # x
    BY <1>1, <1>4 DEF Range
  <2> QED
    BY <1>1, <1>2, <1>4, <2>1 DEF IsInjective
<1> QED
  BY <1>1, <1>3, <1>4 DEF t

(* What pop_front takes from a queue.                                        *)
LEMMA TailRange ==
  ASSUME NEW S, NEW s \in Seq(S), s # <<>>
  PROVE  /\ Head(s) \in S /\ Tail(s) \in Seq(S)
         /\ Len(s) \in Nat \ {0} /\ Len(Tail(s)) = Len(s) - 1
         /\ Range(s) = Range(Tail(s)) \cup {Head(s)}
         /\ IsInjective(s) =>
              IsInjective(Tail(s)) /\ Range(Tail(s)) = Range(s) \ {Head(s)}
<1>1. /\ Len(s) \in Nat \ {0} /\ DOMAIN s = 1..Len(s) /\ Head(s) = s[1]
      /\ Head(s) \in S /\ Tail(s) \in Seq(S) /\ Len(Tail(s)) = Len(s) - 1
      /\ DOMAIN Tail(s) = 1..(Len(s) - 1)
      /\ \A k \in 1..(Len(s) - 1) : Tail(s)[k] = s[k + 1]
  OBVIOUS
<1>2. ASSUME NEW y \in Range(s) PROVE y \in Range(Tail(s)) \cup {Head(s)}
  <2>1. PICK k \in 1..Len(s) : y = s[k]
    BY <1>1 DEF Range
  <2>2. CASE k = 1
    BY <1>1, <2>1, <2>2
  <2>3. CASE k # 1
    <3>1. k - 1 \in 1..(Len(s) - 1) /\ (k - 1) + 1 = k
      BY <1>1, <2>1, <2>3
    <3>2. Tail(s)[k - 1] = s[k]
      BY <1>1, <3>1
    <3> QED
      BY <1>1, <2>1, <3>1, <3>2, Zenon DEF Range
  <2> QED
    BY <2>2, <2>3
<1>3. ASSUME NEW y \in Range(Tail(s))
      PROVE  \E k \in 2..Len(s) : y = s[k]
  <2>1. PICK k \in 1..(Len(s) - 1) : y = Tail(s)[k]
    BY <1>1 DEF Range
  <2>2. k + 1 \in 2..Len(s) /\ y = s[k + 1]
    BY <1>1, <2>1
  <2> QED
    BY <2>2
<1>4. Range(s) = Range(Tail(s)) \cup {Head(s)}
  <2>1. 1 \in 1..Len(s) /\ 2..Len(s) \subseteq 1..Len(s)
    BY <1>1
  <2> QED
    BY <1>1, <1>2, <1>3, <2>1 DEF Range
<1>5. ASSUME IsInjective(s)
      PROVE  IsInjective(Tail(s)) /\ Range(Tail(s)) = Range(s) \ {Head(s)}
  <2>1. \A a, b \in 1..Len(s) : s[a] = s[b] => a = b
    BY <1>1, <1>5 DEF IsInjective
  <2>2. IsInjective(Tail(s))
    BY <1>1, <2>1 DEF IsInjective
  <2>3. Head(s) \notin Range(Tail(s))
    BY <1>1, <1>3, <2>1
  <2> QED
    BY <1>4, <2>2, <2>3
<1> QED
  BY <1>1, <1>4, <1>5
-----------------------------------------------------------------------------
(* Manager::enqueue: what it takes, it keeps; it counts what it posts; and   *)
(* it leaves something in the deque only while a task is out.                *)

(* Manager::enqueue: a connection given to it, and whatever was queued or    *)
(* waiting, is queued or waiting afterwards; the count follows the queue up  *)
(* to its limit; and what is left waiting has a task before it.              *)
LEMMA EnqueueEffect ==
  ASSUME WorkInv, NEW c \in Conn \cup {NoConn}, Enqueue(c)
  PROVE  /\ queue' \in Seq(Conn) /\ deque' \in Seq(Conn) /\ IsInjective(deque')
         /\ waitIds' = Range(deque')
         /\ \/ UNCHANGED <<count, queue>>
            \/ count' = count + 1 /\ Len(queue') = Len(queue) + 1 /\ queue' # <<>>
         /\ MaxWorking > 0 => count' <= MaxWorking
         /\ Range(queue) \cup Range(deque) \subseteq Range(queue') \cup Range(deque')
         /\ running /\ c \in Conn => c \in Range(queue') \cup Range(deque')
         /\ running /\ deque' # <<>> => queue' # <<>> \/ count > 0
<1>1. /\ queue \in Seq(Conn) /\ deque \in Seq(Conn) /\ IsInjective(deque)
      /\ waitIds = Range(deque) /\ count \in Nat /\ MaxWorking \in Nat
      /\ MaxWorking > 0 => count <= MaxWorking
      /\ NoConn \notin Conn
  BY WorkAssumption DEF WorkInv, TypeOK, CountInv
<1>2. CASE running /\ HasRoom /\ c # NoConn
  <2>1. /\ queue' = Append(queue, c) /\ count' = count + 1 /\ c \in Conn
        /\ UNCHANGED <<deque, waitIds>>
    BY <1>2 DEF Enqueue, Post
  <2>2. MaxWorking > 0 => count' <= MaxWorking
    BY <1>1, <1>2, <2>1 DEF HasRoom
  <2>3. /\ queue' \in Seq(Conn) /\ queue' # <<>> /\ Len(queue') = Len(queue) + 1
        /\ Range(queue') = Range(queue) \cup {c}
    BY <1>1, <2>1, AppendRange
  <2> QED
    BY <1>1, <2>1, <2>2, <2>3
<1>3. CASE running /\ HasRoom /\ c = NoConn /\ HasWaiting
  <2>1. /\ queue' = Append(queue, Head(deque)) /\ count' = count + 1
        /\ deque' = Tail(deque) /\ waitIds' = waitIds \ {Head(deque)}
        /\ deque # <<>>
    BY <1>3 DEF Enqueue, Post, PopWorkId, HasWaiting
  <2>2. MaxWorking > 0 => count' <= MaxWorking
    BY <1>1, <1>3, <2>1 DEF HasRoom
  <2>3. /\ Head(deque) \in Conn /\ deque' \in Seq(Conn) /\ IsInjective(deque')
        /\ Range(deque') = Range(deque) \ {Head(deque)}
    BY <1>1, <2>1, TailRange
  <2>4. /\ queue' \in Seq(Conn) /\ queue' # <<>> /\ Len(queue') = Len(queue) + 1
        /\ Range(queue') = Range(queue) \cup {Head(deque)}
    BY <1>1, <2>1, <2>3, AppendRange
  <2> QED
    BY <1>1, <1>3, <2>1, <2>2, <2>3, <2>4
<1>4. CASE running /\ HasRoom /\ c = NoConn /\ ~HasWaiting
  <2>1. UNCHANGED <<queue, deque, waitIds, count>> /\ deque = <<>>
    BY <1>4 DEF Enqueue, balVars, HasWaiting
  <2> QED
    BY <1>1, <1>4, <2>1
<1>5. CASE running /\ ~HasRoom /\ c # NoConn
  <2>1. /\ UNCHANGED <<queue, count>> /\ c \in Conn
        /\ IF c \in waitIds THEN UNCHANGED <<deque, waitIds>>
           ELSE deque' = Append(deque, c) /\ waitIds' = waitIds \cup {c}
    BY <1>5 DEF Enqueue, PushWorkId
  <2>2. count > 0
    BY <1>1, <1>5 DEF HasRoom
  <2>3. CASE c \in waitIds
    BY <1>1, <2>1, <2>2, <2>3
  <2>4. CASE c \notin waitIds
    <3>1. /\ deque' = Append(deque, c) /\ waitIds' = waitIds \cup {c}
          /\ c \notin Range(deque)
      BY <1>1, <2>1, <2>4
    <3>2. /\ deque' \in Seq(Conn) /\ IsInjective(deque')
          /\ Range(deque') = Range(deque) \cup {c}
      BY <1>1, <2>1, <3>1, AppendRange
    <3> QED
      BY <1>1, <2>1, <2>2, <3>1, <3>2
  <2> QED
    BY <2>3, <2>4
<1>6. CASE ~running \/ (~HasRoom /\ c = NoConn)
  <2>1. UNCHANGED <<queue, deque, waitIds, count>>
    BY <1>6 DEF Enqueue, balVars
  <2>2. running => count > 0 /\ c \notin Conn
    BY <1>1, <1>6 DEF HasRoom
  <2> QED
    BY <1>1, <2>1, <2>2
<1> QED
  BY <1>2, <1>3, <1>4, <1>5, <1>6

-----------------------------------------------------------------------------
(* What the proofs use of the invariant's types.                             *)
DataOK ==
  /\ flags \in [Conn -> SUBSET Flag]
  /\ avail \in [Conn -> Nat] /\ istream \in [Conn -> Nat] /\ ostream \in [Conn -> Nat]
  /\ failed \in [Thread -> BOOLEAN] /\ handled \in [Thread -> 0..OnceHandle]

DecodeOK == \A t \in Thread : pc[t] = "decode" => handled[t] < OnceHandle

(* The types that WorkInv gives the variables of the steps.                  *)
LEMMA Facts ==
  ASSUME WorkInv
  PROVE  /\ DataOK /\ DecodeOK
         /\ valid \in [Conn -> BOOLEAN] /\ closed \in [Conn -> BOOLEAN]
         /\ edge \in [Conn -> BOOLEAN]
         /\ pc \in [Actor -> CallPc \cup CountedPc \cup EndPc]
         /\ on \in [Actor -> Conn \cup {NoConn}]
         /\ \A a \in Actor : pc[a] # "idle" => on[a] \in Conn
         /\ Thread \subseteq Actor /\ NoConn \notin Conn
BY WorkAssumption DEF WorkInv, TypeOK, PcInv, DataOK, DecodeOK, Actor

-----------------------------------------------------------------------------
(* The steps of conn->work() on thread t keep t at work on its connection,   *)
(* and change no other connection's flags.                                   *)

WorkStep(t) ==
  \/ ProcessInput(t) \/ CheckInput(t) \/ ClearInput(t) \/ ProcessOutput(t)
  \/ CheckOutput(t) \/ ClearOutput(t) \/ ProcessCommand(t) \/ NeedRecv(t)
  \/ BadPacket(t) \/ HandlePacket(t) \/ NextPacket(t) \/ CheckCommand(t)
  \/ ClearCommand(t)

AtWork == CountedPc \ {"drop", "enqueue"}

StaysAtWork(t) ==
  /\ pc[t] \in AtWork
  /\ \E l \in AtWork : pc' = [pc EXCEPT ![t] = l]
  /\ \A c \in Conn \ {on[t]} : flags'[c] = flags[c]
  /\ UNCHANGED <<balVars, on, running, valid, closed, edge, accepts>>

(* A step of Basic::work, as far as the count and the coverage go: the       *)
(* thread stays at work and clears no flag it will not look at again.        *)
LEMMA WorkStepEffect ==
  ASSUME WorkInv, NEW t \in Thread, WorkStep(t)
  PROVE  StaysAtWork(t)
<1>1. flags \in [Conn -> SUBSET Flag]
  BY DEF WorkInv, TypeOK
<1> USE DEF StaysAtWork, AtWork, CountedPc, Goto, netVars, connVars
<1>2. CASE ProcessInput(t)
  BY <1>1, <1>2, Zenon DEF ProcessInput
<1>3. CASE CheckInput(t)
  BY <1>3, Zenon DEF CheckInput
<1>4. CASE ClearInput(t)
  BY <1>1, <1>4, Zenon DEF ClearInput, Cleared
<1>5. CASE ProcessOutput(t)
  BY <1>5, Zenon DEF ProcessOutput
<1>6. CASE CheckOutput(t)
  BY <1>6, Zenon DEF CheckOutput
<1>7. CASE ClearOutput(t)
  BY <1>1, <1>7, Zenon DEF ClearOutput, Cleared
<1>8. CASE ProcessCommand(t)
  BY <1>8, Zenon DEF ProcessCommand
<1>9. CASE NeedRecv(t)
  BY <1>9, Zenon DEF NeedRecv
<1>10. CASE BadPacket(t)
  BY <1>10, Zenon DEF BadPacket
<1>11. CASE HandlePacket(t)
  BY <1>11 DEF HandlePacket
<1>12. CASE NextPacket(t)
  BY <1>12, Zenon DEF NextPacket
<1>13. CASE CheckCommand(t)
  BY <1>13, Zenon DEF CheckCommand
<1>14. CASE ClearCommand(t)
  BY <1>1, <1>14, Zenon DEF ClearCommand, Cleared
<1> HIDE DEF StaysAtWork, AtWork, CountedPc, Goto, netVars, connVars
<1> QED
  BY <1>2, <1>3, <1>4, <1>5, <1>6, <1>7, <1>8, <1>9, <1>10, <1>11,
     <1>12, <1>13, <1>14
  DEF WorkStep

(* They keep the types of what they change.                                  *)
LEMMA WorkStepTypes ==
  ASSUME WorkInv, NEW t \in Thread, WorkStep(t)
  PROVE  DataOK' /\ DecodeOK'
<1>1. /\ DataOK /\ DecodeOK /\ t \in Actor /\ on[t] \in Conn
      /\ pc \in [Actor -> CallPc \cup CountedPc \cup EndPc]
      /\ OnceHandle \in Nat \ {0} /\ PacketSize \in Nat \ {0}
  <2>1. pc[t] # "idle"
    BY WorkStepEffect DEF StaysAtWork, AtWork, CountedPc
  <2> QED
    BY <2>1, Facts, WorkAssumption
<1> USE DEF DataOK, DecodeOK, Flag, Goto, Fail, netVars, connVars, ranVars
<1>2. CASE ProcessInput(t)
  <2>1. DecodeOK'
    <3>1. /\ \E l \in {"output", "inCheck"} : pc' = [pc EXCEPT ![t] = l]
          /\ UNCHANGED handled
      BY <1>2, Zenon DEF ProcessInput
    <3> QED
      BY <1>1, <3>1
  <2>2. failed' \in [Thread -> BOOLEAN] /\ UNCHANGED <<handled, ostream>>
    <3>1. /\ \/ UNCHANGED failed \/ failed' = [failed EXCEPT ![t] = TRUE]
          /\ UNCHANGED <<handled, ostream>>
      BY <1>2, Zenon DEF ProcessInput
    <3> QED
      BY <1>1, <3>1, Zenon
  <2>3. CASE UNCHANGED <<avail, flags, istream>>
    BY <1>1, <2>1, <2>2, <2>3
  <2>4. ASSUME NEW n \in (IF avail[on[t]] = 0 THEN 0 ELSE 1)..avail[on[t]],
               avail' = [avail EXCEPT ![on[t]] = @ - n],
               istream' = [istream EXCEPT ![on[t]] = @ + n],
               flags' = [flags EXCEPT ![on[t]] = WithCommand(on[t])]
        PROVE  DataOK' /\ DecodeOK'
    <3>1. avail[on[t]] \in Nat
      BY <1>1
    <3>2. n \in Nat /\ n <= avail[on[t]]
      BY <3>1
    <3>3. WithCommand(on[t]) \in SUBSET Flag
      BY <1>1 DEF WithCommand
    <3>4. avail' \in [Conn -> Nat] /\ istream' \in [Conn -> Nat]
      BY <1>1, <2>4, <3>1, <3>2
    <3>5. flags' \in [Conn -> SUBSET Flag]
      BY <1>1, <2>4, <3>3
    <3> QED
      BY <1>1, <2>1, <2>2, <3>4, <3>5
  <2> QED
    BY <1>2, <2>3, <2>4, Zenon DEF ProcessInput
<1>3. CASE CheckInput(t)
  BY <1>1, <1>3 DEF CheckInput
<1>4. CASE ClearInput(t)
  BY <1>1, <1>4 DEF ClearInput, Cleared
<1>5. CASE ProcessOutput(t)
  <2>1. /\ \E l \in {"command", "decrease", "outCheck"} : pc' = [pc EXCEPT ![t] = l]
        /\ \/ UNCHANGED failed \/ failed' = [failed EXCEPT ![t] = TRUE]
        /\ \/ UNCHANGED ostream
           \/ \E n \in 0..ostream[on[t]] : ostream' = [ostream EXCEPT ![on[t]] = n]
        /\ UNCHANGED <<handled, flags, avail, istream>>
    BY <1>5, Zenon DEF ProcessOutput
  <2>2. DecodeOK'
    BY <1>1, <2>1
  <2>3. ostream' \in [Conn -> Nat]
    BY <1>1, <2>1
  <2>4. failed' \in [Thread -> BOOLEAN]
    BY <1>1, <2>1, Zenon
  <2> QED
    BY <1>1, <2>1, <2>2, <2>3, <2>4
<1>6. CASE CheckOutput(t)
  BY <1>1, <1>6 DEF CheckOutput
<1>7. CASE ClearOutput(t)
  BY <1>1, <1>7 DEF ClearOutput, Cleared
<1>8. CASE ProcessCommand(t)
  BY <1>1, <1>8 DEF ProcessCommand
<1>9. CASE NeedRecv(t)
  BY <1>1, <1>9 DEF NeedRecv
<1>10. CASE BadPacket(t)
  BY <1>1, <1>10 DEF BadPacket
<1>11. CASE HandlePacket(t)
  <2>1. /\ pc[t] = "decode" /\ istream[on[t]] >= PacketSize
        /\ \E l \in {"cmdNext", "exchange"} : pc' = [pc EXCEPT ![t] = l]
        /\ \/ UNCHANGED ostream
           \/ ostream' = [ostream EXCEPT ![on[t]] = @ + 1]
        /\ istream' = [istream EXCEPT ![on[t]] = @ - PacketSize]
        /\ handled' = [handled EXCEPT ![t] = @ + 1]
        /\ UNCHANGED <<failed, flags, avail>>
    BY <1>11, Zenon DEF HandlePacket
  <2>2. DecodeOK'
    BY <1>1, <2>1
  <2>3. istream' \in [Conn -> Nat] /\ ostream' \in [Conn -> Nat]
    BY <1>1, <2>1
  <2>4. handled' \in [Thread -> 0..OnceHandle]
    BY <1>1, <2>1
  <2> QED
    BY <1>1, <2>1, <2>2, <2>3, <2>4
<1>12. CASE NextPacket(t)
  BY <1>1, <1>12 DEF NextPacket
<1>13. CASE CheckCommand(t)
  BY <1>1, <1>13 DEF CheckCommand
<1>14. CASE ClearCommand(t)
  BY <1>1, <1>14 DEF ClearCommand, Cleared
<1> HIDE DEF DataOK, DecodeOK, Flag, Goto, Fail, netVars, connVars, ranVars
<1> QED
  BY <1>2, <1>3, <1>4, <1>5, <1>6, <1>7, <1>8, <1>9, <1>10, <1>11,
     <1>12, <1>13, <1>14
  DEF WorkStep
-----------------------------------------------------------------------------
(* The inductive invariant, one lemma per kind of step.                      *)

(* How the number of counted threads changes with one thread.                *)
LEMMA CountedMoves ==
  ASSUME NEW t \in Thread
  PROVE  /\ Cardinality(Counted) \in Nat
         /\ Counted # {} <=> Cardinality(Counted) > 0
         /\ t \in Counted =>
              /\ Cardinality(Counted) > 0
              /\ Cardinality(Counted \ {t}) = Cardinality(Counted) - 1
         /\ t \notin Counted => Cardinality(Counted \cup {t}) = Cardinality(Counted) + 1
<1>1. IsFiniteSet(Counted)
  <2>1. Counted \subseteq Thread
    BY DEF Counted
  <2> QED
    BY <2>1, WorkAssumption, FS_Subset
<1>2. Cardinality(Counted) \in Nat /\ (Cardinality(Counted) = 0 <=> Counted = {})
  BY <1>1, FS_CardinalityType, FS_EmptySet
<1>3. t \in Counted => Cardinality(Counted \ {t}) = Cardinality(Counted) - 1
  BY <1>1, FS_RemoveElement
<1>4. t \notin Counted => Cardinality(Counted \cup {t}) = Cardinality(Counted) + 1
  BY <1>1, FS_AddElement
<1> QED
  BY <1>2, <1>3, <1>4

(* The count as a sum of naturals.                                           *)
LEMMA CountFacts ==
  ASSUME WorkInv
  PROVE  /\ count \in Nat /\ Len(queue) \in Nat /\ Cardinality(Counted) \in Nat
         /\ count = Len(queue) + Cardinality(Counted)
         /\ Counted = {} => Cardinality(Counted) = 0
         /\ queue = <<>> => Len(queue) = 0
<1>1. /\ count \in Nat /\ queue \in Seq(Conn)
      /\ count = Len(queue) + Cardinality(Counted)
  BY DEF WorkInv, TypeOK, CountInv
<1>2. Len(queue) \in Nat /\ (queue = <<>> => Len(queue) = 0)
  BY <1>1
<1>3. Counted \subseteq Thread
  BY DEF Counted
<1>4. IsFiniteSet(Counted)
  BY <1>3, WorkAssumption, FS_Subset
<1>5. Cardinality(Counted) \in Nat /\ (Counted = {} => Cardinality(Counted) = 0)
  BY <1>4, FS_CardinalityType, FS_EmptySet
<1> QED
  BY <1>1, <1>2, <1>5

(* A step that moves one thread leaves the other actors where they are.      *)
LEMMA PcMoves ==
  ASSUME WorkInv, NEW t \in Thread, NEW l \in CallPc \cup CountedPc \cup EndPc,
         pc' = [pc EXCEPT ![t] = l]
  PROVE  /\ t \in Actor /\ pc'[t] = l
         /\ \A a \in Actor : a # t => pc'[a] = pc[a]
         /\ pc' \in [Actor -> CallPc \cup CountedPc \cup EndPc]
         /\ \A a \in Actor \ Thread : pc'[a] \in CallPc
         /\ l \in CountedPc => Counted' = Counted \cup {t}
         /\ l \notin CountedPc => Counted' = Counted \ {t}
<1> DEFINE Places == CallPc \cup CountedPc \cup EndPc
<1>1. t \in Actor /\ pc \in [Actor -> Places]
  BY Zenon DEF Actor, WorkInv, PcInv
<1> HIDE DEF Places
<1>2. pc'[t] = l
  BY <1>1, Zenon
<1>3. \A a \in Actor : a # t => pc'[a] = pc[a]
  BY <1>1, Zenon
<1>4. pc' \in [Actor -> Places]
  <2>1. l \in Places
    BY Zenon DEF Places
  <2> QED
    BY <1>1, <2>1
<1>5. \A a \in Actor \ Thread : pc'[a] \in CallPc
  <2>1. \A a \in Actor \ Thread : pc[a] \in CallPc /\ a # t
    BY Zenon DEF WorkInv, PcInv
  <2> QED
    BY <1>3, <2>1, Zenon
<1>6. \A u \in Thread : u # t => (u \in Counted' <=> u \in Counted)
  BY <1>3, Zenon DEF Counted, Actor
<1>7. t \in Counted' <=> l \in CountedPc
  BY <1>2, Zenon DEF Counted
<1>8. Counted \subseteq Thread /\ Counted' \subseteq Thread
  BY Zenon DEF Counted
<1>9. l \in CountedPc => Counted' = Counted \cup {t}
  BY <1>6, <1>7, <1>8
<1>10. l \notin CountedPc => Counted' = Counted \ {t}
  BY <1>6, <1>7, <1>8
<1> QED
  BY <1>1, <1>2, <1>3, <1>4, <1>5, <1>9, <1>10, Zenon DEF Places

(* What is covered stays so when one thread moves, if nothing leaves the     *)
(* queues and the thread's own connection is still covered.                  *)
LEMMA CoverMoves ==
  ASSUME NEW c \in Conn, Covered(c), NEW t \in Thread,
         \A a \in Actor : a # t => pc'[a] = pc[a] /\ on'[a] = on[a],
         c \in Range(queue) \cup Range(deque) => Covered(c)',
         on[t] = c /\ pc[t] \in LooksAgain => Covered(c)'
  PROVE  Covered(c)'
<1>1. "enqueue" \in LooksAgain
  BY DEF LooksAgain, CountedPc
<1>2. CASE c \in Range(queue) \cup Range(deque)
  BY <1>2
<1>3. ASSUME NEW a \in Actor, on[a] = c, pc[a] = "enqueue" PROVE Covered(c)'
  <2>1. CASE a = t
    BY <1>1, <1>3, <2>1, Zenon
  <2>2. CASE a # t
    BY <1>3, <2>2, Zenon DEF Covered
  <2> QED
    BY <2>1, <2>2
<1>4. ASSUME NEW u \in Thread, on[u] = c, pc[u] \in LooksAgain PROVE Covered(c)'
  <2>1. CASE u = t
    BY <1>4, <2>1, Zenon
  <2>2. CASE u # t
    <3>1. u \in Actor
      BY Zenon DEF Actor
    <3> QED
      BY <1>4, <2>2, <3>1, Zenon DEF Covered
  <2> QED
    BY <2>1, <2>2
<1> QED
  BY <1>2, <1>3, <1>4, Zenon DEF Covered

(* The steps of Basic::work keep WorkInv.                                    *)
LEMMA WorkStepKeeps ==
  ASSUME WorkInv, NEW t \in Thread, WorkStep(t)
  PROVE  WorkInv'
<1>1. PICK l \in AtWork :
        /\ pc[t] \in AtWork /\ pc' = [pc EXCEPT ![t] = l]
        /\ \A c \in Conn \ {on[t]} : flags'[c] = flags[c]
        /\ UNCHANGED <<queue, deque, waitIds, count, on, running, valid, closed, edge>>
        /\ DataOK' /\ DecodeOK'
        /\ pc \in [Actor -> CallPc \cup CountedPc \cup EndPc] /\ t \in Actor
        /\ on \in [Actor -> Conn \cup {NoConn}]
  <2>1. StaysAtWork(t) /\ DataOK' /\ DecodeOK'
    BY WorkStepEffect, WorkStepTypes
  <2> QED
    BY <2>1, Facts, Zenon DEF StaysAtWork, balVars
<1>2. l \in CountedPc /\ l \in LooksAgain /\ l # "idle" /\ pc[t] # "idle" /\ t \in Counted
  BY <1>1 DEF AtWork, CountedPc, LooksAgain, Counted
<1>3. /\ pc'[t] = l /\ (\A a \in Actor : a # t => pc'[a] = pc[a])
      /\ pc' \in [Actor -> CallPc \cup CountedPc \cup EndPc]
      /\ \A a \in Actor \ Thread : pc'[a] \in CallPc
      /\ Counted' = Counted \cup {t}
  BY <1>1, <1>2, PcMoves, Zenon
<1>4. TypeOK'
  <2>1. \A a \in Actor : (pc'[a] = "idle" <=> pc[a] = "idle")
    BY <1>2, <1>3, Zenon
  <2> QED
    BY <1>1, <2>1, Zenon DEF WorkInv, TypeOK, DataOK
<1>5. PcInv'
  BY <1>1, <1>3, Zenon DEF PcInv, DecodeOK
<1>6. CountInv'
  <2>1. Counted' = Counted
    BY <1>2, <1>3
  <2> QED
    BY <1>1, <2>1 DEF WorkInv, CountInv
<1>7. CoverInv'
  <2>1. t \in WillEnqueue'
    BY <1>1, <1>3 DEF WillEnqueue, AtWork, CountedPc
  <2>2. pc'[t] \in LooksAgain
    BY <1>2, <1>3
  <2>3. ASSUME NEW c \in Conn, running, valid[c], flags'[c] # {} PROVE Covered(c)'
    <3>1. CASE c = on[t]
      BY <1>1, <2>2, <3>1 DEF Covered
    <3>2. CASE c # on[t]
      <4>1. Covered(c)
        BY <1>1, <2>3, <3>2 DEF WorkInv, CoverInv
      <4>2. c \in Range(queue) \cup Range(deque) => Covered(c)'
        BY <1>1, Zenon DEF Covered
      <4> QED
        BY <1>1, <1>3, <3>2, <4>1, <4>2, CoverMoves, Zenon
    <3> QED
      BY <3>1, <3>2
  <2> QED
    BY <1>1, <2>1, <2>3, Zenon DEF CoverInv
<1> QED
  BY <1>4, <1>5, <1>6, <1>7 DEF WorkInv

(* An executor thread that takes a task turns a queued connection into one   *)
(* at work: the count stays.                                                 *)
LEMMA TakeTaskKeeps ==
  ASSUME WorkInv, NEW t \in Thread, TakeTask(t)
  PROVE  WorkInv'
<1> DEFINE h == Head(queue)
           l == IF valid[h] THEN "input" ELSE "drop"
<1>1. /\ pc[t] = "idle" /\ queue # <<>> /\ queue' = Tail(queue)
      /\ on' = [on EXCEPT ![t] = h] /\ pc' = [pc EXCEPT ![t] = l]
      /\ UNCHANGED <<flags, valid, avail, closed, edge, istream, ostream, failed, handled>>
      /\ UNCHANGED <<deque, waitIds, count, running>>
      /\ pc \in [Actor -> CallPc \cup CountedPc \cup EndPc] /\ t \in Actor
      /\ on \in [Actor -> Conn \cup {NoConn}] /\ NoConn \notin Conn /\ DecodeOK
      /\ l \in {"input", "drop"} /\ (valid[h] => l = "input")
  BY Facts DEF TakeTask, Goto, ranVars, netVars, connVars
<1>2. /\ queue \in Seq(Conn)
      /\ h \in Conn /\ queue' \in Seq(Conn) /\ Len(queue) \in Nat \ {0}
      /\ Len(queue') = Len(queue) - 1
      /\ Range(queue) = Range(queue') \cup {h}
  BY <1>1, TailRange DEF WorkInv, TypeOK
<1> HIDE DEF h, l
<1>3. /\ l \in CallPc \cup CountedPc \cup EndPc /\ l \in CountedPc /\ l # "idle"
      /\ t \notin Counted
  BY <1>1 DEF CountedPc, Counted
<1>4. /\ pc'[t] = l /\ (\A a \in Actor : a # t => pc'[a] = pc[a])
      /\ pc' \in [Actor -> CallPc \cup CountedPc \cup EndPc]
      /\ \A a \in Actor \ Thread : pc'[a] \in CallPc
      /\ Counted' = Counted \cup {t}
  BY <1>1, <1>3, PcMoves, Zenon
<1>5. on'[t] = h /\ (\A a \in Actor : a # t => on'[a] = on[a])
  BY <1>1, Zenon
<1>6. TypeOK'
  <2>1. on' \in [Actor -> Conn \cup {NoConn}]
    BY <1>1, <1>2
  <2>2. \A a \in Actor : on'[a] = NoConn <=> pc'[a] = "idle"
    <3>1. \A a \in Actor : on[a] = NoConn <=> pc[a] = "idle"
      BY Zenon DEF WorkInv, TypeOK
    <3>2. on'[t] # NoConn /\ pc'[t] # "idle"
      BY <1>1, <1>2, <1>3, <1>4, <1>5, Zenon
    <3> QED
      BY <1>4, <1>5, <3>1, <3>2, Zenon
  <2> QED
    BY <1>1, <1>2, <2>1, <2>2, Zenon DEF WorkInv, TypeOK
<1>7. PcInv'
  <2>1. \A u \in Thread : pc'[u] = "decode" => handled[u] < OnceHandle
    <3>1. l # "decode"
      BY <1>1
    <3> QED
      BY <1>1, <1>4, <3>1, Zenon DEF DecodeOK, Actor
  <2> QED
    BY <1>1, <1>4, <2>1, Zenon DEF PcInv
<1>8. CountInv'
  <2>1. Cardinality(Counted') = Cardinality(Counted) + 1 /\ Cardinality(Counted) \in Nat
    BY <1>3, <1>4, CountedMoves, Zenon
  <2> QED
    BY <1>1, <1>2, <2>1 DEF WorkInv, CountInv
<1>9. CoverInv'
  <2>1. t \in WillEnqueue'
    BY <1>1, <1>4 DEF WillEnqueue
  <2>2. ASSUME NEW c \in Conn, running, valid[c], flags[c] # {} PROVE Covered(c)'
    <3>1. Covered(c)
      BY <2>2, Zenon DEF WorkInv, CoverInv
    <3>2. CASE c = h
      <4>1. on'[t] = c /\ pc'[t] = "input"
        BY <1>1, <1>4, <1>5, <2>2, <3>2, Zenon
      <4>2. "input" \in LooksAgain
        BY DEF LooksAgain, CountedPc
      <4> QED
        BY <4>1, <4>2, Zenon DEF Covered
    <3>3. CASE c # h
      <4>1. pc[t] \notin LooksAgain
        BY <1>1 DEF LooksAgain, CountedPc, EndPc
      <4>2. c \in Range(queue) \cup Range(deque) => Covered(c)'
        BY <1>1, <1>2, <3>3, Zenon DEF Covered
      <4> QED
        BY <1>4, <1>5, <3>1, <4>1, <4>2, CoverMoves, Zenon
    <3> QED
      BY <3>2, <3>3
  <2> QED
    BY <1>1, <2>1, <2>2, Zenon DEF CoverInv
<1> QED
  BY <1>6, <1>7, <1>8, <1>9 DEF WorkInv

(* The decrement of working_conn_count uncounts its thread.                  *)
LEMMA DecreaseKeeps ==
  ASSUME WorkInv, NEW t \in Thread, Decrease(t)
  PROVE  WorkInv'
<1>1. PICK l \in {"popNext", "remove", "idleCheck"} :
        /\ pc[t] \in {"decrease", "drop"} /\ count' = Decreased
        /\ pc' = [pc EXCEPT ![t] = l] /\ (pc[t] = "decrease" => l # "popNext")
        /\ UNCHANGED <<flags, valid, avail, closed, edge, istream, ostream>>
        /\ UNCHANGED <<failed, handled, queue, deque, waitIds, on, running>>
        /\ pc \in [Actor -> CallPc \cup CountedPc \cup EndPc] /\ t \in Actor
        /\ on \in [Actor -> Conn \cup {NoConn}] /\ DecodeOK
  BY Facts, Zenon DEF Decrease, Goto, ranVars, netVars, connVars
<1>2. /\ l \in CallPc \cup CountedPc \cup EndPc /\ l \notin CountedPc
      /\ l # "idle" /\ l # "decode" /\ pc[t] # "idle" /\ t \in Counted
  BY <1>1 DEF EndPc, CountedPc, Counted
<1>3. /\ pc'[t] = l /\ (\A a \in Actor : a # t => pc'[a] = pc[a])
      /\ pc' \in [Actor -> CallPc \cup CountedPc \cup EndPc]
      /\ \A a \in Actor \ Thread : pc'[a] \in CallPc
      /\ Counted' = Counted \ {t}
  BY <1>1, <1>2, PcMoves, Zenon
<1>4. /\ Counted' = Counted \ {t} /\ t \in Counted
  BY <1>2, <1>3, Zenon
<1>5. /\ Cardinality(Counted') = Cardinality(Counted) - 1 /\ Cardinality(Counted) \in Nat
      /\ Cardinality(Counted) > 0
  BY <1>4, CountedMoves
<1>6. count = Len(queue) + Cardinality(Counted) /\ Len(queue) \in Nat /\ count \in Nat
  BY DEF WorkInv, TypeOK, CountInv
<1>7. count' = count - 1 /\ count' \in Nat
  BY <1>1, <1>5, <1>6 DEF Decreased
<1>8. TypeOK'
  <2>1. \A a \in Actor : (pc'[a] = "idle" <=> pc[a] = "idle")
    BY <1>2, <1>3, Zenon
  <2> QED
    BY <1>1, <1>7, <2>1 DEF WorkInv, TypeOK
<1>9. PcInv'
  <2>1. \A u \in Thread : pc'[u] = "decode" => handled[u] < OnceHandle
    BY <1>1, <1>2, <1>3, Zenon DEF DecodeOK, Actor
  <2> QED
    BY <1>1, <1>3, <2>1, Zenon DEF PcInv
<1>10. CountInv'
  <2>1. MaxWorking \in Nat
    BY WorkAssumption, Zenon
  <2> QED
    BY <1>1, <1>5, <1>6, <1>7, <2>1 DEF WorkInv, CountInv
<1>11. CoverInv'
  <2>1. t \in WillEnqueue'
    BY <1>1, <1>3, Zenon DEF WillEnqueue
  <2>2. pc[t] \in LooksAgain => pc'[t] \in LooksAgain
    BY <1>1, <1>3 DEF LooksAgain, CountedPc, EndPc
  <2>3. ASSUME NEW c \in Conn, running, valid[c], flags[c] # {} PROVE Covered(c)'
    <3>1. Covered(c)
      BY <2>3, Zenon DEF WorkInv, CoverInv
    <3>2. /\ c \in Range(queue) \cup Range(deque) => Covered(c)'
          /\ on[t] = c /\ pc[t] \in LooksAgain => Covered(c)'
      BY <1>1, <2>2, Zenon DEF Covered
    <3> QED
      BY <1>1, <1>3, <3>1, <3>2, CoverMoves, Zenon
  <2> QED
    BY <1>1, <2>1, <2>3, Zenon DEF CoverInv
<1> QED
  BY <1>8, <1>9, <1>10, <1>11 DEF WorkInv

(* The steps after the decrement: the connection is removed, or looked at    *)
(* for the last time.                                                        *)
LEMMA EndStepKeeps ==
  ASSUME WorkInv, NEW t \in Thread, RemoveFailed(t) \/ IdleCheck(t)
  PROVE  WorkInv'
<1>1. PICK l \in {"popNext", "again"} :
        /\ pc[t] \in {"remove", "idleCheck"} /\ pc' = [pc EXCEPT ![t] = l]
        /\ UNCHANGED <<flags, closed, edge, failed, handled>>
        /\ UNCHANGED <<queue, deque, waitIds, count, on, running>>
        /\ pc \in [Actor -> CallPc \cup CountedPc \cup EndPc] /\ t \in Actor
        /\ on \in [Actor -> Conn \cup {NoConn}] /\ on[t] \in Conn /\ DecodeOK /\ DataOK
        /\ valid \in [Conn -> BOOLEAN]
  <2>1. PICK l \in {"popNext", "again"} : pc' = [pc EXCEPT ![t] = l]
    BY Zenon DEF RemoveFailed, IdleCheck, Goto
  <2>2. /\ pc[t] \in {"remove", "idleCheck"}
        /\ UNCHANGED <<flags, closed, edge, failed, handled>>
        /\ UNCHANGED <<queue, deque, waitIds, count, on, running>>
    BY Zenon DEF RemoveFailed, Removed, IdleCheck, ranVars, netVars, connVars, balVars
  <2> QED
    BY <2>1, <2>2, Facts, Zenon
<1>2. /\ l \in CallPc \cup CountedPc \cup EndPc /\ l \notin CountedPc
      /\ l # "idle" /\ l # "decode" /\ pc[t] # "idle" /\ t \notin Counted
  BY <1>1 DEF EndPc, CountedPc, Counted
<1>3. /\ pc'[t] = l /\ (\A a \in Actor : a # t => pc'[a] = pc[a])
      /\ pc' \in [Actor -> CallPc \cup CountedPc \cup EndPc]
      /\ \A a \in Actor \ Thread : pc'[a] \in CallPc
      /\ Counted' = Counted \ {t}
  BY <1>1, <1>2, PcMoves, Zenon
<1>4. TypeOK'
  <2>1. \A a \in Actor : (pc'[a] = "idle" <=> pc[a] = "idle")
    BY <1>2, <1>3, Zenon
  <2>2. /\ avail' \in [Conn -> Nat] /\ istream' \in [Conn -> Nat]
        /\ ostream' \in [Conn -> Nat]
    BY <1>1 DEF DataOK, RemoveFailed, Removed, IdleCheck, netVars, connVars
  <2>3. valid' \in [Conn -> BOOLEAN]
    BY <1>1, Zenon DEF RemoveFailed, Removed, IdleCheck, connVars
  <2> QED
    BY <1>1, <2>1, <2>2, <2>3 DEF WorkInv, TypeOK
<1>5. PcInv'
  <2>1. \A u \in Thread : pc'[u] = "decode" => handled[u] < OnceHandle
    BY <1>1, <1>2, <1>3, Zenon DEF DecodeOK, Actor
  <2> QED
    BY <1>1, <1>3, <2>1, Zenon DEF PcInv
<1>6. CountInv'
  <2>1. Counted' = Counted
    BY <1>2, <1>3
  <2> QED
    BY <1>1, <2>1 DEF WorkInv, CountInv
<1>7. CoverInv'
  <2>1. t \in WillEnqueue'
    BY <1>1, <1>3 DEF WillEnqueue
  <2>2. ASSUME NEW c \in Conn, running, valid'[c], flags[c] # {} PROVE Covered(c)'
    <3>1. valid[c] /\ (c = on[t] => pc'[t] = "again")
      <4>1. CASE RemoveFailed(t)
        BY <1>1, <2>2, <4>1, SMTT(20) DEF RemoveFailed, Removed
      <4>2. CASE IdleCheck(t)
        BY <1>1, <1>3, <2>2, <4>2 DEF IdleCheck, IsIdle, Goto, connVars
      <4> QED
        BY <4>1, <4>2, Zenon
    <3>2. Covered(c)
      BY <2>2, <3>1, Zenon DEF WorkInv, CoverInv
    <3>3. "again" \in LooksAgain
      BY DEF LooksAgain, EndPc
    <3>4. /\ c \in Range(queue) \cup Range(deque) => Covered(c)'
          /\ on[t] = c => Covered(c)'
      BY <1>1, <3>1, <3>3, Zenon DEF Covered
    <3> QED
      BY <1>1, <1>3, <3>2, <3>4, CoverMoves, Zenon
  <2> QED
    BY <1>1, <2>1, <2>2, Zenon DEF CoverInv
<1> QED
  BY <1>4, <1>5, <1>6, <1>7 DEF WorkInv

(* The last call of work.                                                    *)
LEMMA EnqueueNextKeeps ==
  ASSUME WorkInv, NEW t \in Thread, EnqueueNext(t)
  PROVE  WorkInv'
<1> DEFINE e == IF pc[t] = "again" THEN on[t] ELSE NoConn
<1>1. /\ pc[t] \in {"again", "popNext"} /\ Enqueue(e)
      /\ pc' = [pc EXCEPT ![t] = "idle"] /\ on' = [on EXCEPT ![t] = NoConn]
      /\ failed' = [failed EXCEPT ![t] = FALSE] /\ handled' = [handled EXCEPT ![t] = 0]
      /\ UNCHANGED <<flags, valid, avail, closed, edge, istream, ostream, running>>
      /\ pc \in [Actor -> CallPc \cup CountedPc \cup EndPc] /\ t \in Actor
      /\ on \in [Actor -> Conn \cup {NoConn}] /\ DecodeOK /\ DataOK
      /\ OnceHandle \in Nat \ {0}
      /\ e \in Conn \cup {NoConn} /\ (pc[t] = "again" => e = on[t] /\ e \in Conn)
  BY Facts, WorkAssumption DEF EnqueueNext, Rest, Goto, Fail, netVars, connVars
<1> HIDE DEF e
<1>2. /\ queue' \in Seq(Conn) /\ deque' \in Seq(Conn) /\ IsInjective(deque')
      /\ waitIds' = Range(deque')
      /\ \/ UNCHANGED <<count, queue>>
         \/ count' = count + 1 /\ Len(queue') = Len(queue) + 1 /\ queue' # <<>>
      /\ MaxWorking > 0 => count' <= MaxWorking
      /\ Range(queue) \cup Range(deque) \subseteq Range(queue') \cup Range(deque')
      /\ running /\ e \in Conn => e \in Range(queue') \cup Range(deque')
      /\ running /\ deque' # <<>> => queue' # <<>> \/ count > 0
  BY <1>1, EnqueueEffect
<1>3. /\ count \in Nat /\ Len(queue) \in Nat /\ Cardinality(Counted) \in Nat
      /\ count = Len(queue) + Cardinality(Counted)
      /\ Counted = {} => Cardinality(Counted) = 0
      /\ queue = <<>> => Len(queue) = 0
  BY CountFacts
<1>4. /\ "idle" \in CallPc \cup CountedPc \cup EndPc /\ "idle" \notin CountedPc
      /\ t \notin Counted
  BY <1>1 DEF CallPc, CountedPc, Counted
<1>5. /\ pc'[t] = "idle" /\ (\A a \in Actor : a # t => pc'[a] = pc[a])
      /\ pc' \in [Actor -> CallPc \cup CountedPc \cup EndPc]
      /\ \A a \in Actor \ Thread : pc'[a] \in CallPc
      /\ Counted' = Counted \ {t}
  BY <1>1, <1>4, PcMoves, Zenon
<1>6. on'[t] = NoConn /\ (\A a \in Actor : a # t => on'[a] = on[a])
  BY <1>1, Zenon
<1>7. TypeOK'
  <2>1. on' \in [Actor -> Conn \cup {NoConn}]
    BY <1>1
  <2>2. \A a \in Actor : on'[a] = NoConn <=> pc'[a] = "idle"
    <3>1. \A a \in Actor : on[a] = NoConn <=> pc[a] = "idle"
      BY Zenon DEF WorkInv, TypeOK
    <3> QED
      BY <1>5, <1>6, <3>1, Zenon
  <2>3. failed' \in [Thread -> BOOLEAN]
    BY <1>1, Zenon DEF DataOK
  <2>4. handled' \in [Thread -> 0..OnceHandle]
    BY <1>1 DEF DataOK
  <2>5. count' \in Nat
    BY <1>2, <1>3
  <2> QED
    BY <1>1, <1>2, <2>1, <2>2, <2>3, <2>4, <2>5, Zenon DEF WorkInv, TypeOK
<1>8. PcInv'
  <2>1. \A u \in Thread : u # t => handled'[u] = handled[u]
    BY <1>1, Zenon DEF DataOK
  <2>2. \A u \in Thread : pc'[u] = "decode" => handled'[u] < OnceHandle
    <3>1. pc'[t] # "decode"
      BY <1>5
    <3> QED
      BY <1>1, <1>5, <2>1, <3>1, Zenon DEF DecodeOK, Actor
  <2> QED
    BY <1>5, <2>2, Zenon DEF PcInv
<1>9. Counted' = Counted
  BY <1>4, <1>5
<1>10. CountInv'
  BY <1>2, <1>3, <1>9 DEF CountInv
<1>11. CoverInv'
  <2>1. ASSUME running, deque' # <<>> PROVE queue' # <<>> \/ WillEnqueue' # {}
    <3>1. queue' # <<>> \/ Counted # {}
      BY <1>2, <1>3, <2>1
    <3>2. \A u \in Counted : u \in WillEnqueue'
      <4>1. ASSUME NEW u \in Counted PROVE u \in Thread /\ pc'[u] \in CountedPc
        BY <1>4, <1>5, <4>1, Zenon DEF Counted, Actor
      <4> QED
        BY <4>1 DEF CountedPc, WillEnqueue
    <3> QED
      BY <3>1, <3>2
  <2>2. ASSUME NEW c \in Conn, running, valid[c], flags[c] # {} PROVE Covered(c)'
    <3>1. Covered(c)
      BY <2>2, Zenon DEF WorkInv, CoverInv
    <3>2. pc[t] \in LooksAgain => e = on[t] /\ e \in Conn
      BY <1>1 DEF LooksAgain
    <3>3. /\ c \in Range(queue) \cup Range(deque) => Covered(c)'
          /\ on[t] = c /\ pc[t] \in LooksAgain => Covered(c)'
      BY <1>2, <2>2, <3>2 DEF Covered
    <3> QED
      BY <1>5, <1>6, <3>1, <3>3, CoverMoves, Zenon
  <2> QED
    BY <1>1, <2>1, <2>2, Zenon DEF CoverInv
<1> QED
  BY <1>7, <1>8, <1>10, <1>11 DEF WorkInv
=============================================================================
