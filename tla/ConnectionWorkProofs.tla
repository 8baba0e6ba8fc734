------------------------ MODULE ConnectionWorkProofs ------------------------
(***************************************************************************)
(* The work of connections is counted exactly and never left behind, for   *)
(* every set of connections, executor threads and senders; and with one    *)
(* thread no packet is forgotten.  ConnectionWorkInvariant has the         *)
(* invariant and the steps of the threads; here are the steps of those who *)
(* call send or enqueue_work, of the poller and of the peer.               *)
(***************************************************************************)
EXTENDS ConnectionWorkInvariant

(* Basic::enqueue_work, of a thread, a sender or the poller.                 *)
LEMMA ExchangeKeeps ==
  ASSUME WorkInv, NEW a \in Actor, Exchange(a)
  PROVE  WorkInv'
<1> DEFINE f == IF a = Poller THEN "Input" ELSE "Output"
<1>1. PICK l \in {"idle", "enqueue", "cmdNext"} :
        /\ pc[a] = "exchange" /\ pc' = [pc EXCEPT ![a] = l]
        /\ on' = IF l = "idle" THEN [on EXCEPT ![a] = NoConn] ELSE on
        /\ l = "idle" <=> f \in flags[on[a]] /\ a \notin Thread
        /\ l = "enqueue" <=> f \notin flags[on[a]]
        /\ flags' = [flags EXCEPT ![on[a]] = @ \cup {f}]
        /\ UNCHANGED <<valid, avail, closed, edge, istream, ostream, failed, handled>>
        /\ UNCHANGED <<queue, deque, waitIds, count, running>>
        /\ pc \in [Actor -> CallPc \cup CountedPc \cup EndPc]
        /\ on \in [Actor -> Conn \cup {NoConn}] /\ NoConn \notin Conn /\ DecodeOK
        /\ on[a] \in Conn /\ flags \in [Conn -> SUBSET Flag] /\ f \in Flag
        /\ Thread \subseteq Actor
  BY Facts
  DEF DataOK, Flag, Exchange, AfterEnqueue, Rest, Goto, netVars, balVars, ranVars
<1> HIDE DEF f
<1>2. TypeOK'
  <2>1. on' \in [Actor -> Conn \cup {NoConn}]
    BY <1>1
  <2>2. \A b \in Actor : on'[b] = NoConn <=> pc'[b] = "idle"
    BY <1>1 DEF WorkInv, TypeOK
  <2>3. flags' \in [Conn -> SUBSET Flag]
    BY <1>1
  <2> QED
    BY <1>1, <2>1, <2>2, <2>3 DEF WorkInv, TypeOK
<1>3. PcInv'
  <2>1. pc' \in [Actor -> CallPc \cup CountedPc \cup EndPc]
    BY <1>1 DEF CallPc, CountedPc
  <2>2. \A b \in Actor \ Thread : pc'[b] \in CallPc
    BY <1>1 DEF WorkInv, PcInv, CallPc
  <2>3. \A u \in Thread : pc'[u] = "decode" => handled[u] < OnceHandle
    BY <1>1 DEF DecodeOK
  <2> QED
    BY <1>1, <2>1, <2>2, <2>3 DEF PcInv
<1>4. \A u \in Thread : pc'[u] \in CountedPc <=> pc[u] \in CountedPc
  BY <1>1 DEF CountedPc
<1>5. CountInv'
  <2>1. Counted' = Counted
    BY <1>4 DEF Counted
  <2> QED
    BY <1>1, <2>1 DEF WorkInv, CountInv
<1>6. CoverInv'
  <2>1. WillEnqueue' = WillEnqueue
    BY <1>1 DEF WillEnqueue
  <2>2. ASSUME NEW c \in Conn, running, valid[c], flags'[c] # {} PROVE Covered(c)'
    <3>1. CASE c = on[a] /\ f \notin flags[c]
      <4>1. on'[a] = c /\ pc'[a] = "enqueue"
        BY <1>1, <3>1
      <4> QED
        BY <4>1 DEF Covered
    <3>2. CASE c # on[a] \/ f \in flags[c]
      <4>1. Covered(c)
        BY <1>1, <2>2, <3>2 DEF WorkInv, CoverInv
      <4>2. \A b \in Actor : b # a => pc'[b] = pc[b] /\ on'[b] = on[b]
        BY <1>1
      <4>3. a \in Thread => on'[a] = on[a] /\ pc'[a] \in LooksAgain
        BY <1>1 DEF LooksAgain, CountedPc
      <4> QED
        BY <1>1, <4>1, <4>2, <4>3 DEF Covered
    <3> QED
      BY <3>1, <3>2
  <2> QED
    BY <1>1, <2>1, <2>2 DEF WorkInv, CoverInv
<1> QED
  BY <1>2, <1>3, <1>5, <1>6 DEF WorkInv

(* The rest of enqueue_work gives the flagged connection to the manager.     *)
LEMMA EnqueueWorkKeeps ==
  ASSUME WorkInv, NEW a \in Actor, EnqueueWork(a)
  PROVE  WorkInv'
<1>1. PICK l \in {"idle", "cmdNext"} :
        /\ pc[a] = "enqueue" /\ Enqueue(on[a]) /\ pc' = [pc EXCEPT ![a] = l]
        /\ on' = IF l = "idle" THEN [on EXCEPT ![a] = NoConn] ELSE on
        /\ l = "idle" <=> a \notin Thread
        /\ UNCHANGED <<flags, valid, avail, closed, edge, istream, ostream>>
        /\ UNCHANGED <<failed, handled, running>>
        /\ pc \in [Actor -> CallPc \cup CountedPc \cup EndPc]
        /\ on \in [Actor -> Conn \cup {NoConn}] /\ NoConn \notin Conn /\ DecodeOK
        /\ on[a] \in Conn /\ Thread \subseteq Actor
  BY Facts DEF EnqueueWork, AfterEnqueue, Rest, Goto, netVars, connVars, ranVars
<1>2. /\ queue' \in Seq(Conn) /\ deque' \in Seq(Conn) /\ IsInjective(deque')
      /\ waitIds' = Range(deque')
      /\ \/ UNCHANGED <<count, queue>>
         \/ count' = count + 1 /\ Len(queue') = Len(queue) + 1 /\ queue' # <<>>
      /\ MaxWorking > 0 => count' <= MaxWorking
      /\ Range(queue) \cup Range(deque) \subseteq Range(queue') \cup Range(deque')
      /\ running => on[a] \in Range(queue') \cup Range(deque')
      /\ running /\ deque' # <<>> => queue' # <<>> \/ count > 0
  BY <1>1, EnqueueEffect
<1>3. /\ count \in Nat /\ Len(queue) \in Nat /\ Cardinality(Counted) \in Nat
      /\ count = Len(queue) + Cardinality(Counted)
      /\ Counted = {} => Cardinality(Counted) = 0
      /\ queue = <<>> => Len(queue) = 0
  BY CountFacts
<1>4. TypeOK'
  <2>1. on' \in [Actor -> Conn \cup {NoConn}]
    BY <1>1
  <2>2. \A b \in Actor : on'[b] = NoConn <=> pc'[b] = "idle"
    BY <1>1 DEF WorkInv, TypeOK
  <2>3. count' \in Nat
    BY <1>2, <1>3
  <2> QED
    BY <1>1, <1>2, <2>1, <2>2, <2>3, Zenon DEF WorkInv, TypeOK
<1>5. PcInv'
  <2>1. pc' \in [Actor -> CallPc \cup CountedPc \cup EndPc]
    BY <1>1 DEF CallPc, CountedPc
  <2>2. \A b \in Actor \ Thread : pc'[b] \in CallPc
    BY <1>1 DEF WorkInv, PcInv, CallPc
  <2>3. \A u \in Thread : pc'[u] = "decode" => handled[u] < OnceHandle
    BY <1>1 DEF DecodeOK
  <2> QED
    BY <1>1, <2>1, <2>2, <2>3 DEF PcInv
<1>6. \A u \in Thread : pc'[u] \in CountedPc <=> pc[u] \in CountedPc
  BY <1>1 DEF CountedPc
<1>7. Counted' = Counted
  BY <1>6 DEF Counted
<1>8. CountInv'
  BY <1>2, <1>3, <1>7 DEF CountInv
<1>9. CoverInv'
  <2>1. ASSUME running, deque' # <<>> PROVE queue' # <<>> \/ WillEnqueue' # {}
    <3>1. queue' # <<>> \/ Counted' # {}
      BY <1>2, <1>3, <1>7, <2>1
    <3>2. \A u \in Counted' : u \in WillEnqueue'
      BY DEF Counted, CountedPc, WillEnqueue
    <3> QED
      BY <3>1, <3>2
  <2>2. ASSUME NEW c \in Conn, running, valid[c], flags[c] # {} PROVE Covered(c)'
    <3>1. CASE c = on[a]
      BY <1>2, <2>2, <3>1 DEF Covered
    <3>2. CASE c # on[a]
      <4>1. Covered(c)
        BY <2>2 DEF WorkInv, CoverInv
      <4>2. \A b \in Actor : on[b] = c => pc'[b] = pc[b] /\ on'[b] = c
        BY <1>1, <3>2
      <4> QED
        BY <1>1, <1>2, <4>1, <4>2 DEF Covered
    <3> QED
      BY <3>1, <3>2
  <2> QED
    BY <1>1, <2>1, <2>2 DEF CoverInv
<1> QED
  BY <1>4, <1>5, <1>8, <1>9 DEF WorkInv

(* The steps of the others: they give no connection a flag, and a sender or  *)
(* the poller at most begins a call.                                         *)
Outside ==
  /\ UNCHANGED <<queue, deque, waitIds, count, failed, handled>>
  /\ flags' \in [Conn -> SUBSET Flag] /\ valid' \in [Conn -> BOOLEAN]
  /\ closed' \in [Conn -> BOOLEAN] /\ edge' \in [Conn -> BOOLEAN]
  /\ avail' \in [Conn -> Nat] /\ istream' \in [Conn -> Nat] /\ ostream' \in [Conn -> Nat]
  /\ running' \in BOOLEAN /\ (running' => running)
  /\ \A c \in Conn : valid'[c] /\ flags'[c] # {} => valid[c] /\ flags[c] # {}
  /\ \/ UNCHANGED <<pc, on>>
     \/ \E a \in Actor \ Thread, c \in Conn :
          /\ pc[a] = "idle" /\ pc' = [pc EXCEPT ![a] = "exchange"]
          /\ on' = [on EXCEPT ![a] = c]

(* Such a step keeps WorkInv.                                                *)
LEMMA OutsideKeeps ==
  ASSUME WorkInv, Outside
  PROVE  WorkInv'
<1>1. /\ pc \in [Actor -> CallPc \cup CountedPc \cup EndPc]
      /\ on \in [Actor -> Conn \cup {NoConn}] /\ NoConn \notin Conn /\ DecodeOK
      /\ Thread \subseteq Actor
  BY Facts
<1> DEFINE Begun ==
       /\ pc' \in [Actor -> CallPc \cup CountedPc \cup EndPc]
       /\ on' \in [Actor -> Conn \cup {NoConn}]
       /\ \A a \in Actor \ Thread : pc'[a] \in CallPc
       /\ \A a \in Actor : on'[a] = NoConn <=> pc'[a] = "idle"
       /\ \A a \in Actor : pc[a] # "idle" => pc'[a] = pc[a] /\ on'[a] = on[a]
       /\ \A t \in Thread : pc'[t] = pc[t] /\ on'[t] = on[t]
<1>2. Begun
  <2>1. CASE UNCHANGED <<pc, on>>
    BY <1>1, <2>1 DEF WorkInv, TypeOK, PcInv
  <2>2. ASSUME NEW a \in Actor \ Thread, NEW c \in Conn, pc[a] = "idle",
               pc' = [pc EXCEPT ![a] = "exchange"], on' = [on EXCEPT ![a] = c]
        PROVE  Begun
    <3>1. "exchange" \in CallPc /\ \A b \in Actor \ Thread : pc[b] \in CallPc
      BY DEF CallPc, WorkInv, PcInv
    <3>2. \A b \in Actor : on[b] = NoConn <=> pc[b] = "idle"
      BY DEF WorkInv, TypeOK
    <3> QED
      BY <1>1, <2>2, <3>1, <3>2
  <2> QED
    BY <2>1, <2>2, Zenon DEF Outside
<1>3. TypeOK'
  BY <1>2, Zenon DEF WorkInv, TypeOK, Outside
<1>4. PcInv'
  BY <1>1, <1>2 DEF PcInv, DecodeOK, Outside
<1>5. CountInv'
  <2>1. Counted' = Counted
    BY <1>2 DEF Counted
  <2> QED
    BY <2>1 DEF WorkInv, CountInv, Outside
<1>6. CoverInv'
  <2>1. WillEnqueue' = WillEnqueue
    BY <1>2 DEF WillEnqueue
  <2>2. ASSUME NEW c \in Conn, running, valid'[c], flags'[c] # {} PROVE Covered(c)'
    <3>1. Covered(c)
      BY <2>2, Zenon DEF WorkInv, CoverInv, Outside
    <3> QED
      BY <1>2, <3>1 DEF Covered, Outside
  <2> QED
    BY <2>1, <2>2 DEF WorkInv, CoverInv, Outside
<1> QED
  BY <1>3, <1>4, <1>5, <1>6 DEF WorkInv

(* Sending, the poller, accepting, the peers and stop() keep WorkInv.        *)
LEMMA OthersKeep ==
  ASSUME WorkInv,
         \/ \E c \in Conn :
              \/ \E s \in Sender : Send(s, c)
              \/ HandleInput(c) \/ Accept(c) \/ PeerSends(c) \/ PeerCloses(c)
         \/ Stop
         \/ UNCHANGED vars
  PROVE  WorkInv'
<1>1. /\ flags \in [Conn -> SUBSET Flag] /\ valid \in [Conn -> BOOLEAN]
      /\ closed \in [Conn -> BOOLEAN] /\ edge \in [Conn -> BOOLEAN]
      /\ avail \in [Conn -> Nat] /\ istream \in [Conn -> Nat] /\ ostream \in [Conn -> Nat]
      /\ running \in BOOLEAN
      /\ Sender \subseteq Actor \ Thread /\ Poller \in Actor \ Thread
  BY Facts, WorkAssumption DEF DataOK, WorkInv, TypeOK, Actor
<1> USE DEF netVars, connVars, balVars, ranVars, actVars, Goto, Removed
<1>2. ASSUME NEW c \in Conn, NEW s \in Sender, Send(s, c) PROVE Outside
  <2>1. /\ ostream' = [ostream EXCEPT ![c] = @ + 1]
        /\ UNCHANGED <<queue, deque, waitIds, count, failed, handled, running>>
        /\ UNCHANGED <<flags, valid, closed, edge, avail, istream>>
    BY <1>2 DEF Send
  <2>2. ostream' \in [Conn -> Nat]
    BY <1>1, <2>1
  <2>3. \E a \in Actor \ Thread, d \in Conn :
          /\ pc[a] = "idle" /\ pc' = [pc EXCEPT ![a] = "exchange"]
          /\ on' = [on EXCEPT ![a] = d]
    BY <1>1, <1>2, Zenon DEF Send
  <2> QED
    BY <1>1, <2>1, <2>2, <2>3, Zenon DEF Outside
<1>3. ASSUME NEW c \in Conn, HandleInput(c) PROVE Outside
  <2>1. edge' \in [Conn -> BOOLEAN] /\ UNCHANGED <<flags, closed>>
    BY <1>1, <1>3, Zenon DEF HandleInput
  <2>2. CASE valid[c]
    BY <1>1, <1>3, <2>1, <2>2, SMTT(20) DEF HandleInput, Outside
  <2>3. CASE ~valid[c]
    <3>1. valid' \in [Conn -> BOOLEAN] /\ \A d \in Conn : valid'[d] => valid[d]
      BY <1>1, <1>3, <2>3, Zenon DEF HandleInput
    <3> QED
      BY <1>1, <1>3, <2>1, <2>3, <3>1 DEF HandleInput, Outside
  <2> QED
    BY <2>2, <2>3
<1>4. ASSUME NEW c \in Conn, Accept(c) PROVE Outside
  <2>1. valid' \in [Conn -> BOOLEAN] /\ closed' \in [Conn -> BOOLEAN]
    BY <1>1, <1>4, Zenon DEF Accept
  <2>2. \A d \in Conn : d # c => valid'[d] = valid[d]
    BY <1>1, <1>4, Zenon DEF Accept
  <2>3. /\ flags' \in [Conn -> SUBSET Flag] /\ flags'[c] = {}
        /\ \A d \in Conn : d # c => flags'[d] = flags[d]
    <3>1. flags' = [flags EXCEPT ![c] = {}]
      BY <1>4, Zenon DEF Accept
    <3> QED
      BY <1>1, <3>1
  <2>4. istream' \in [Conn -> Nat] /\ ostream' \in [Conn -> Nat]
    <3>1. istream' = [istream EXCEPT ![c] = 0] /\ ostream' = [ostream EXCEPT ![c] = 0]
      BY <1>4, Zenon DEF Accept
    <3> QED
      BY <1>1, <3>1
  <2>5. \A d \in Conn : valid'[d] /\ flags'[d] # {} => valid[d] /\ flags[d] # {}
    BY <2>2, <2>3, Zenon
  <2>6. /\ UNCHANGED <<queue, deque, waitIds, count, failed, handled, pc, on, running>>
        /\ UNCHANGED <<edge, avail>>
    BY <1>4 DEF Accept
  <2> QED
    BY <1>1, <2>1, <2>3, <2>4, <2>5, <2>6, Zenon DEF Outside
<1>5. ASSUME NEW c \in Conn, PeerSends(c) \/ PeerCloses(c) PROVE Outside
  <2>1. edge' \in [Conn -> BOOLEAN] /\ closed' \in [Conn -> BOOLEAN]
    BY <1>1, <1>5, Zenon DEF PeerSends, PeerCloses
  <2> QED
    BY <1>1, <1>5, <2>1 DEF PeerSends, PeerCloses, Outside
<1>6. ASSUME Stop PROVE Outside
  <2>1. /\ UNCHANGED <<queue, deque, waitIds, count, failed, handled, pc, on>>
        /\ UNCHANGED <<flags, valid, closed, edge, avail, istream, ostream>>
        /\ running' = FALSE
    BY <1>6 DEF Stop
  <2> QED
    BY <1>1, <2>1, Zenon DEF Outside
<1>7. ASSUME UNCHANGED vars PROVE Outside
  <2>1. /\ UNCHANGED <<queue, deque, waitIds, count, failed, handled, pc, on, running>>
        /\ UNCHANGED <<flags, valid, closed, edge, avail, istream, ostream>>
    BY <1>7 DEF vars
  <2> QED
    BY <1>1, <2>1, Zenon DEF Outside
<1> HIDE DEF netVars, connVars, balVars, ranVars, actVars, Goto, Removed
<1>8. Outside
  BY <1>2, <1>3, <1>4, <1>5, <1>6, <1>7, Zenon
<1> QED
  BY <1>8, OutsideKeeps, ZenonT(30)

(* WorkInv holds while nothing has been sent or received.                    *)
LEMMA WorkInitial == Init => WorkInv
<1> SUFFICES ASSUME Init PROVE WorkInv
  OBVIOUS
<1>1. TypeOK
  <2>1. /\ <<>> \in Seq(Conn) /\ IsInjective(<<>>) /\ {} = Range(<<>>)
    BY DEF IsInjective, Range
  <2> QED
    BY <2>1, WorkAssumption DEF Init, TypeOK
<1>2. PcInv
  BY DEF Init, PcInv, CallPc, Actor
<1>3. CountInv
  <2>1. Counted = {}
    BY DEF Init, Counted, CountedPc, Actor
  <2>2. Cardinality({}) = 0 /\ Len(<<>>) = 0
    BY FS_EmptySet
  <2> QED
    BY <2>1, <2>2, WorkAssumption DEF Init, CountInv
<1>4. CoverInv
  BY DEF Init, CoverInv
<1> QED
  BY <1>1, <1>2, <1>3, <1>4 DEF WorkInv

(* Every step of every actor keeps WorkInv.                                  *)
LEMMA WorkInductive == WorkInv /\ [Next]_vars => WorkInv'
<1> SUFFICES ASSUME WorkInv, [Next]_vars PROVE WorkInv'
  OBVIOUS
<1>1. ASSUME NEW t \in Thread, ThreadStep(t) PROVE WorkInv'
  BY <1>1, WorkStepKeeps, TakeTaskKeeps, DecreaseKeeps, EndStepKeeps, EnqueueNextKeeps
  DEF ThreadStep, WorkStep
<1>2. ASSUME NEW a \in Actor, CallStep(a) PROVE WorkInv'
  BY <1>2, ExchangeKeeps, EnqueueWorkKeeps DEF CallStep
<1> QED
  BY <1>1, <1>2, OthersKeep DEF Next

-----------------------------------------------------------------------------
(* WorkInv holds in every state of every behaviour: of the flags, the queue, *)
(* the deque, the count and the threads that connection/manager.cc and       *)
(* connection/basic.cc move.                                                 *)
THEOREM WorkInvariance == Spec => []WorkInv
BY WorkInitial, WorkInductive, PTL DEF Spec

(* working_conn_count is exact, and Manager::enqueue keeps it at or below    *)
(* working_conn_max_count, whatever the numbers of connections and threads.  *)
THEOREM CountIsExact == Spec => []CountExact
<1>1. WorkInv => CountExact
  <2> SUFFICES ASSUME WorkInv PROVE CountExact
    OBVIOUS
  <2>1. {t \in Thread : pc[t] \notin {"idle", "remove", "idleCheck", "again", "popNext"}}
          = Counted
    BY DEF WorkInv, PcInv, Counted, CountedPc, CallPc, EndPc, Actor
  <2> QED
    BY <2>1, Zenon DEF WorkInv, CountInv, CountExact
<1> QED
  BY <1>1, WorkInvariance, PTL

(* No flagged connection is left behind by the threads that set and clear    *)
(* its flags at once, and none waits in the deque with nobody to take it out.*)
THEOREM WorkIsCovered == Spec => []WorkCovered
<1>1. WorkInv => WorkCovered
  <2> SUFFICES ASSUME WorkInv PROVE WorkCovered
    OBVIOUS
  <2>1. ASSUME NEW c \in Conn, Covered(c)
        PROVE  c \in Range(queue) \cup Range(deque) \cup Range(on)
    <3>1. \A a \in Actor : on[a] \in Range(on)
      BY DEF WorkInv, TypeOK, Range
    <3> QED
      BY <2>1, <3>1 DEF Covered, Actor
  <2> QED
    BY <2>1 DEF WorkInv, CoverInv, WorkCovered, FlagCovered
<1> QED
  BY <1>1, WorkInvariance, PTL
-----------------------------------------------------------------------------
(* The look at the input stream and the clearing of the Command flag are two *)
(* steps, so another thread may pull a packet in between: with one thread    *)
(* there is none.                                                            *)
OneThread == \A t, u \in Thread : t = u

(* Basic::work of the only thread: process_input sets Command with what it   *)
(* pulls, and process_command clears it only when no whole packet is left.   *)
LEMMA WorkStepKeepsCommand ==
  ASSUME WorkInv, CommandInv, OneThread, NEW t \in Thread, WorkStep(t)
  PROVE  CommandInv'
<1>1. /\ flags \in [Conn -> SUBSET Flag] /\ istream \in [Conn -> Nat] /\ t \in Actor
      /\ avail \in [Conn -> Nat] /\ pc \in [Actor -> CallPc \cup CountedPc \cup EndPc]
      /\ on[t] \in Conn /\ UNCHANGED <<on, valid>> /\ PacketSize \in Nat \ {0}
      /\ \A u \in Thread : u = t
      /\ \A c \in Conn : valid[c] /\ istream[c] >= PacketSize => "Command" \in flags[c]
      /\ pc[t] = "cmdClear" /\ valid[on[t]] => istream[on[t]] < PacketSize
  <2>1. pc[t] # "idle" /\ UNCHANGED <<on, valid>>
    BY WorkStepEffect DEF StaysAtWork, AtWork, CountedPc
  <2>2. PacketSize \in Nat \ {0}
    BY WorkAssumption, Zenon
  <2> QED
    BY <2>1, <2>2, Facts, Zenon DEF DataOK, OneThread, CommandInv
<1> DEFINE Has == \A c \in Conn :
                    valid[c] /\ istream'[c] >= PacketSize => "Command" \in flags'[c]
           Clear == pc'[t] = "cmdClear" /\ valid[on[t]] => istream'[on[t]] < PacketSize
<1> SUFFICES Has /\ Clear
  BY <1>1, Zenon DEF CommandInv
<1> DEFINE Keeps == /\ istream' = istream /\ pc'[t] # "cmdClear"
                    /\ \A c \in Conn : "Command" \in flags[c] => "Command" \in flags'[c]
<1>2. ASSUME Keeps PROVE Has /\ Clear
  BY <1>1, <1>2, Zenon
<1> USE DEF Goto, connVars
<1>3. CASE ProcessInput(t)
  <2>1. pc'[t] \in {"output", "inCheck"}
    BY <1>1, <1>3, Zenon DEF ProcessInput
  <2>2. \/ UNCHANGED <<flags, istream>>
        \/ /\ flags' = [flags EXCEPT ![on[t]] = WithCommand(on[t])]
           /\ \E n : istream' = [istream EXCEPT ![on[t]] = @ + n]
    BY <1>3, Zenon DEF ProcessInput
  <2> QED
    BY <1>1, <2>1, <2>2 DEF WithCommand
<1>4. CASE CheckInput(t)
  BY <1>1, <1>4, <1>2, Zenon DEF CheckInput
<1>5. CASE ClearInput(t)
  <2>1. istream' = istream /\ pc'[t] # "cmdClear"
    BY <1>1, <1>5, Zenon DEF ClearInput
  <2>2. flags' = [flags EXCEPT ![on[t]] = @ \ {"Input"}]
    BY <1>5, Zenon DEF ClearInput, Cleared
  <2>3. \A c \in Conn : "Command" \in flags[c] => "Command" \in flags'[c]
    BY <1>1, <2>2
  <2> QED
    BY <2>1, <2>3, <1>2, Zenon
<1>6. CASE ProcessOutput(t)
  BY <1>1, <1>6, <1>2, Zenon DEF ProcessOutput
<1>7. CASE CheckOutput(t)
  BY <1>1, <1>7, <1>2, Zenon DEF CheckOutput
<1>8. CASE ClearOutput(t)
  <2>1. istream' = istream /\ pc'[t] # "cmdClear"
    BY <1>1, <1>8, Zenon DEF ClearOutput
  <2>2. flags' = [flags EXCEPT ![on[t]] = @ \ {"Output"}]
    BY <1>8, Zenon DEF ClearOutput, Cleared
  <2>3. \A c \in Conn : "Command" \in flags[c] => "Command" \in flags'[c]
    BY <1>1, <2>2
  <2> QED
    BY <2>1, <2>3, <1>2, Zenon
<1>9. CASE ProcessCommand(t)
  BY <1>1, <1>9, <1>2, Zenon DEF ProcessCommand
<1>10. CASE NeedRecv(t)
  BY <1>1, <1>10, Zenon DEF NeedRecv
<1>11. CASE BadPacket(t)
  BY <1>1, <1>11, <1>2, Zenon DEF BadPacket
<1>12. CASE HandlePacket(t)
  BY <1>1, <1>12 DEF HandlePacket
<1>13. CASE NextPacket(t)
  BY <1>1, <1>13, <1>2, Zenon DEF NextPacket
<1>14. CASE CheckCommand(t)
  <2>1. flags' = flags /\ istream' = istream
    BY <1>14, Zenon DEF CheckCommand
  <2>2. pc'[t] = "cmdClear" => istream[on[t]] = 0
    BY <1>1, <1>14, Zenon DEF CheckCommand
  <2>3. 0 < PacketSize
    BY <1>1
  <2> QED
    BY <1>1, <2>1, <2>2, <2>3, Zenon
<1>15. CASE ClearCommand(t)
  BY <1>1, <1>15 DEF ClearCommand, Cleared
<1> HIDE DEF Goto, connVars, Has, Clear
<1> QED
  BY <1>3, <1>4, <1>5, <1>6, <1>7, <1>8, <1>9, <1>10, <1>11, <1>12,
     <1>13, <1>14, <1>15, Zenon
  DEF WorkStep

(* The rest of Manager::Impl::work touches neither the stream nor the        *)
(* Command flag.                                                             *)
LEMMA OtherThreadStepKeepsCommand ==
  ASSUME WorkInv, CommandInv, OneThread, NEW t \in Thread,
         TakeTask(t) \/ Decrease(t) \/ RemoveFailed(t) \/ IdleCheck(t) \/ EnqueueNext(t)
  PROVE  CommandInv'
<1>1. /\ istream \in [Conn -> Nat] /\ t \in Actor
      /\ pc \in [Actor -> CallPc \cup CountedPc \cup EndPc]
      /\ valid \in [Conn -> BOOLEAN] /\ PacketSize \in Nat \ {0}
  BY Facts, WorkAssumption DEF DataOK
<1>2. pc'[t] # "cmdClear" /\ \A u \in Thread : u = t
  BY <1>1, Zenon
  DEF OneThread, TakeTask, Decrease, RemoveFailed, IdleCheck, EnqueueNext, Rest, Goto
<1>3. CASE TakeTask(t) \/ Decrease(t) \/ IdleCheck(t) \/ EnqueueNext(t)
  <2>1. flags' = flags /\ valid' = valid /\ istream' = istream
    BY <1>3, Zenon DEF TakeTask, Decrease, IdleCheck, EnqueueNext, connVars
  <2> QED
    BY <1>2, <2>1, Zenon DEF CommandInv
<1>4. CASE RemoveFailed(t)
  <2>1. on[t] \in Conn
    BY <1>1, <1>4, Facts DEF RemoveFailed
  <2>2. flags' = flags /\ \A c \in Conn : valid'[c] => valid[c]
    BY <1>1, <1>4, <2>1, Zenon DEF RemoveFailed, Removed
  <2>3. \A c \in Conn : istream'[c] >= PacketSize => istream[c] >= PacketSize
    BY <1>1, <1>4, <2>1 DEF RemoveFailed, Removed
  <2> QED
    BY <1>2, <2>2, <2>3, Zenon DEF CommandInv
<1> QED
  BY <1>3, <1>4

(* enqueue_work only adds flags.                                             *)
LEMMA CallStepKeepsCommand ==
  ASSUME WorkInv, CommandInv, NEW a \in Actor, CallStep(a)
  PROVE  CommandInv'
<1>1. /\ pc \in [Actor -> CallPc \cup CountedPc \cup EndPc]
      /\ flags \in [Conn -> SUBSET Flag] /\ Thread \subseteq Actor
      /\ on \in [Actor -> Conn \cup {NoConn}]
  BY Facts DEF DataOK
<1>2. /\ \A t \in Thread : pc'[t] = "cmdClear" => pc[t] = "cmdClear" /\ on'[t] = on[t]
      /\ UNCHANGED <<valid, istream>>
  BY <1>1 DEF CallStep, Exchange, EnqueueWork, AfterEnqueue, Rest, Goto, connVars
<1>3. \A c \in Conn : flags[c] \subseteq flags'[c]
  BY <1>1, SMTT(20) DEF CallStep, Exchange, EnqueueWork, connVars
<1> QED
  BY <1>2, <1>3, Zenon DEF CommandInv

(* The other actors leave the input streams of valid connections alone; an   *)
(* accepted connection starts with an empty one.                             *)
LEMMA OthersKeepCommand ==
  ASSUME WorkInv, CommandInv,
         \/ \E c \in Conn :
              \/ \E s \in Sender : Send(s, c)
              \/ HandleInput(c) \/ Accept(c) \/ PeerSends(c) \/ PeerCloses(c)
         \/ Stop
         \/ UNCHANGED vars
  PROVE  CommandInv'
<1>1. /\ pc \in [Actor -> CallPc \cup CountedPc \cup EndPc]
      /\ on \in [Actor -> Conn \cup {NoConn}] /\ NoConn \notin Conn
      /\ flags \in [Conn -> SUBSET Flag] /\ istream \in [Conn -> Nat]
      /\ valid \in [Conn -> BOOLEAN] /\ Thread \subseteq Actor
      /\ \A t \in Thread : pc[t] # "idle" => on[t] \in Conn
      /\ Sender \cap Thread = {} /\ Poller \notin Thread /\ PacketSize \in Nat \ {0}
  BY Facts, WorkAssumption, ZenonT(30) DEF DataOK
<1> USE DEF netVars, connVars, actVars, Goto, Removed
<1>2. \A t \in Thread : pc'[t] = pc[t] /\ on'[t] = on[t]
  BY <1>1 DEF Send, HandleInput, Accept, PeerSends, PeerCloses, Stop, vars
<1> DEFINE Stays ==
      \A c \in Conn : valid'[c] /\ istream'[c] >= PacketSize =>
        valid[c] /\ istream[c] >= PacketSize /\ flags'[c] = flags[c]
<1>3. Stays
  <2>1. ASSUME NEW c \in Conn, HandleInput(c) PROVE Stays
    BY <1>1, <2>1, SMTT(20) DEF HandleInput
  <2>2. ASSUME NEW c \in Conn, Accept(c) PROVE Stays
    BY <1>1, <2>2 DEF Accept
  <2>3. ASSUME UNCHANGED <<valid, flags, istream>> PROVE Stays
    BY <2>3, Zenon
  <2> QED
    BY <2>1, <2>2, <2>3, Zenon DEF Send, PeerSends, PeerCloses, Stop, vars
<1> HIDE DEF netVars, connVars, actVars, Goto, Removed
<1>4. istream' \in [Conn -> Nat]
  BY OthersKeep, Zenon DEF WorkInv, TypeOK
<1>5. \A c \in Conn : valid'[c] /\ istream'[c] >= PacketSize => "Command" \in flags'[c]
  BY <1>3, Zenon DEF CommandInv
<1>6. ASSUME NEW t \in Thread, pc'[t] = "cmdClear", valid'[on'[t]]
      PROVE  istream'[on'[t]] < PacketSize
  <2>1. on'[t] = on[t] /\ on[t] \in Conn /\ pc[t] = "cmdClear"
    BY <1>1, <1>2, <1>6
  <2>2. istream'[on[t]] >= PacketSize => valid[on[t]] /\ istream[on[t]] >= PacketSize
    BY <1>3, <1>6, <2>1, Zenon
  <2>3. valid[on[t]] => istream[on[t]] < PacketSize
    BY <2>1 DEF CommandInv
  <2>4. istream[on[t]] \in Nat /\ istream'[on[t]] \in Nat
    BY <1>1, <1>4, <2>1
  <2>5. ASSUME istream'[on[t]] >= PacketSize PROVE FALSE
    BY <1>1, <2>2, <2>3, <2>4, <2>5
  <2>6. istream'[on[t]] < PacketSize
    BY <1>1, <2>4, <2>5
  <2> QED
    BY <2>1, <2>6, ZenonT(30)
<1> QED
  BY <1>5, <1>6, Zenon DEF CommandInv

(* With one executor thread, a whole packet in a valid connection's input    *)
(* stream keeps its Command flag, whatever the peers, the senders and the    *)
(* poller do: process_command does not forget it.                            *)
THEOREM PacketsAreHandled ==
  ASSUME OneThread
  PROVE  Spec => []PacketsHandled
<1>1. Init => CommandInv
  BY WorkAssumption DEF Init, CommandInv, Actor
<1>2. WorkInv /\ CommandInv /\ [Next]_vars => CommandInv'
  <2> SUFFICES ASSUME WorkInv, CommandInv, [Next]_vars PROVE CommandInv'
    OBVIOUS
  <2>1. ASSUME NEW t \in Thread, ThreadStep(t) PROVE CommandInv'
    BY <2>1, OneThread, WorkStepKeepsCommand, OtherThreadStepKeepsCommand
    DEF ThreadStep, WorkStep
  <2>2. ASSUME NEW a \in Actor, CallStep(a) PROVE CommandInv'
    BY <2>2, CallStepKeepsCommand
  <2> QED
    BY <2>1, <2>2, OthersKeepCommand DEF Next
<1>3. CommandInv => PacketsHandled
  BY DEF CommandInv, PacketsHandled
<1> QED
  BY <1>1, <1>2, <1>3, WorkInvariance, PTL DEF Spec
=============================================================================
