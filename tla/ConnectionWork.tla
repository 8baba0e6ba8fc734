--------------------------- MODULE ConnectionWork ---------------------------
(***************************************************************************)
(* How connections get their work done: the work flags and streams of      *)
(* connection::Basic (net/connection/basic.cc), the balancing of           *)
(* Manager::enqueue and Manager::Impl::work (net/connection/manager.cc),   *)
(* and the edge-triggered poller of Epoll (net/connection/epoll.cc).       *)
(*                                                                         *)
(* A poller sets the Input flag, senders set Output, and setting a flag    *)
(* that was clear gives the connection to the executor, or to a waiting    *)
(* deque when working_conn_max_count tasks are out.  An executor thread    *)
(* pulls, pushes and handles packets, clears the flags of what is done and *)
(* gives the connection, or a waiting one, to the executor again.          *)
(*                                                                         *)
(* A step is one critical section, or one read of the socket or a stream.  *)
(* Streams and sockets are counters of bytes, a packet is PacketSize       *)
(* bytes.  Except is never set and WorkFlag::Except does nothing.          *)
(***************************************************************************)
EXTENDS Naturals, Sequences, FiniteSets, TLC, Functions

CONSTANTS
  Conn,       \* connection ids
  Thread,     \* the threads of the executor
  Sender,     \* other threads that call send()
  Poller,     \* the thread of Manager::start
  NoConn,     \* connection::kInvalidId
  MaxWorking, \* working_conn_max_count
  OnceHandle, \* kOnceHandlePacketCount
  PacketSize,
  MaxRecv, MaxSent, MaxAccepts  \* bounds: bytes received, packets sent, accepts

ASSUME WorkAssumption ==
  /\ NoConn \notin Conn
  /\ IsFiniteSet(Thread) /\ Thread \cap Sender = {} /\ Poller \notin Thread
  /\ MaxWorking \in Nat /\ OnceHandle \in Nat \ {0} /\ PacketSize \in Nat \ {0}
  /\ {MaxRecv, MaxSent, MaxAccepts} \subseteq Nat

Actor == Thread \cup Sender \cup {Poller}

VARIABLES
  flags,    \* conn -> work_flags
  valid,    \* conn -> socket->valid()
  avail,    \* conn -> socket->avail()
  closed,   \* conn -> the peer has closed
  edge,     \* conn -> an epoll event waits to be handled
  istream,  \* conn -> istream->size()
  ostream,  \* conn -> ostream->size(), in packets
  queue,    \* the tasks of the executor: each works on one connection
  deque,    \* wait_work_conn_id_deque
  waitIds,  \* wait_work_conn_ids
  count,    \* working_conn_count
  running,  \* Manager::running
  pc,       \* actor -> where it is
  on,       \* actor -> the connection it deals with
  failed,   \* thread -> conn->work() is to return false
  handled,  \* thread -> the packets that process_command has handled
  received, sent, accepts  \* counters for the bounds

netVars == <<avail, closed, edge, received>>
connVars == <<flags, valid, istream, ostream>>
balVars == <<queue, deque, waitIds, count>>
ranVars == <<failed, handled>>
actVars == <<pc, on, ranVars>>
vars == <<netVars, connVars, balVars, actVars, running, sent, accepts>>

Flag == {"Input", "Output", "Command"}

Init ==
  /\ flags = [c \in Conn |-> {}]
  /\ valid = [c \in Conn |-> TRUE]
  /\ avail = [c \in Conn |-> 0] /\ closed = [c \in Conn |-> FALSE]
  /\ edge = [c \in Conn |-> FALSE]
  /\ istream = [c \in Conn |-> 0] /\ ostream = [c \in Conn |-> 0]
  /\ queue = <<>> /\ deque = <<>> /\ waitIds = {} /\ count = 0
  /\ running = TRUE
  /\ pc = [a \in Actor |-> "idle"] /\ on = [a \in Actor |-> NoConn]
  /\ failed = [t \in Thread |-> FALSE] /\ handled = [t \in Thread |-> 0]
  /\ received = 0 /\ sent = 0 /\ accepts = 0

Goto(a, l) == pc' = [pc EXCEPT ![a] = l]

(* The actor is done with its connection.                                    *)
Rest(a) == Goto(a, "idle") /\ on' = [on EXCEPT ![a] = NoConn]

-----------------------------------------------------------------------------
(* Manager::enqueue, under the manager's mutex.                              *)

PopKeepsId == /\ deque' = Tail(deque) /\ UNCHANGED waitIds

PopWorkId == /\ deque' = Tail(deque) /\ waitIds' = waitIds \ {Head(deque)}

PushWorkId(c) ==
  IF c \in waitIds
    THEN UNCHANGED <<deque, waitIds>>
    ELSE /\ deque' = Append(deque, c)
         /\ waitIds' = waitIds \cup {c}

HasWaiting == deque # <<>>

HasRoomOffByOne == MaxWorking = 0 \/ count <= MaxWorking

HasRoom == MaxWorking = 0 \/ count < MaxWorking

Post(c) == queue' = Append(queue, c) /\ count' = count + 1

Enqueue(c) ==
  IF running /\ HasRoom
    THEN IF c # NoConn
           THEN Post(c) /\ UNCHANGED <<deque, waitIds>>
           ELSE IF HasWaiting THEN Post(Head(deque)) /\ PopWorkId
                              ELSE UNCHANGED balVars
    ELSE IF running /\ c # NoConn
           THEN PushWorkId(c) /\ UNCHANGED <<queue, count>>
           ELSE UNCHANGED balVars

-----------------------------------------------------------------------------
(* Basic::enqueue_work(flag): the flag is exchanged under the connection's   *)
(* mutex, and only who sets it goes on to enqueue.                           *)

(* What an actor does once its enqueue_work has returned.                    *)
AfterEnqueue(a) ==
  IF a \in Thread THEN Goto(a, "cmdNext") /\ UNCHANGED on ELSE Rest(a)

Exchange(a) ==
  /\ pc[a] = "exchange"
  /\ LET c == on[a]
         f == IF a = Poller THEN "Input" ELSE "Output"
     IN  /\ flags' = [flags EXCEPT ![c] = @ \cup {f}]
         /\ IF f \in flags[c] THEN AfterEnqueue(a)
                              ELSE Goto(a, "enqueue") /\ UNCHANGED on
  /\ UNCHANGED <<netVars, valid, istream, ostream, balVars, ranVars, running, sent,
                 accepts>>

EnqueueWork(a) ==
  /\ pc[a] = "enqueue"
  /\ Enqueue(on[a])
  /\ AfterEnqueue(a)
  /\ UNCHANGED <<netVars, connVars, ranVars, running, sent, accepts>>

(* Basic::send writes to the stream under the connection's mutex.            *)
Send(s, c) ==
  /\ pc[s] = "idle" /\ sent < MaxSent
  /\ sent' = sent + 1
  /\ ostream' = [ostream EXCEPT ![c] = @ + 1]
  /\ Goto(s, "exchange") /\ on' = [on EXCEPT ![s] = c]
  /\ UNCHANGED <<netVars, flags, valid, istream, balVars, ranVars, running, accepts>>

-----------------------------------------------------------------------------
(* Manager::remove, and Manager::accept into the slot that remove has freed. *)

Removed(c) ==
  /\ valid' = [valid EXCEPT ![c] = FALSE]
  /\ istream' = [istream EXCEPT ![c] = 0]
  /\ ostream' = [ostream EXCEPT ![c] = 0]
  /\ avail' = [avail EXCEPT ![c] = 0]
  /\ UNCHANGED <<flags, closed, received>>

(* new_conn with Basic::init, the socket and sock_add.                       *)
Accept(c) ==
  /\ running /\ pc[Poller] = "idle"
  /\ ~valid[c] /\ accepts < MaxAccepts
  /\ accepts' = accepts + 1
  /\ valid' = [valid EXCEPT ![c] = TRUE]
  /\ closed' = [closed EXCEPT ![c] = FALSE]
  /\ flags' = [flags EXCEPT ![c] = {}]
  /\ istream' = [istream EXCEPT ![c] = 0]
  /\ ostream' = [ostream EXCEPT ![c] = 0]
  /\ UNCHANGED <<avail, edge, received, balVars, actVars, running, sent>>

(* Epoll::handle_input for one event.  The event may be of a connection that *)
(* was removed after epoll_wait had returned it.                             *)
HandleInput(c) ==
  /\ running /\ pc[Poller] = "idle" /\ edge[c]
  /\ edge' = [edge EXCEPT ![c] = FALSE]
  /\ IF valid[c]
       THEN /\ Goto(Poller, "exchange") /\ on' = [on EXCEPT ![Poller] = c]
            /\ UNCHANGED <<avail, closed, received, connVars>>
       ELSE Removed(c) /\ UNCHANGED <<pc, on>>
  /\ UNCHANGED <<balVars, ranVars, running, sent, accepts>>

-----------------------------------------------------------------------------
(* The peer, and Manager::stop as far as this module sees it.                *)

PeerSends(c) ==
  /\ valid[c] /\ ~closed[c] /\ received < MaxRecv
  /\ received' = received + 1
  /\ avail' = [avail EXCEPT ![c] = @ + 1]
  /\ edge' = [edge EXCEPT ![c] = TRUE]
  /\ UNCHANGED <<closed, connVars, balVars, actVars, running, sent, accepts>>

PeerCloses(c) ==
  /\ valid[c] /\ ~closed[c]
  /\ closed' = [closed EXCEPT ![c] = TRUE]
  /\ edge' = [edge EXCEPT ![c] = TRUE]
  /\ UNCHANGED <<avail, received, connVars, balVars, actVars, running, sent, accepts>>

Stop ==
  /\ running
  /\ running' = FALSE
  /\ UNCHANGED <<netVars, connVars, balVars, actVars, sent, accepts>>

-----------------------------------------------------------------------------
(* Manager::Impl::work on an executor thread t, with conn->work() inside.    *)

Fail(t, b) == failed' = [failed EXCEPT ![t] = b]

TakeTask(t) ==
  /\ pc[t] = "idle" /\ queue # <<>>
  /\ queue' = Tail(queue)
  /\ on' = [on EXCEPT ![t] = Head(queue)]
  /\ Goto(t, IF valid[Head(queue)] THEN "input" ELSE "drop")
  /\ UNCHANGED <<ranVars, netVars, connVars, deque, waitIds, count, running, sent, accepts>>

SameFlags(c) == flags[c]

WithCommand(c) == flags[c] \cup {"Command"}

(* process_input up to check_flag: pull takes some of what is available and  *)
(* fails when the peer has closed; then Command is set.                      *)
ProcessInput(t) ==
  LET c == on[t]
  IN  /\ pc[t] = "input"
      /\ \/ /\ "Input" \notin flags[c]
            /\ Goto(t, "output")
            /\ UNCHANGED <<avail, flags, istream, failed>>
         \/ /\ "Input" \in flags[c]
            /\ ~valid[c] \/ (closed[c] /\ avail[c] = 0)
            /\ Goto(t, "inCheck") /\ Fail(t, TRUE)
            /\ UNCHANGED <<avail, flags, istream>>
         \/ /\ "Input" \in flags[c] /\ valid[c]
            /\ closed[c] => avail[c] > 0
            /\ \E n \in (IF avail[c] = 0 THEN 0 ELSE 1)..avail[c] :
                 /\ avail' = [avail EXCEPT ![c] = @ - n]
                 /\ istream' = [istream EXCEPT ![c] = @ + n]
            /\ flags' = [flags EXCEPT ![c] = WithCommand(c)]
            /\ Goto(t, "inCheck") /\ UNCHANGED failed
      /\ UNCHANGED <<handled, closed, edge, received, valid, ostream, balVars, on, running,
                     sent, accepts>>

(* check_flag reads socket->avail() ...                                      *)
CheckInput(t) ==
  /\ pc[t] = "inCheck"
  /\ Goto(t, IF avail[on[t]] = 0 THEN "inClear"
             ELSE IF failed[t] THEN "decrease" ELSE "output")
  /\ UNCHANGED <<netVars, connVars, balVars, on, ranVars, running, sent, accepts>>

Cleared(t, f) == flags' = [flags EXCEPT ![on[t]] = @ \ {f}]

(* ... and then clears the flag under the mutex.                             *)
ClearInput(t) ==
  /\ pc[t] = "inClear"
  /\ Cleared(t, "Input")
  /\ Goto(t, IF failed[t] THEN "decrease" ELSE "output")
  /\ UNCHANGED <<netVars, valid, istream, ostream, balVars, on, ranVars, running,
                 sent, accepts>>

(* process_output pushes as much as the socket takes, under the mutex.       *)
ProcessOutput(t) ==
  LET c == on[t]
  IN  /\ pc[t] = "output"
      /\ \/ /\ "Output" \notin flags[c]
            /\ Goto(t, "command") /\ UNCHANGED <<ostream, failed>>
         \/ /\ "Output" \in flags[c] /\ (~valid[c] \/ closed[c])
            /\ Goto(t, "decrease") /\ Fail(t, TRUE) /\ UNCHANGED ostream
         \/ /\ "Output" \in flags[c] /\ valid[c]
            /\ \E n \in 0..ostream[c] : ostream' = [ostream EXCEPT ![c] = n]
            /\ Goto(t, "outCheck") /\ UNCHANGED failed
      /\ UNCHANGED <<handled, netVars, flags, valid, istream, balVars, on, running, sent,
                     accepts>>

CheckOutput(t) ==
  /\ pc[t] = "outCheck"
  /\ Goto(t, IF ostream[on[t]] = 0 THEN "outClear" ELSE "command")
  /\ UNCHANGED <<netVars, connVars, balVars, on, ranVars, running, sent, accepts>>

ClearOutput(t) ==
  /\ pc[t] = "outClear"
  /\ Cleared(t, "Output")
  /\ Goto(t, "command")
  /\ UNCHANGED <<netVars, valid, istream, ostream, balVars, on, ranVars, running,
                 sent, accepts>>

(* process_command: the loop that decodes and handles packets.               *)
ProcessCommand(t) ==
  /\ pc[t] = "command"
  /\ handled' = [handled EXCEPT ![t] = 0]
  /\ Goto(t, IF "Command" \notin flags[on[t]] THEN "decrease"
             ELSE IF istream[on[t]] = 0 THEN "cmdCheck" ELSE "decode")
  /\ UNCHANGED <<netVars, connVars, balVars, on, failed, running, sent, accepts>>

(* Not a whole packet yet: NetPacketNeedRecv or NetPacketCantFill.           *)
NeedRecv(t) ==
  /\ pc[t] = "decode" /\ istream[on[t]] < PacketSize
  /\ Goto(t, "cmdClear")
  /\ UNCHANGED <<netVars, connVars, balVars, on, ranVars, running, sent, accepts>>

(* A header that is not valid, a packet that a handler refuses, or           *)
(* kCantPeekMaxCount headers in a row that were not complete.                *)
BadPacket(t) ==
  /\ pc[t] = "decode"
  /\ Goto(t, "cmdCheck") /\ Fail(t, TRUE)
  /\ UNCHANGED <<netVars, connVars, balVars, on, handled, running, sent, accepts>>

(* A packet is handled; the handler may send an answer on the connection.    *)
HandlePacket(t) ==
  LET c == on[t]
  IN  /\ pc[t] = "decode" /\ istream[c] >= PacketSize
      /\ istream' = [istream EXCEPT ![c] = @ - PacketSize]
      /\ handled' = [handled EXCEPT ![t] = @ + 1]
      /\ \/ Goto(t, "cmdNext") /\ UNCHANGED <<ostream, sent>>
         \/ /\ sent < MaxSent /\ sent' = sent + 1
            /\ ostream' = [ostream EXCEPT ![c] = @ + 1]
            /\ Goto(t, "exchange")
      /\ UNCHANGED <<netVars, flags, valid, balVars, on, failed, running, accepts>>

NextPacket(t) ==
  /\ pc[t] = "cmdNext"
  /\ Goto(t, IF istream[on[t]] = 0 \/ handled[t] = OnceHandle THEN "cmdCheck"
                                                            ELSE "decode")
  /\ UNCHANGED <<netVars, connVars, balVars, on, ranVars, running, sent, accepts>>

CheckCommand(t) ==
  /\ pc[t] = "cmdCheck"
  /\ Goto(t, IF istream[on[t]] = 0 THEN "cmdClear" ELSE "decrease")
  /\ UNCHANGED <<netVars, connVars, balVars, on, ranVars, running, sent, accepts>>

ClearCommand(t) ==
  /\ pc[t] = "cmdClear"
  /\ Cleared(t, "Command")
  /\ Goto(t, "decrease")
  /\ UNCHANGED <<netVars, valid, istream, ostream, balVars, on, ranVars, running,
                 sent, accepts>>

Decreased == IF count > 0 THEN count - 1 ELSE count

(* scoped_executor.                                                          *)
Decrease(t) ==
  /\ pc[t] \in {"decrease", "drop"}
  /\ count' = Decreased
  /\ Goto(t, IF pc[t] = "drop" THEN "popNext"
             ELSE IF failed[t] THEN "remove" ELSE "idleCheck")
  /\ UNCHANGED <<netVars, connVars, queue, deque, waitIds, on, ranVars, running,
                 sent, accepts>>

RemoveFailed(t) ==
  /\ pc[t] = "remove"
  /\ Removed(on[t])
  /\ Goto(t, "popNext")
  /\ UNCHANGED <<edge, balVars, on, ranVars, running, sent, accepts>>

IdleWithoutInput(c) == ~valid[c] \/ "Input" \notin flags[c]

IsIdle(c) == ~valid[c] \/ flags[c] = {}

IdleCheck(t) ==
  /\ pc[t] = "idleCheck"
  /\ Goto(t, IF IsIdle(on[t]) THEN "popNext" ELSE "again")
  /\ UNCHANGED <<netVars, connVars, balVars, on, ranVars, running, sent, accepts>>

(* The last call of work: the connection itself or a waiting one.            *)
EnqueueNext(t) ==
  /\ pc[t] \in {"again", "popNext"}
  /\ Enqueue(IF pc[t] = "again" THEN on[t] ELSE NoConn)
  /\ Rest(t) /\ Fail(t, FALSE)
  /\ handled' = [handled EXCEPT ![t] = 0]
  /\ UNCHANGED <<netVars, connVars, running, sent, accepts>>

-----------------------------------------------------------------------------
ThreadStep(t) ==
  \/ TakeTask(t) \/ ProcessInput(t) \/ CheckInput(t) \/ ClearInput(t)
  \/ ProcessOutput(t) \/ CheckOutput(t) \/ ClearOutput(t)
  \/ ProcessCommand(t) \/ NeedRecv(t) \/ BadPacket(t) \/ HandlePacket(t)
  \/ NextPacket(t) \/ CheckCommand(t) \/ ClearCommand(t)
  \/ Decrease(t) \/ RemoveFailed(t) \/ IdleCheck(t) \/ EnqueueNext(t)

CallStep(a) == Exchange(a) \/ EnqueueWork(a)

Next ==
  \/ \E t \in Thread : ThreadStep(t)
  \/ \E a \in Actor : CallStep(a)
  \/ \E c \in Conn :
       \/ \E s \in Sender : Send(s, c)
       \/ HandleInput(c) \/ Accept(c) \/ PeerSends(c) \/ PeerCloses(c)
  \/ Stop

Spec == Init /\ [][Next]_vars

(* Every thread goes on, and the poller handles its events.                  *)
FairSpec ==
  /\ Spec
  /\ \A t \in Thread : WF_vars(ThreadStep(t))
  /\ \A a \in Actor : WF_vars(CallStep(a))
  /\ \A c \in Conn : WF_vars(HandleInput(c))

-----------------------------------------------------------------------------
(* A thread that still has to call enqueue for the connections that wait.    *)
WillEnqueue == {t \in Thread : pc[t] # "idle"}

TypeOK ==
  /\ flags \in [Conn -> SUBSET Flag]
  /\ {valid, closed, edge} \subseteq [Conn -> BOOLEAN]
  /\ {avail, istream, ostream} \subseteq [Conn -> Nat]
  /\ queue \in Seq(Conn) /\ count \in Nat /\ running \in BOOLEAN
  /\ deque \in Seq(Conn) /\ IsInjective(deque) /\ waitIds = Range(deque)
  /\ on \in [Actor -> Conn \cup {NoConn}]
  /\ \A a \in Actor : on[a] = NoConn <=> pc[a] = "idle"
  /\ failed \in [Thread -> BOOLEAN] /\ handled \in [Thread -> 0..OnceHandle]

(* working_conn_count is exact: it counts the tasks that are queued or have  *)
(* not reached their decrement, and never passes the limit.                  *)
CountExact ==
  /\ count = Len(queue)
       + Cardinality({t \in Thread : pc[t] \notin {"idle", "remove", "idleCheck",
                                                   "again", "popNext"}})
  /\ MaxWorking > 0 => count <= MaxWorking

(* No work is left behind: a connection with a work flag is queued, waits in *)
(* the deque, or is in the hands of an actor that will enqueue it; and one   *)
(* waits in the deque only while a task is out whose end looks at the deque. *)
FlagCovered ==
  running =>
    /\ \A c \in Conn :
         valid[c] /\ flags[c] # {} => c \in Range(queue) \cup Range(deque) \cup Range(on)
    /\ deque # <<>> => queue # <<>> \/ WillEnqueue # {}

(* Work that a flag asks for has a task, a queue entry or a thread that will *)
(* see the flag, whatever set and cleared it (connection/basic.cc).          *)
WorkCovered == TypeOK /\ FlagCovered

(* With one executor thread nothing that was received is forgotten in the    *)
(* input stream: a whole packet in it has the Command flag, or the thread is *)
(* in work() on the connection.                                              *)
PacketsHandled ==
  \A c \in Conn :
    valid[c] /\ istream[c] >= PacketSize =>
      "Command" \in flags[c] \/ \E t \in Thread : on[t] = c

(* What conn->call() in the tests relies on: a packet that send() accepted   *)
(* does not stay in the output stream of a connection nobody will work on.   *)
SentIsPushed ==
  \A c \in Conn :
    running /\ valid[c] /\ ostream[c] > 0 =>
      flags[c] # {} \/ c \in Range(queue) \cup Range(deque) \cup Range(on)

(* What a call's answer relies on: bytes that the socket has received do not *)
(* wait there with no event, no flag and nobody at work.                     *)
ReceivedIsPulled ==
  \A c \in Conn :
    running /\ valid[c] /\ avail[c] > 0 =>
      \/ edge[c] \/ flags[c] # {}
      \/ c \in Range(queue) \cup Range(deque) \cup Range(on)

(* "For banlance connection works": a connection that waits in the deque is  *)
(* given to the executor.                                                    *)
WaitingIsWorked ==
  \A c \in Conn : (c \in waitIds) ~> (c \notin waitIds \/ ~running)

(* For TLC: the connections, and the executor threads, are interchangeable.  *)
Symmetry == Permutations(Conn) \cup Permutations(Thread)
=============================================================================
