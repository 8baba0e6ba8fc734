------------------------- MODULE ConnectionManager --------------------------
(***************************************************************************)
(* connection::Manager (net/connection/manager.cc): the slots of the       *)
(* connections, the thread that polls them, broadcast and stop; with the   *)
(* calls of Connector (net/connector.cc) and Epoll (net/connection/        *)
(* epoll.cc) that use them.                                                *)
(*                                                                         *)
(* A connection is its id, the index of its slot.  Clients and the poller  *)
(* open connections, and three parties may remove one: who opens it, the   *)
(* poller that sees a socket error, and the executor thread when           *)
(* conn->work() fails.  A step is one critical section of the manager's    *)
(* mutex or one access to what that mutex does not protect.                *)
(***************************************************************************)
EXTENDS Naturals, FiniteSets

CONSTANTS
  MaxCount,   \* setting.max_count
  Client,     \* threads that call Connector::connect and broadcast
  Poller,     \* the thread of start()
  Executor,   \* the executor's thread
  KeepAlive,  \* whether clients keep connections alive
  MaxOpens    \* bound: how many connections are opened

ASSUME ManagerAssumption ==
  /\ MaxCount \in Nat /\ MaxOpens \in Nat /\ KeepAlive \in BOOLEAN
  /\ Poller \notin Client /\ Executor \notin Client /\ Poller # Executor

Id == 1..MaxCount
NoConn == 0
Actor == Client \cup {Poller, Executor}

VARIABLES
  maxId,     \* connection_info.max_id
  freeIds,   \* connection_info.free_ids
  ids,       \* *connection_info.ids
  size,      \* connection_info.size
  open,      \* the connections whose socket is valid
  keepAlive, \* the connections with keep_alive set
  holders,   \* the broadcasters that share connection_info.ids
  view,      \* client -> the set of ids its broadcast goes through
  taken,     \* client -> those ids when the broadcast began
  pc,        \* actor -> where it is
  on,        \* actor -> the id it deals with
  events,    \* the connections in the events of the last epoll_wait
  listening, \* listen_fd_ is valid: a Listener's manager, not a Connector's
  ctrl,      \* a command waits in the control socket
  running,   \* Manager::running
  spc,       \* where stop() is
  opens      \* counter for the bound

slotVars == <<maxId, freeIds, ids, size>>
connVars == <<open, keepAlive>>
castVars == <<holders, view, taken>>
stopVars == <<running, spc, listening>>
vars == <<slotVars, connVars, castVars, pc, on, events, ctrl, stopVars, opens>>

(* start() has returned; prepare() has made the listening socket or not.     *)
Init ==
  /\ maxId = 0 /\ freeIds = {} /\ ids = {} /\ size = 0
  /\ open = {} /\ keepAlive = {}
  /\ holders = {} /\ view = [c \in Client |-> {}] /\ taken = [c \in Client |-> {}]
  /\ pc = [a \in Actor |-> IF a = Poller THEN "check" ELSE "idle"]
  /\ on = [a \in Actor |-> NoConn]
  /\ events = {} /\ ctrl = FALSE
  /\ running = TRUE /\ spc = "none" /\ listening \in BOOLEAN
  /\ opens = 0

Goto(a, l) == pc' = [pc EXCEPT ![a] = l]

(* Where an actor goes on when it is done with a connection.                 *)
Home(a) == IF a = Poller THEN "handle" ELSE "idle"

Rest(a) == Goto(a, Home(a)) /\ on' = [on EXCEPT ![a] = NoConn]

-----------------------------------------------------------------------------
(* The slots.                                                                *)

SharedSet(S) == /\ ids' = S
                /\ view' = [c \in Client |-> IF c \in holders THEN S ELSE view[c]]
                /\ UNCHANGED <<holders, taken>>

(* The set of ids is replaced, not changed, while a broadcast shares it.     *)
SetIds(S) == /\ ids' = S
             /\ holders' = {}
             /\ UNCHANGED <<view, taken>>

IsFull == freeIds = {} /\ maxId >= MaxCount

LowestFree == CHOOSE i \in freeIds : \A j \in freeIds : i <= j

StillFree(i) == freeIds

FreeLess(i) == freeIds \ {i}

(* The id that new_conn hands out.                                           *)
NewId == IF freeIds # {} THEN LowestFree ELSE maxId + 1

(* cv.notify_one; the waiting thread evaluates its predicate again.          *)
Notified == IF pc[Poller] = "asleep" THEN "predicate" ELSE pc[Poller]

(* new_conn by actor a, which goes on to open the socket.                    *)
NewConn(a) ==
  /\ ~IsFull
  /\ LET i == NewId
     IN  /\ freeIds' = FreeLess(i)
         /\ maxId' = IF freeIds # {} THEN maxId ELSE i
         /\ open' = open \ {i}
         /\ size' = size + 1
         /\ SetIds(ids \cup {i})
         /\ on' = [on EXCEPT ![a] = i]
         /\ pc' = [pc EXCEPT ![Poller] = Notified, ![a] = "opening"]
  /\ UNCHANGED keepAlive

StaysListed(i) == i \in keepAlive

SizeLess == IF size > 0 THEN size - 1 ELSE size

(* Manager::remove.                                                          *)
Remove(i) ==
  /\ open' = open \ {i}
  /\ IF StaysListed(i)
       THEN UNCHANGED <<slotVars, castVars>>
       ELSE /\ freeIds' = freeIds \cup {i}
            /\ size' = SizeLess
            /\ SetIds(ids \ {i})
            /\ UNCHANGED maxId
  /\ UNCHANGED keepAlive

RemoveBy(a) ==
  /\ pc[a] = "removing"
  /\ Remove(on[a])
  /\ Rest(a)
  /\ UNCHANGED <<events, ctrl, stopVars, opens>>

-----------------------------------------------------------------------------
(* Opening: Connector::connect by a client, Manager::accept by the poller.   *)

Open(a) ==
  /\ pc[a] = Home(a) /\ opens < MaxOpens
  /\ a = Poller => listening /\ running
  /\ a # Executor
  /\ NewConn(a)
  /\ opens' = opens + 1
  /\ UNCHANGED <<events, ctrl, stopVars>>

(* The socket is connected and given to epoll; a client wakes the poller.    *)
OpenSucceeds(a) ==
  /\ pc[a] = "opening"
  /\ open' = open \cup {on[a]}
  /\ ctrl' = (ctrl \/ a # Poller)
  /\ Rest(a)
  /\ UNCHANGED <<slotVars, keepAlive, castVars, events, stopVars, opens>>

OpenFails(a) ==
  /\ pc[a] = "opening"
  /\ Remove(on[a])
  /\ Rest(a)
  /\ UNCHANGED <<events, ctrl, stopVars, opens>>

(* Connector::set_keep_alive, and connect on a connection that was kept.     *)
SetKeepAlive(i, flag) ==
  /\ KeepAlive /\ i <= maxId
  /\ keepAlive' = IF flag THEN keepAlive \cup {i} ELSE keepAlive \ {i}
  /\ UNCHANGED <<slotVars, open, castVars, pc, on, events, ctrl, stopVars, opens>>

Reconnect(i) ==
  /\ i \in (ids \cap keepAlive) \ open /\ opens < MaxOpens
  /\ \A a \in Actor : pc[a] = "opening" => on[a] # i
  /\ opens' = opens + 1
  /\ open' = open \cup {i}
  /\ ctrl' = TRUE
  /\ UNCHANGED <<slotVars, keepAlive, castVars, pc, on, events, stopVars>>

(* conn->work() fails on the executor's thread.                              *)
WorkFails(i) ==
  /\ pc[Executor] = "idle" /\ i \in open
  /\ Goto(Executor, "removing") /\ on' = [on EXCEPT ![Executor] = i]
  /\ UNCHANGED <<slotVars, connVars, castVars, events, ctrl, stopVars, opens>>

(* broadcast and foreach: the set is taken under the mutex and gone through  *)
(* without it.                                                               *)
BroadcastBegin(c) ==
  /\ pc[c] = "idle"
  /\ Goto(c, "cast")
  /\ holders' = holders \cup {c}
  /\ view' = [view EXCEPT ![c] = ids]
  /\ taken' = [taken EXCEPT ![c] = ids]
  /\ UNCHANGED <<slotVars, connVars, on, events, ctrl, stopVars, opens>>

BroadcastEnd(c) ==
  /\ pc[c] = "cast"
  /\ Goto(c, "idle")
  /\ holders' = holders \ {c}
  /\ view' = [view EXCEPT ![c] = {}]
  /\ taken' = [taken EXCEPT ![c] = {}]
  /\ UNCHANGED <<slotVars, connVars, on, events, ctrl, stopVars, opens>>

-----------------------------------------------------------------------------
(* The poller: wait_work, Epoll::work and Epoll::handle_input.               *)

PollerOnly == UNCHANGED <<slotVars, connVars, castVars, on, stopVars, opens>>

(* size is read under wait_mutex, which new_conn and remove do not hold.     *)
WaitCheck ==
  /\ pc[Poller] = "check"
  /\ Goto(Poller, IF ~listening /\ size = 0 THEN "predicate" ELSE "running")
  /\ PollerOnly /\ UNCHANGED <<events, ctrl>>

WaitPredicate ==
  /\ pc[Poller] = "predicate"
  /\ Goto(Poller, IF size > 0 \/ ~running THEN "running" ELSE "toSleep")
  /\ PollerOnly /\ UNCHANGED <<events, ctrl>>

FallAsleep ==
  /\ pc[Poller] = "toSleep"
  /\ Goto(Poller, "asleep")
  /\ PollerOnly /\ UNCHANGED <<events, ctrl>>

SpuriousWake ==
  /\ pc[Poller] = "asleep"
  /\ Goto(Poller, "predicate")
  /\ PollerOnly /\ UNCHANGED <<events, ctrl>>

RunningCheck ==
  /\ pc[Poller] = "running"
  /\ Goto(Poller, IF running THEN "poll" ELSE "ended")
  /\ PollerOnly /\ UNCHANGED <<events, ctrl>>

(* epoll_wait returns for a command, for some connections or for a peer that *)
(* connects; recv_ctrl_cmd empties the control socket.                       *)
Poll ==
  /\ pc[Poller] = "poll"
  /\ \E E \in SUBSET open :
       /\ E # {} \/ ctrl \/ listening
       /\ events' = E
  /\ ctrl' = FALSE
  /\ Goto(Poller, "handle")
  /\ PollerOnly

(* The socket of an event may have been closed since epoll_wait returned, or *)
(* have an error; otherwise the connection is given to the executor.         *)
HandleEvent(i) ==
  /\ pc[Poller] = "handle" /\ running /\ i \in events
  /\ events' = events \ {i}
  /\ \/ Goto(Poller, "removing") /\ on' = [on EXCEPT ![Poller] = i]
     \/ i \in open /\ UNCHANGED <<pc, on>>
  /\ UNCHANGED <<slotVars, connVars, castVars, ctrl, stopVars, opens>>

Handled ==
  /\ pc[Poller] = "handle"
  /\ events = {} \/ ~running
  /\ events' = {}
  /\ Goto(Poller, "check")
  /\ PollerOnly /\ UNCHANGED ctrl

-----------------------------------------------------------------------------
(* stop().                                                                   *)

StopFlag ==
  /\ spc = "none"
  /\ running' = FALSE /\ spc' = "notify"
  /\ UNCHANGED <<slotVars, connVars, castVars, pc, on, events, ctrl, listening, opens>>

StopNotify ==
  /\ spc = "notify"
  /\ spc' = "command"
  /\ Goto(Poller, Notified)
  /\ UNCHANGED <<slotVars, connVars, castVars, on, events, ctrl, running, listening,
                 opens>>

NoCommand == ctrl

StopCommand == TRUE

SendStop ==
  /\ spc = "command"
  /\ spc' = "join"
  /\ ctrl' = StopCommand
  /\ UNCHANGED <<slotVars, connVars, castVars, pc, on, events, running, listening, opens>>

StopJoin ==
  /\ spc = "join" /\ pc[Poller] = "ended"
  /\ spc' = "done"
  /\ UNCHANGED <<slotVars, connVars, castVars, pc, on, events, ctrl, running, listening,
                 opens>>

-----------------------------------------------------------------------------
PollerStep ==
  \/ WaitCheck \/ WaitPredicate \/ FallAsleep \/ RunningCheck \/ Handled
  \/ \E i \in Id : HandleEvent(i)

StopStep == StopNotify \/ SendStop \/ StopJoin

ConnStep(a) == OpenSucceeds(a) \/ OpenFails(a) \/ RemoveBy(a)

Next ==
  \/ \E a \in Actor : Open(a) \/ ConnStep(a)
  \/ \E i \in Id : \/ \E flag \in BOOLEAN : SetKeepAlive(i, flag)
                   \/ Reconnect(i) \/ WorkFails(i)
  \/ \E c \in Client : BroadcastBegin(c) \/ BroadcastEnd(c)
  \/ PollerStep \/ Poll \/ SpuriousWake
  \/ StopFlag \/ StopStep

Spec == Init /\ [][Next]_vars

(* Every thread goes on, and epoll_wait returns when there is a command;     *)
(* peers need not do anything.                                               *)
FairSpec ==
  /\ Spec
  /\ WF_vars(PollerStep) /\ WF_vars(ctrl /\ Poll) /\ WF_vars(StopStep)
  /\ \A a \in Actor : WF_vars(ConnStep(a))

-----------------------------------------------------------------------------
PollerPc == {"check", "predicate", "toSleep", "asleep", "running", "poll",
             "handle", "ended"}

TypeOK ==
  /\ maxId \in 0..MaxCount /\ size \in 0..MaxCount
  /\ freeIds \subseteq Id /\ ids \subseteq Id
  /\ open \subseteq Id /\ keepAlive \subseteq Id /\ events \subseteq Id
  /\ holders \subseteq Client
  /\ view \in [Client -> SUBSET Id] /\ taken \in [Client -> SUBSET Id]
  /\ pc \in [Actor -> {"idle", "opening", "removing", "cast"} \cup PollerPc]
  /\ on \in [Actor -> 0..MaxCount]
  /\ \A a \in Actor : pc[a] \in {"opening", "removing"} => on[a] \in 1..maxId
  /\ {ctrl, running, listening} \subseteq BOOLEAN
  /\ spc \in {"none", "notify", "command", "join", "done"}
  /\ opens \in Nat

(* Every slot that was ever used is either listed or free, whoever removes   *)
(* it and how often: no slot is lost, none is handed out twice, and a new    *)
(* connection is refused only when max_count are listed.                     *)
SlotsPartition ==
  /\ ids \cap freeIds = {}
  /\ ids \cup freeIds = 1..maxId
  /\ maxId <= MaxCount

(* The size that the poller goes by never exceeds the listed connections.    *)
SizeNotOver == size <= Cardinality(ids)

(* The set a broadcast goes through without the mutex does not change under  *)
(* it.                                                                       *)
SnapshotStable == \A c \in Client : view[c] = taken[c]

(* stop() joins a poller that its command has woken, and returns.            *)
StopReturns == spc = "notify" ~> spc = "done"

(* The same of a listener, whose poller is woken by the command.             *)
ListenerStops == listening /\ spc = "notify" ~> spc = "done"

(* "The valid ids": a connection whose socket is valid is listed.            *)
LiveIsListed == open \subseteq ids

(* What a call on a connected connection relies on: a poller that sleeps     *)
(* while there is a connection wakes up.                                     *)
PollerWakes ==
  (pc[Poller] = "asleep" /\ open # {}) ~> (pc[Poller] # "asleep" \/ open = {} \/ ~running)
=============================================================================
