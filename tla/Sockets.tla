------------------------------- MODULE Sockets ------------------------------
(***************************************************************************)
(* The descriptors of connections: socket::Basic (net/socket/basic.cc) and *)
(* the calls under it (net/socket/api.cc), Manager::accept and remove      *)
(* (net/connection/manager.cc), and the four pollers that watch them:      *)
(* Epoll, Iocp, Kqueue and Select (net/connection/*.cc).                   *)
(*                                                                         *)
(* The system hands out a free descriptor (which one depends on the rest   *)
(* of the process), forgets what epoll and kqueue watch when it is closed, *)
(* and keeps an error of the socket until somebody asks for it: SO_ERROR   *)
(* is cleared by reading it, and every call of valid() reads it.  The      *)
(* poller accepts, removes connections with an error and sets Input; the   *)
(* executor reads and removes connections whose work fails.  Balancing,    *)
(* output and packets are in ConnectionWork.                               *)
(***************************************************************************)
EXTENDS Naturals, Sequences, FiniteSets, FiniteSetsExt

CONSTANTS
  Kinds,        \* the pollers considered: "epoll", "iocp", "kqueue", "select"
  Conn,         \* the slots: 1..max_count
  Fd,           \* the descriptors the system has for them
  NoConn, NoFd, \* kInvalidId
  MaxConnects, MaxSends, MaxResets  \* bounds: what the peers do

Actor == {"poller", "executor"}
NoOne == "no one"

VARIABLES
  kind,      \* the poller of this manager
  sock,      \* conn -> the id of its socket
  opened,    \* the descriptors that are open
  data, eof, err,  \* those with unread bytes, with nothing more to come, with SO_ERROR
  interest,  \* fd -> the connection it is watched for (select: read_fds.full)
  edges,     \* the watched descriptors with news since the last epoll_wait
  use,       \* select: read_fds.use
  kset,      \* select: the descriptors the system call waits for
  events,    \* the connections in the events that are to be handled
  listen,    \* ... and whether the listening socket is one of them
  flag,      \* conn -> WorkFlag::Input
  queue,     \* the tasks of the executor
  freeIds,   \* connection_info.free_ids
  lock,      \* who holds the manager's mutex
  pc, on,    \* actor -> where it is and the connection it deals with
  fd,        \* the descriptor that the executor has read for recv
  failed,    \* conn->work() is to return false
  mixed,     \* recv took bytes of another connection
  backlog,   \* connections to accept
  connects, sends, resets  \* counters for the bounds

sockVars == <<sock, opened, interest>>
fileVars == <<data, eof, err, edges>>
pollVars == <<use, kset, events, listen>>
workVars == <<flag, queue>>
readVars == <<fd, failed, mixed>>
peerVars == <<backlog, connects, sends, resets>>
vars == <<kind, sockVars, fileVars, pollVars, workVars, freeIds, lock, pc, on, readVars,
          peerVars>>

Init ==
  /\ kind \in Kinds
  /\ sock = [c \in Conn |-> NoFd] /\ opened = {}
  /\ interest = [f \in Fd |-> NoConn]
  /\ data = {} /\ eof = {} /\ err = {} /\ edges = {}
  /\ use = {} /\ kset = {} /\ events = {} /\ listen = FALSE
  /\ flag = [c \in Conn |-> FALSE] /\ queue = <<>>
  /\ freeIds = Conn /\ lock = NoOne
  /\ pc = [a \in Actor |-> IF a = "poller" THEN "prepare" ELSE "idle"]
  /\ on = [a \in Actor |-> NoConn]
  /\ fd = NoFd /\ failed = FALSE /\ mixed = FALSE
  /\ backlog = 0 /\ connects = 0 /\ sends = 0 /\ resets = 0

Goto(a, l) == pc' = [pc EXCEPT ![a] = l]

-----------------------------------------------------------------------------
(* socket::Basic.                                                            *)

Valid(c) == sock[c] # NoFd /\ sock[c] \notin err

(* What asking for valid() or error() leaves of the pending errors.          *)
Asked(c) == err \ {sock[c]}

Readable(f) == f \in data \cup eof \cup err

(* close(): epoll and kqueue forget the descriptor, a fd_set does not.       *)
Closed(f) ==
  /\ opened' = opened \ {f}
  /\ data' = data \ {f} /\ eof' = eof \ {f} /\ edges' = edges \ {f}
  /\ interest' = IF kind = "select" THEN interest ELSE [interest EXCEPT ![f] = NoConn]

-----------------------------------------------------------------------------
(* Manager::remove of on[a], in three steps: the peer may go on between      *)
(* them.                                                                     *)

(* poll_delete: EPOLL_CTL_DEL, EV_DELETE.                                     *)
Unregistered(f) == [interest EXCEPT ![f] = NoConn]

(* sock_remove of each poller.                                               *)
EpollRemove(f) ==
  interest' = Unregistered(f) /\ edges' = edges \ {f} /\ UNCHANGED use

KqueueRemove(f) == interest' = Unregistered(f) /\ UNCHANGED <<edges, use>>

IocpRemove(f) == interest' = Unregistered(f) /\ UNCHANGED <<edges, use>>

SelectRemove(f) ==
  interest' = Unregistered(f) /\ use' = use \ {f} /\ UNCHANGED edges

MutantForgotten(f) == UNCHANGED <<interest, edges, use>>

Forgotten(f) ==
  CASE kind = "epoll" -> EpollRemove(f)
    [] kind = "kqueue" -> KqueueRemove(f)
    [] kind = "iocp" -> IocpRemove(f)
    [] kind = "select" -> SelectRemove(f)

Remove(a) ==
  /\ pc[a] = "remove" /\ lock = NoOne
  /\ lock' = a
  /\ IF Valid(on[a]) THEN Forgotten(sock[on[a]]) ELSE UNCHANGED <<interest, edges, use>>
  /\ err' = Asked(on[a])
  /\ Goto(a, "shutdown")
  /\ UNCHANGED <<kind, sock, opened, data, eof, kset, events, listen, workVars, freeIds, on,
                 readVars, peerVars>>

Shutdown(a) ==
  /\ pc[a] = "shutdown"
  /\ eof' = IF Valid(on[a]) THEN eof \cup {sock[on[a]]} ELSE eof
  /\ err' = Asked(on[a])
  /\ Goto(a, "close")
  /\ UNCHANGED <<kind, sockVars, data, edges, pollVars, workVars, freeIds, lock, on,
                 readVars, peerVars>>

(* Where a goes on: the poller with its events, the executor with its tasks. *)
Home(a) == IF a = "poller" THEN "handle" ELSE "idle"

MutantReleased(c) == sock

Released(c) == [sock EXCEPT ![c] = NoFd]

(* A socket that has an error by now is left to the init() of the slot.      *)
Close(a) ==
  LET c == on[a]
  IN  /\ pc[a] = "close"
      /\ IF Valid(c)
           THEN Closed(sock[c]) /\ sock' = Released(c)
           ELSE UNCHANGED <<sock, opened, interest, data, eof, edges>>
      /\ err' = Asked(c)
      /\ freeIds' = freeIds \cup {c}
      /\ lock' = NoOne
      /\ Goto(a, Home(a)) /\ on' = [on EXCEPT ![a] = NoConn]
      /\ UNCHANGED <<kind, pollVars, workVars, readVars, peerVars>>

-----------------------------------------------------------------------------
(* Manager::accept, by the poller.                                           *)

(* Every slot is taken: the connection is accepted and closed.               *)
Refuse ==
  /\ pc["poller"] = "accept" /\ lock = NoOne /\ freeIds = {}
  /\ backlog' = IF backlog > 0 /\ opened # Fd THEN backlog - 1 ELSE backlog
  /\ Goto("poller", "handle") /\ listen' = FALSE
  /\ UNCHANGED <<kind, sockVars, fileVars, use, kset, events, workVars, freeIds, lock, on,
                 readVars, connects, sends, resets>>

(* new_conn, with Basic::init.                                               *)
NewConn ==
  LET c == Min(freeIds)
  IN  /\ pc["poller"] = "accept" /\ lock = NoOne /\ freeIds # {}
      /\ freeIds' = freeIds \ {c}
      /\ IF sock[c] # NoFd
           THEN Closed(sock[c]) /\ sock' = [sock EXCEPT ![c] = NoFd] /\ err' = Asked(c)
           ELSE UNCHANGED <<sockVars, fileVars>>
      /\ flag' = [flag EXCEPT ![c] = FALSE]
      /\ on' = [on EXCEPT !["poller"] = c]
      /\ Goto("poller", "take")
      /\ UNCHANGED <<kind, pollVars, queue, lock, readVars, peerVars>>

(* listen_sock_->accept(conn->socket()).                                     *)
AcceptSock ==
  /\ pc["poller"] = "take"
  /\ IF backlog > 0 /\ opened # Fd
       THEN /\ \E f \in Fd \ opened : /\ sock' = [sock EXCEPT ![on["poller"]] = f]
                                      /\ opened' = opened \cup {f}
            /\ backlog' = backlog - 1
            /\ Goto("poller", "check") /\ UNCHANGED listen
       ELSE /\ Goto("poller", "remove") /\ listen' = FALSE
            /\ UNCHANGED <<sock, opened, backlog>>
  /\ UNCHANGED <<kind, interest, fileVars, use, kset, events, workVars, freeIds, lock, on,
                 readVars, connects, sends, resets>>

(* poll_add: EPOLL_CTL_ADD, EV_ADD; the event is to carry the connection.    *)
Registered(f, c) == [interest EXCEPT ![f] = c]

(* sock_add of each poller.  Connections are edge-triggered in Epoll only.   *)
EpollAdd(f, c) ==
  /\ interest' = Registered(f, c)
  /\ edges' = IF Readable(f) THEN edges \cup {f} ELSE edges

KqueueAdd(f, c) == interest' = Registered(f, c) /\ UNCHANGED edges

IocpAdd(f, c) == interest' = Registered(f, c) /\ UNCHANGED edges

SelectAdd(f, c) == interest' = Registered(f, c) /\ UNCHANGED edges

Watch(f, c) ==
  CASE kind = "epoll" -> EpollAdd(f, c)
    [] kind = "kqueue" -> KqueueAdd(f, c)
    [] kind = "iocp" -> IocpAdd(f, c)
    [] kind = "select" -> SelectAdd(f, c)

(* The system refuses: poll_add of Kqueue takes back what it has added,      *)
(* poll_enable does not; a fd_set refuses nothing.                           *)
WatchFails(f, c) ==
  /\ kind # "select"
  /\ interest' \in IF kind = "kqueue" THEN {interest, Registered(f, c)} ELSE {interest}

(* set_nonblocking, error() and set_linger; sock_add unless one of them      *)
(* fails, and conn->on_connect.                                              *)
SockAdd ==
  LET c == on["poller"]
      f == sock[c]
  IN  /\ pc["poller"] = "check"
      /\ err' = Asked(c)
      /\ \/ /\ Valid(c) /\ Watch(f, c)
            /\ Goto("poller", "handle") /\ on' = [on EXCEPT !["poller"] = NoConn]
            /\ UNCHANGED listen
         \/ /\ IF Valid(c) THEN WatchFails(f, c) ELSE UNCHANGED interest
            /\ Goto("poller", "remove") /\ listen' = FALSE
            /\ UNCHANGED <<edges, on>>
      /\ UNCHANGED <<kind, sock, opened, data, eof, use, kset, events, workVars, freeIds,
                     lock, readVars, peerVars>>

-----------------------------------------------------------------------------
(* The pollers.                                                              *)

(* Basic::enqueue_work(WorkFlag::Input) and Manager::enqueue.                *)
EnqueueWork(c) ==
  /\ flag' = [flag EXCEPT ![c] = TRUE]
  /\ queue' = IF flag[c] THEN queue ELSE Append(queue, c)

(* prepare() makes the poller and adds the listening socket, or start()      *)
(* fails.                                                                    *)
Prepare ==
  /\ pc["poller"] = "prepare"
  /\ \/ Goto("poller", "wait")
     \/ kind # "select" /\ Goto("poller", "refused")
  /\ UNCHANGED <<kind, sockVars, fileVars, pollVars, workVars, freeIds, lock, on, readVars,
                 peerVars>>

Watched == {f \in Fd : interest[f] # NoConn}

(* epoll_wait and kevent.                                                    *)
Ready == IF kind = "epoll" THEN edges ELSE {f \in Watched : Readable(f)}

PollWait ==
  /\ kind # "select" /\ pc["poller"] = "wait"
  /\ Ready # {} \/ backlog > 0
  /\ events' = {interest[f] : f \in Ready}
  /\ listen' = (backlog > 0)
  /\ edges' = {}
  /\ Goto("poller", "handle")
  /\ UNCHANGED <<kind, sockVars, data, eof, err, use, kset, workVars, freeIds, lock, on,
                 readVars, peerVars>>

(* handle_input takes the listening socket: one accept of each event.        *)
HandleListen ==
  /\ pc["poller"] = "handle" /\ listen
  /\ listen' = (kind = "select")
  /\ Goto("poller", "accept")
  /\ UNCHANGED <<kind, sockVars, fileVars, use, kset, events, workVars, freeIds, lock, on,
                 readVars, peerVars>>

EventFails(c) == ~Valid(c)

(* handle_input for an event: get_conn and conn->socket()->error().  It may  *)
(* be of a connection removed since.                                         *)
HandleEvent(c) ==
  /\ kind # "select" /\ pc["poller"] = "handle" /\ c \in events /\ lock = NoOne
  /\ events' = events \ {c}
  /\ err' = Asked(c)
  /\ IF EventFails(c)
       THEN /\ Goto("poller", "remove") /\ on' = [on EXCEPT !["poller"] = c]
            /\ UNCHANGED workVars
       ELSE EnqueueWork(c) /\ UNCHANGED <<pc, on>>
  /\ UNCHANGED <<kind, sockVars, data, eof, edges, use, kset, listen, freeIds, lock,
                 readVars, peerVars>>

HandleDone ==
  /\ pc["poller"] = "handle" /\ ~listen
  /\ IF kind = "select"
       THEN pc' = [pc EXCEPT !["poller"] = "foreach"] /\ events' = Conn \ freeIds
       ELSE events = {} /\ Goto("poller", "wait") /\ UNCHANGED events
  /\ UNCHANGED <<kind, sockVars, fileVars, use, kset, listen, workVars, freeIds, lock, on,
                 readVars, peerVars>>

(* Select::Impl::select copies the set ...                                   *)
SelectCopy ==
  /\ kind = "select" /\ pc["poller"] = "wait"
  /\ use' = Watched
  /\ Goto("poller", "copied")
  /\ UNCHANGED <<kind, sockVars, fileVars, kset, events, listen, workVars, freeIds, lock, on,
                 readVars, peerVars>>

(* ... the system call takes it, and fails for a descriptor that is closed:  *)
(* work() is then false and the thread ends ...                              *)
SelectEnter ==
  /\ pc["poller"] = "copied"
  /\ kset' = use
  /\ Goto("poller", IF use \subseteq opened THEN "select" ELSE "exited")
  /\ UNCHANGED <<kind, sockVars, fileVars, use, events, listen, workVars, freeIds, lock, on,
                 readVars, peerVars>>

(* ... and returns what became ready, or was closed meanwhile.               *)
SelectReturn ==
  LET ready == {f \in kset : Readable(f) \/ f \notin opened}
  IN  /\ pc["poller"] = "select"
      /\ ready # {} \/ backlog > 0
      /\ use' = ready /\ kset' = {}
      /\ listen' = (backlog > 0)
      /\ Goto("poller", "handle")
      /\ UNCHANGED <<kind, sockVars, fileVars, events, workVars, freeIds, lock, on, readVars,
                     peerVars>>

(* The foreach of handle_io.                                                 *)
HandleIo(c) ==
  /\ pc["poller"] = "foreach" /\ c \in events /\ lock = NoOne
  /\ events' = events \ {c}
  /\ err' = Asked(c)
  /\ IF Valid(c) /\ sock[c] \in use THEN EnqueueWork(c) ELSE UNCHANGED workVars
  /\ UNCHANGED <<kind, sockVars, data, eof, edges, use, kset, listen, freeIds, lock, pc, on,
                 readVars, peerVars>>

HandleIoDone ==
  /\ pc["poller"] = "foreach" /\ events = {}
  /\ Goto("poller", "wait")
  /\ UNCHANGED <<kind, sockVars, fileVars, pollVars, workVars, freeIds, lock, on, readVars,
                 peerVars>>

-----------------------------------------------------------------------------
(* The executor: Manager::Impl::work and process_input.                      *)

TakeTask ==
  LET c == Head(queue)
  IN  /\ pc["executor"] = "idle" /\ queue # <<>>
      /\ queue' = Tail(queue)
      /\ err' = Asked(c)
      /\ IF Valid(c)
           THEN Goto("executor", "input") /\ on' = [on EXCEPT !["executor"] = c]
           ELSE UNCHANGED <<pc, on>>
      /\ failed' = FALSE
      /\ UNCHANGED <<kind, sockVars, data, eof, edges, pollVars, flag, freeIds, lock, fd,
                     mixed, peerVars>>

(* Up to the descriptor that recv is called with.                            *)
ProcessInput ==
  LET c == on["executor"]
  IN  /\ pc["executor"] = "input"
      /\ err' = IF flag[c] THEN Asked(c) ELSE err
      /\ failed' = (flag[c] /\ ~Valid(c))
      /\ fd' = sock[c]
      /\ Goto("executor", CASE ~flag[c] -> "idleCheck"
                            [] flag[c] /\ Valid(c) -> "recv"
                            [] OTHER -> "avail")
      /\ UNCHANGED <<kind, sockVars, data, eof, edges, pollVars, workVars, freeIds, lock, on,
                     mixed, peerVars>>

Recv ==
  /\ pc["executor"] = "recv"
  /\ failed' = (fd \notin data /\ (fd \in eof \cup err \/ fd \notin opened))
  /\ data' = data \ {fd}
  /\ err' = IF fd \in data THEN err ELSE err \ {fd}
  /\ mixed' = (mixed \/ (fd \in data /\ sock[on["executor"]] # fd))
  /\ fd' = NoFd
  /\ Goto("executor", "avail")
  /\ UNCHANGED <<kind, sockVars, eof, edges, pollVars, workVars, freeIds, lock, on,
                 peerVars>>

(* check_flag asks for socket->avail() ...                                   *)
Avail ==
  LET c == on["executor"]
  IN  /\ pc["executor"] = "avail"
      /\ err' = Asked(c)
      /\ Goto("executor", IF ~Valid(c) \/ sock[c] \notin data THEN "clear"
                          ELSE IF failed THEN "remove" ELSE "idleCheck")
      /\ UNCHANGED <<kind, sockVars, data, eof, edges, pollVars, workVars, freeIds, lock, on,
                     readVars, peerVars>>

(* ... and clears the flag.                                                  *)
ClearFlag ==
  /\ pc["executor"] = "clear"
  /\ flag' = [flag EXCEPT ![on["executor"]] = FALSE]
  /\ Goto("executor", IF failed THEN "remove" ELSE "idleCheck")
  /\ UNCHANGED <<kind, sockVars, fileVars, pollVars, queue, freeIds, lock, on, readVars,
                 peerVars>>

MutantAgain(c) == FALSE

(* conn->idle() is false.                                                    *)
Again(c) == Valid(c) /\ flag[c]

IdleCheck ==
  LET c == on["executor"]
  IN  /\ pc["executor"] = "idleCheck" /\ lock = NoOne
      /\ queue' = IF Again(c) THEN Append(queue, c) ELSE queue
      /\ err' = Asked(c)
      /\ Goto("executor", "idle") /\ on' = [on EXCEPT !["executor"] = NoConn]
      /\ UNCHANGED <<kind, sockVars, data, eof, edges, pollVars, flag, freeIds, lock,
                     readVars, peerVars>>

-----------------------------------------------------------------------------
(* The peers.                                                                *)

News(f) ==
  edges' = IF kind = "epoll" /\ interest[f] # NoConn THEN edges \cup {f} ELSE edges

PeerConnects ==
  /\ connects < MaxConnects
  /\ connects' = connects + 1 /\ backlog' = backlog + 1
  /\ UNCHANGED <<kind, sockVars, fileVars, pollVars, workVars, freeIds, lock, pc, on,
                 readVars, sends, resets>>

PeerSends(f) ==
  /\ f \in opened \ eof /\ sends < MaxSends
  /\ sends' = sends + 1
  /\ data' = data \cup {f} /\ News(f)
  /\ UNCHANGED <<kind, sockVars, eof, err, pollVars, workVars, freeIds, lock, pc, on,
                 readVars, backlog, connects, resets>>

PeerCloses(f) ==
  /\ f \in opened \ eof
  /\ eof' = eof \cup {f} /\ News(f)
  /\ UNCHANGED <<kind, sockVars, data, err, pollVars, workVars, freeIds, lock, pc, on,
                 readVars, peerVars>>

PeerResets(f) ==
  /\ f \in opened \ err /\ resets < MaxResets
  /\ resets' = resets + 1
  /\ eof' = eof \cup {f} /\ err' = err \cup {f} /\ data' = data \ {f} /\ News(f)
  /\ UNCHANGED <<kind, sockVars, pollVars, workVars, freeIds, lock, pc, on, readVars,
                 backlog, connects, sends>>

-----------------------------------------------------------------------------
Removing(a) == Remove(a) \/ Shutdown(a) \/ Close(a)

PollerStep ==
  \/ Removing("poller")
  \/ Prepare \/ Refuse \/ NewConn \/ AcceptSock \/ SockAdd
  \/ PollWait \/ HandleListen \/ HandleDone
  \/ SelectCopy \/ SelectEnter \/ SelectReturn \/ HandleIoDone
  \/ \E c \in Conn : HandleEvent(c) \/ HandleIo(c)

ExecutorStep ==
  \/ Removing("executor")
  \/ TakeTask \/ ProcessInput \/ Recv \/ Avail \/ ClearFlag \/ IdleCheck

PeerStep == PeerConnects \/ \E f \in Fd : PeerSends(f) \/ PeerCloses(f) \/ PeerResets(f)

Next == PollerStep \/ ExecutorStep \/ PeerStep

Spec == Init /\ [][Next]_vars

(* The two threads run; the peers need not do anything.                      *)
FairSpec == Spec /\ WF_vars(PollerStep) /\ WF_vars(ExecutorStep)

-----------------------------------------------------------------------------
(* No two connections ever hold one descriptor, what a connection holds is   *)
(* open, and no descriptor is left open that no connection holds: close and  *)
(* set_id never lose an id and never close an id twice.  And what epoll or   *)
(* kqueue watches for a connection is the descriptor which that connection   *)
(* holds, however removals, stale events and reused descriptors interleave.  *)
DescriptorsOwned ==
  /\ \A c, d \in Conn : c # d /\ sock[c] # NoFd => sock[c] # sock[d]
  /\ opened = {sock[c] : c \in Conn} \ {NoFd}
  /\ kind # "select" => \A f \in Watched : sock[interest[f]] = f

(* The thread of the poller does not end while the manager runs, as long as  *)
(* no peer resets a connection: select never meets a closed descriptor.      *)
PollerSurvives == resets = 0 => pc["poller"] # "exited"

(* A level-triggered poller gets a connection removed whose peer has closed, *)
(* even if the event and the clearing of the flag cross.                     *)
PeerCloseNoticed ==
  \A c \in Conn :
    (kind # "epoll" /\ sock[c] \in eof) ~> (sock[c] \notin eof \/ resets > 0)

-----------------------------------------------------------------------------
(* What the code does not ensure; each has a configuration that shows it.    *)

(* The thread of select ends after a reset: remove does not take a socket    *)
(* with an error out of the set before it closes it.                         *)
PollerNeverExits == pc["poller"] # "exited"

(* A reset connection is not always removed: work() reads the error away.    *)
ResetNoticed == \A c \in Conn : [](sock[c] \in err => <>(sock[c] \notin eof))

(* recv may be given a descriptor that is another connection's by now.       *)
ReadsOwn == ~mixed
=============================================================================
