----------------------------- MODULE WepollPort -----------------------------
(***************************************************************************)
(* The epoll port of the bundled wepoll library                            *)
(* (src/framework/core/src/net/wepoll/wepoll.c), through which the iocp    *)
(* connection manager waits for its sockets.  A port keeps one sock_state  *)
(* per registered socket and at most one AFD poll operation per            *)
(* sock_state; completions come back through an i/o completion port, and   *)
(* may do so after the socket was modified, deleted, or closed.            *)
(*                                                                         *)
(* port is the port_state_t.  Every function of the library that takes a   *)
(* port_state_t* is an operator from port to port; each step of Next is    *)
(* one critical section of port_state->lock, or one step of the kernel.    *)
(* Events are sets of flag names.                                          *)
(***************************************************************************)
EXTENDS Integers, Sequences, FiniteSets, SequencesExt

CONSTANTS
  Waiters,          \* threads calling epoll_wait in a loop
  Callers,          \* threads calling epoll_ctl
  Sockets,          \* SOCKET values
  Socks,            \* sock_state_t objects malloc can return
  Wants,            \* the event masks the callers use
  Conditions,       \* the AFD events the environment raises on a socket
  MaxGroupSize,     \* POLL_GROUP__MAX_GROUP_SIZE
  MaxEvents,        \* maxevents of epoll_wait
  MaxCtl,           \* bound: epoll_ctl calls that add or modify
  MaxChanges,       \* bound: changes of a socket's condition
  MayFail,          \* afd_poll may fail with an unexpected error
  Null

VARIABLES
  port,       \* port_state_t
  ready,      \* socket -> AFD conditions that hold now (the kernel's view)
  pc,         \* where each thread is
  entries,    \* iocp_events of each thread: completions dequeued, not yet fed
  reported,   \* sockets reported by the last port__feed_events
  failed,     \* an afd_poll failed unexpectedly
  aborted,    \* an assertion of the library failed
  ctls, changes

vars == <<port, ready, pc, entries, reported, failed, aborted, ctls, changes>>

Agents == Waiters \cup Callers

-----------------------------------------------------------------------------
(* Event masks *)

Known == {"IN", "PRI", "OUT", "ERR", "HUP", "RDNORM", "RDBAND", "WRNORM",
          "WRBAND", "MSG", "RDHUP"}

AskedBy == [RECEIVE |-> {"IN", "RDNORM"}, ACCEPT |-> {"IN", "RDNORM"},
            RECEIVE_EXPEDITED |-> {"PRI", "RDBAND"},
            SEND |-> {"OUT", "WRNORM", "WRBAND"},
            DISCONNECT |-> {"IN", "RDNORM", "RDHUP"},
            ABORT |-> {"HUP"}, CONNECT_FAIL |-> {"ERR"}]

MutantEpollToAfd(e) ==
  {a \in DOMAIN AskedBy : a # "ABORT" /\ e \cap AskedBy[a] # {}}
    \cup {"LOCAL_CLOSE"}

EpollToAfd(e) == {a \in DOMAIN AskedBy : e \cap AskedBy[a] # {}}
                   \cup {"LOCAL_CLOSE"}

Reports == [RECEIVE |-> {"IN", "RDNORM"}, ACCEPT |-> {"IN", "RDNORM"},
            RECEIVE_EXPEDITED |-> {"PRI", "RDBAND"},
            SEND |-> {"OUT", "WRNORM", "WRBAND"},
            DISCONNECT |-> {"IN", "RDNORM", "RDHUP"}, ABORT |-> {"HUP"},
            CONNECT_FAIL |-> {"IN", "OUT", "ERR", "RDNORM", "WRNORM", "RDHUP"}]

AfdToEpoll(a) == UNION {Reports[x] : x \in a \cap DOMAIN Reports}

-----------------------------------------------------------------------------
(* Poll groups: the queue of AFD device handles, full groups first *)

GroupIndex(p, g) == CHOOSE i \in DOMAIN p.groups : p.groups[i].id = g

Enlarged(p, g, n) == [p.groups EXCEPT ![GroupIndex(p, g)].size = @ + n]

MoveToEnd(q, x) == Append(Remove(q, x), x)
MoveToStart(q, x) == <<x>> \o Remove(q, x)

NewGroupNeeded(p) == p.groups = <<>> \/ Last(p.groups).size >= MaxGroupSize

\* poll_group_acquire: the port with one more member in its last group, which
\* a full queue tail makes a new one; the group is Last, or First once full.
Acquired(p) ==
  LET q    == IF NewGroupNeeded(p)
                THEN Append(p.groups, [id |-> Len(p.groups) + 1, size |-> 0])
                ELSE p.groups
      g    == Last(q).id
      more == [q EXCEPT ![Len(q)].size = @ + 1]
  IN  [group |-> g,
       port  |-> [p EXCEPT !.groups =
                    IF Last(more).size = MaxGroupSize
                      THEN MoveToStart(more, Last(more)) ELSE more]]

MutantReleased(p, g) == [p EXCEPT !.groups = Enlarged(p, g, -1)]

Released(p, g) ==
  LET q == Enlarged(p, g, -1)
  IN  [p EXCEPT !.groups = MoveToEnd(q, q[GroupIndex(p, g)])]

-----------------------------------------------------------------------------
(* Sockets of the port *)

Free == [live |-> FALSE, socket |-> Null, group |-> 0, user_events |-> {},
         pending_events |-> {}, poll_status |-> "IDLE", delete_pending |-> FALSE,
         status |-> "none", events |-> {}]

Enqueued(p, o) == Contains(p.update, o) \/ Contains(p.deleted, o)

RequestUpdate(p, o) ==
  IF Enqueued(p, o) THEN p ELSE [p EXCEPT !.update = Append(@, o)]
CancelUpdate(p, o) ==
  [p EXCEPT !.update = Remove(@, o), !.deleted = Remove(@, o)]
AddDeleted(p, o) ==
  IF Enqueued(p, o) THEN p ELSE [p EXCEPT !.deleted = Append(@, o)]

\* sock__cancel_poll: whether the kernel still cancels the poll or it has
\* already completed, its completion packet is still to come.
CancelPoll(p, o) == [p EXCEPT !.sock[o].poll_status = "CANCELLED",
                              !.sock[o].pending_events = {}]

MutantMustWait(p, o) == FALSE

\* the poll request still needs to complete: free() has to wait for it
MustWait(p, o) == p.sock[o].poll_status # "IDLE"

Detached(p, o) ==
  IF p.sock[o].delete_pending THEN p
  ELSE LET c == IF p.sock[o].poll_status = "PENDING" THEN CancelPoll(p, o) ELSE p
           u == CancelUpdate(c, o)
       IN  [u EXCEPT !.tree[p.sock[o].socket] = Null,
                     !.sock[o].delete_pending = TRUE]

\* sock__delete(port_state, sock_state, force)
Delete(p, o, force) ==
  LET d == Detached(p, o)
  IN  IF force \/ ~MustWait(d, o)
        THEN [Released(CancelUpdate(d, o), d.sock[o].group)
                EXCEPT !.sock[o] = Free]
        ELSE AddDeleted(d, o)

MutantUncovered(p, o, events) == p.sock[o].poll_status = "IDLE"

\* events the user wants that the pending poll does not monitor
Uncovered(p, o, events) == (events \cap Known) \ p.sock[o].pending_events # {}

\* sock_set_event(ev)
SetEvent(p, o, want) ==
  LET events == want \cup {"ERR", "HUP"}
      q      == [p EXCEPT !.sock[o].user_events = events]
  IN  IF Uncovered(p, o, events) THEN RequestUpdate(q, o) ELSE q

\* sock_update: result ok = FALSE when afd_poll fails unexpectedly
Update(p, o, fails) ==
  LET s == p.sock[o]
  IN  CASE s.poll_status = "PENDING" /\ ~Uncovered(p, o, s.user_events) ->
             [ok |-> TRUE, port |-> CancelUpdate(p, o)]
        [] s.poll_status = "PENDING" /\ Uncovered(p, o, s.user_events) ->
             [ok |-> TRUE, port |-> CancelUpdate(CancelPoll(p, o), o)]
        [] s.poll_status = "CANCELLED" ->
             [ok |-> TRUE, port |-> CancelUpdate(p, o)]
        [] s.poll_status = "IDLE" /\ "LOCAL_CLOSE" \in ready[s.socket] ->
             [ok |-> TRUE, port |-> Delete(p, o, FALSE)]
        [] s.poll_status = "IDLE" /\ fails -> [ok |-> FALSE, port |-> p]
        [] OTHER ->
             [ok |-> TRUE,
              port |-> CancelUpdate(
                [p EXCEPT !.sock[o].poll_status = "PENDING",
                          !.sock[o].pending_events = s.user_events,
                          !.sock[o].status = "PENDING",
                          !.sock[o].events = EpollToAfd(s.user_events)], o)]

\* port__update_events: the walk of the update queue ends at the first error
UpdateEvents(p, fails) ==
  FoldLeft(LAMBDA r, o : IF r.ok THEN Update(r.port, o, fails) ELSE r,
           [ok |-> TRUE, port |-> p], p.update)

MutantUpdateIfPolling(p, fails) == [ok |-> TRUE, port |-> p]

\* port__update_events_if_polling: the error, if any, is dropped
UpdateIfPolling(p, fails) ==
  IF p.active > 0 THEN UpdateEvents(p, fails) ELSE [ok |-> TRUE, port |-> p]

\* sock_feed_event: the completion of o's poll
Feed(r, o) ==
  LET p    == r.port
      s    == p.sock[o]
      idle == [p EXCEPT !.sock[o].poll_status = "IDLE",
                        !.sock[o].pending_events = {}]
      raw  == CASE s.status = "CANCELLED" -> {}
                [] s.status = "FAILED"    -> {"ERR"}
                [] OTHER                  -> AfdToEpoll(s.events)
      evs  == raw \cap s.user_events
      next == RequestUpdate(idle, o)
  IN  IF s.delete_pending \/ (s.status = "SUCCESS" /\ "LOCAL_CLOSE" \in s.events)
        THEN [r EXCEPT !.port = Delete(idle, o, FALSE)]
      ELSE IF evs = {} THEN [r EXCEPT !.port = next]
      ELSE [port |-> IF "ONESHOT" \in s.user_events
                       THEN [next EXCEPT !.sock[o].user_events = {}] ELSE next,
            got  |-> r.got \cup {s.socket}]

FeedEvents(p, es) == FoldLeft(Feed, [port |-> p, got |-> {}], es)

-----------------------------------------------------------------------------
Init ==
  /\ port = [tree |-> [s \in Sockets |-> Null], sock |-> [o \in Socks |-> Free],
             update |-> <<>>, deleted |-> <<>>, groups |-> <<>>, active |-> 0,
             open |-> TRUE, iocp |-> <<>>]
  /\ ready = [s \in Sockets |-> {}]
  /\ pc = [t \in Agents |-> "idle"]
  /\ entries = [t \in Agents |-> <<>>]
  /\ reported = {} /\ failed = FALSE /\ aborted = FALSE
  /\ ctls = 0 /\ changes = 0

\* what the last critical section of a call leaves behind
Leave(r) == port' = r.port /\ failed' = (failed \/ ~r.ok)

\* port__ctl_add: sock_new, sock_set_event, update
CtlAdd(s, want) ==
  /\ ctls < MaxCtl /\ ctls' = ctls + 1
  /\ LET a == Acquired(port)
     IN  IF "LOCAL_CLOSE" \in ready[s] THEN UNCHANGED <<port, failed, aborted>>
         ELSE IF NewGroupNeeded(port) /\ ~port.open
           THEN aborted' = TRUE /\ UNCHANGED <<port, failed>>
         ELSE IF port.tree[s] # Null \/ \A o \in Socks : port.sock[o].live
           THEN /\ port' = Released(a.port, a.group)
                /\ UNCHANGED <<failed, aborted>>
         ELSE \E o \in {x \in Socks : ~port.sock[x].live}, fails \in MayFail :
                /\ Leave(UpdateIfPolling(
                     SetEvent([a.port EXCEPT
                                !.tree[s] = o,
                                !.sock[o] = [Free EXCEPT !.live = TRUE,
                                               !.socket = s, !.group = a.group]],
                              o, want), fails))
                /\ UNCHANGED aborted

\* port__ctl_mod
CtlMod(s, want) ==
  /\ ctls < MaxCtl /\ ctls' = ctls + 1
  /\ IF port.tree[s] = Null THEN UNCHANGED <<port, failed>>
     ELSE \E fails \in MayFail :
            Leave(UpdateIfPolling(SetEvent(port, port.tree[s], want), fails))
  /\ UNCHANGED aborted

\* port__ctl_del
CtlDel(s) ==
  /\ port.tree[s] # Null
  /\ port' = Delete(port, port.tree[s], FALSE)
  /\ UNCHANGED <<failed, aborted, ctls>>

\* port_ctl by a thread that took its reference while the port was open
PortCtl(t) ==
  /\ pc[t] = "ctl" /\ pc' = [pc EXCEPT ![t] = "idle"]
  /\ \E s \in Sockets :
       \/ \E want \in Wants : CtlAdd(s, want) \/ CtlMod(s, want)
       \/ CtlDel(s)
  /\ UNCHANGED <<ready, entries, reported, changes>>

\* epoll_ctl and epoll_wait: ts_tree_find_and_ref
Enter(t) ==
  /\ pc[t] = "idle" /\ port.open
  /\ pc' = [pc EXCEPT ![t] = IF t \in Waiters THEN "wait" ELSE "ctl"]
  /\ UNCHANGED <<port, ready, entries, reported, failed, aborted, ctls, changes>>

\* epoll_ctl that finds nothing to do (EPOLL_CTL_DEL of an unknown socket, an
\* unknown op)
CtlNothing(t) ==
  /\ pc[t] = "ctl" /\ pc' = [pc EXCEPT ![t] = "idle"]
  /\ UNCHANGED <<port, ready, entries, reported, failed, aborted, ctls, changes>>

\* port__poll up to LeaveCriticalSection, from port p; -1 when an update fails
Polling(t, p) ==
  \E fails \in MayFail :
    LET r == UpdateEvents(p, fails)
        q == IF r.ok THEN [r.port EXCEPT !.active = @ + 1]
             ELSE UpdateIfPolling(r.port, fails).port
    IN  /\ port' = q /\ failed' = (failed \/ ~r.ok)
        /\ pc' = [pc EXCEPT ![t] = IF r.ok THEN "gqcs" ELSE "idle"]

PortPoll(t) ==
  /\ pc[t] = "wait" /\ Polling(t, port)
  /\ UNCHANGED <<ready, entries, reported, aborted, ctls, changes>>

\* GetQueuedCompletionStatusEx returns completions, outside the lock
Dequeue(t) ==
  /\ pc[t] = "gqcs" /\ port.open /\ port.iocp # <<>>
  /\ LET n == IF Len(port.iocp) < MaxEvents THEN Len(port.iocp) ELSE MaxEvents
     IN  /\ entries' = [entries EXCEPT ![t] = SubSeq(port.iocp, 1, n)]
         /\ port' = [port EXCEPT !.iocp = SubSeq(@, n + 1, Len(@))]
  /\ pc' = [pc EXCEPT ![t] = "feed"]
  /\ UNCHANGED <<ready, reported, failed, aborted, ctls, changes>>

\* it times out with nothing queued, or the port was closed under it
TimeOut(t) ==
  /\ pc[t] = "gqcs" /\ (port.iocp = <<>> \/ ~port.open)
  /\ pc' = [pc EXCEPT ![t] = "late"]
  /\ UNCHANGED <<port, ready, entries, reported, failed, aborted, ctls, changes>>

\* the lock is taken again: port__poll fails and port_wait returns
WaitFails(t) ==
  /\ pc[t] = "late"
  /\ \E fails \in MayFail :
       Leave(UpdateIfPolling([port EXCEPT !.active = @ - 1], fails))
  /\ pc' = [pc EXCEPT ![t] = "idle"]
  /\ UNCHANGED <<ready, entries, reported, aborted, ctls, changes>>

\* the lock is taken again: port__feed_events; with an event to report, or past
\* the due time, port_wait returns, else it polls again under the same lock
FeedAll(t) ==
  /\ pc[t] = "feed"
  /\ LET r == FeedEvents([port EXCEPT !.active = @ - 1], entries[t])
     IN  /\ reported' = r.got
         /\ \/ \E fails \in MayFail : Leave(UpdateIfPolling(r.port, fails))
               /\ pc' = [pc EXCEPT ![t] = "idle"]
            \/ r.got = {} /\ Polling(t, r.port)
  /\ entries' = [entries EXCEPT ![t] = <<>>]
  /\ UNCHANGED <<ready, aborted, ctls, changes>>

\* epoll_close: the handle leaves the tree, port_close closes the iocp handle
PortClose ==
  /\ port.open
  /\ port' = [port EXCEPT !.open = FALSE, !.iocp = <<>>]
  /\ UNCHANGED <<ready, pc, entries, reported, failed, aborted, ctls, changes>>

MutantDrained(p) ==
  FoldLeft(LAMBDA q, o : Delete(q, o, TRUE), p, p.deleted)

\* port_delete: force-delete the registered, then the deleted sockets
Drained(p) ==
  LET registered == SetToSeq({p.tree[s] : s \in Sockets} \ {Null})
      q == FoldLeft(LAMBDA r, o : Delete(r, o, TRUE), p, registered)
  IN  FoldLeft(LAMBDA r, o : Delete(r, o, TRUE), q, q.deleted)

\* reflock_unref_and_destroy has waited for every other caller
PortDelete ==
  /\ ~port.open /\ \A t \in Agents : pc[t] = "idle"
  /\ port.active # -1
  /\ LET p == Drained(port)
     IN  /\ port' = [p EXCEPT !.active = -1, !.groups = <<>>]
         /\ aborted' = (aborted \/ p.update # <<>>
                         \/ \E i \in DOMAIN p.groups : p.groups[i].size # 0)
  /\ UNCHANGED <<ready, pc, entries, reported, failed, ctls, changes>>

-----------------------------------------------------------------------------
(* The kernel (external): AFD completes a poll when a condition it asks for
   holds or when it was cancelled, and posts a packet to the completion port. *)

Complete(p, o, st, evs) ==
  [p EXCEPT !.sock[o].status = st, !.sock[o].events = evs,
            !.iocp = IF p.open THEN Append(@, o) ELSE @]

AfdComplete(o) ==
  LET s == port.sock[o]
  IN  /\ s.live /\ s.status = "PENDING" /\ port.open
      /\ \/ /\ s.events \cap ready[s.socket] # {}
            /\ port' = Complete(port, o, "SUCCESS", s.events \cap ready[s.socket])
         \/ s.poll_status = "CANCELLED" /\ port' = Complete(port, o, "CANCELLED", {})
         \/ TRUE \in MayFail /\ port' = Complete(port, o, "FAILED", {})
  /\ UNCHANGED <<ready, pc, entries, reported, failed, aborted, ctls, changes>>

\* a condition of a socket rises or falls; closesocket completes its polls
Environment(s) ==
  /\ changes < MaxChanges /\ changes' = changes + 1
  /\ \/ /\ \E c \in Conditions :
             ready' = [ready EXCEPT ![s] = IF c \in @ THEN @ \ {c} ELSE @ \cup {c}]
        /\ "LOCAL_CLOSE" \notin ready[s]
        /\ UNCHANGED port
     \/ /\ ready' = [ready EXCEPT ![s] = {"LOCAL_CLOSE"}]
        /\ port' = FoldLeft(
             LAMBDA p, o : Complete(p, o, "SUCCESS", {"LOCAL_CLOSE"}), port,
             SetToSeq({o \in Socks : port.sock[o].live /\ port.sock[o].socket = s
                                     /\ port.sock[o].status = "PENDING"}))
     \/ "LOCAL_CLOSE" \in ready[s] /\ ready' = [ready EXCEPT ![s] = {}]
        /\ UNCHANGED port
  /\ UNCHANGED <<pc, entries, reported, failed, aborted, ctls>>

ThreadStep(t) == Enter(t) \/ PortCtl(t) \/ CtlNothing(t) \/ PortPoll(t)
                   \/ Dequeue(t) \/ TimeOut(t) \/ WaitFails(t) \/ FeedAll(t)

Next == \/ \E t \in Agents : ThreadStep(t)
        \/ \E o \in Socks : AfdComplete(o)
        \/ \E s \in Sockets : Environment(s)
        \/ PortClose \/ PortDelete

\* The kernel completes what it can, and a thread inside the library runs on;
\* callers of epoll_wait are the worker loop, which calls it again for ever.
Fairness ==
  /\ \A t \in Waiters : WF_vars(Enter(t) \/ PortPoll(t) \/ Dequeue(t)
                                 \/ WaitFails(t) \/ FeedAll(t))
  /\ \A t \in Callers : WF_vars(CtlNothing(t) \/ PortCtl(t))
  /\ \A o \in Socks : WF_vars(AfdComplete(o))

Spec == Init /\ [][Next]_vars /\ Fairness

-----------------------------------------------------------------------------
Registered == {s \in Sockets : port.tree[s] # Null}
Flying(o) == Contains(port.iocp, o) \/ \E t \in Agents : Contains(entries[t], o)

\* No condition a caller asked for goes unwatched: a registered socket is
\* queued for an update, or a poll of it is on its way back, or the pending AFD
\* poll asks for every condition that maps to a wanted event.
Watched ==
  port.active >= 0 =>
    \A s \in Registered :
      LET o == port.tree[s]
          k == port.sock[o]
      IN  \/ Contains(port.update, o)
          \/ k.poll_status = "CANCELLED"
          \/ k.poll_status = "PENDING" /\ k.status # "PENDING"
          \/ /\ k.poll_status = "PENDING"
             /\ \A a \in DOMAIN Reports :
                  AfdToEpoll({a}) \cap k.user_events # {} => a \in k.events

\* While a thread sleeps in GetQueuedCompletionStatusEx nothing waits in the
\* update queue for a call that may never come (short of an AFD failure).
NothingDeferred == port.active > 0 /\ ~failed => port.update = <<>>

\* A sock_state lives exactly as long as it is reachable: registered or on the
\* deleted queue; its memory is not freed while the kernel or a completion
\* packet still refers to it, and at most one packet per sock_state is under way.
SockLifetime ==
  /\ \A o \in Socks :
       LET k == port.sock[o]
       IN  /\ k.live => (port.tree[k.socket] = o /\ ~k.delete_pending)
                          \/ (k.delete_pending /\ Contains(port.deleted, o))
           /\ port.open /\ (Flying(o) \/ k.poll_status # "IDLE") => k.live
           /\ port.open /\ k.live /\ k.poll_status # "IDLE" /\ k.status # "PENDING"
                => Flying(o)
  /\ \A s \in Registered : port.sock[port.tree[s]].live
  /\ \A i \in DOMAIN port.update :
       LET k == port.sock[port.update[i]] IN k.live /\ ~k.delete_pending

\* The queue of poll groups: sizes count the members, none exceeds the maximum,
\* and the full groups come first, so that poll_group_acquire, which looks at
\* the last group only, never opens a device handle that is not needed.
GroupsPacked ==
  port.active >= 0 =>
    /\ \A i \in DOMAIN port.groups :
         /\ port.groups[i].size <= MaxGroupSize
         /\ port.groups[i].size = Cardinality(
              {o \in Socks : port.sock[o].live
                               /\ port.sock[o].group = port.groups[i].id})
    /\ \A i, j \in DOMAIN port.groups :
         i < j /\ port.groups[j].size = MaxGroupSize
           => port.groups[i].size = MaxGroupSize

\* port_delete leaves no sock_state behind.
NothingLeaked == port.active = -1 => \A o \in Socks : ~port.sock[o].live

\* No assertion of the library fails: not the one that the iocp handle is open
\* when a poll group is created (epoll_ctl racing epoll_close breaks it).
NoAssertFails == ~aborted

\* A socket that stays registered for EPOLLIN and stays readable is reported
\* again and again (level-triggered), as long as threads keep calling epoll_wait.
Readable(s) == /\ port.open /\ port.tree[s] # Null /\ ~failed
               /\ "RECEIVE" \in ready[s]
               /\ {"IN"} \subseteq port.sock[port.tree[s]].user_events
               /\ "ONESHOT" \notin port.sock[port.tree[s]].user_events
ReadyReported ==
  \A s \in Sockets : Readable(s) ~> (s \in reported \/ ~Readable(s))
=============================================================================
