----------------------------- MODULE MCPollers ------------------------------
(* The four pollers of a manager with its accepted connections; and wepoll,  *)
(* the epoll of Windows: one port with its sockets, the handles of several   *)
(* ports, and the red-black tree both are kept in.  They share no variable,  *)
(* so each behaviour is of one of them; the port appears with polls that may *)
(* fail and fewer waiting threads, and with polls that do not.               *)
EXTENDS Naturals

CONSTANTS
  Kinds, Conn, Fd, MaxConnects, MaxSends, MaxResets,   \* Sockets
  Waiters, Callers, Sockets, Socks, Wants, Conditions,  \* WepollPort
  FailWaiters, MaxCtl, MaxChanges, Null,
  Threads, Handles, Ports, MaxCreates,  \* WepollHandles
  Keys                                  \* RbTree

VARIABLES
  part,  \* the component that this behaviour is of
  kind, sock, opened, data, eof, err, interest, edges, use, kset, events,
  listen, flag, queue, freeIds, lock, pollPc, on, fd, pollFailed, mixed,
  backlog, connects, sends, resets,
  port, ready, portPc, entries, reported, portFailed, portAborted, ctls,
  changes,
  handTree, open, handleOf, refs, destroy, memory, handPc, cur, creates,
  handAborted,
  treeTree, held

Poll == INSTANCE Sockets WITH
  NoConn <- 0, NoFd <- 0, pc <- pollPc, failed <- pollFailed
Port == INSTANCE WepollPort WITH
  MaxGroupSize <- 1, MaxEvents <- 2, MayFail <- {FALSE}, pc <- portPc,
  failed <- portFailed, aborted <- portAborted
Fail == INSTANCE WepollPort WITH
  MaxGroupSize <- 1, MaxEvents <- 2, MayFail <- BOOLEAN,
  Waiters <- FailWaiters, pc <- portPc, failed <- portFailed,
  aborted <- portAborted
Hand == INSTANCE WepollHandles WITH
  tree <- handTree, pc <- handPc, aborted <- handAborted
Tree == INSTANCE RbTree WITH
  tree <- treeTree

pollVars == <<kind, sock, opened, data, eof, err, interest, edges, use, kset,
              events, listen, flag, queue, freeIds, lock, pollPc, on, fd,
              pollFailed, mixed, backlog, connects, sends, resets>>
portVars == <<port, ready, portPc, entries, reported, portFailed, portAborted,
              ctls, changes>>
handVars == <<handTree, open, handleOf, refs, destroy, memory, handPc, cur,
              creates, handAborted>>
treeVars == <<treeTree, held>>

Parts == {"pollers", "port", "port_fails", "handles", "tree"}

SuiteInit ==
  /\ part \in Parts
  /\ Poll!Init /\ (part # "pollers" => kind = CHOOSE k \in Kinds : TRUE)
  /\ Port!Init
  /\ Hand!Init
  /\ Tree!Init

(* One component takes its steps and the others stay as they began.          *)
SuiteNext ==
  /\ UNCHANGED part
  /\ \/ part = "pollers" /\ Poll!Next
        /\ UNCHANGED <<portVars, handVars, treeVars>>
     \/ part = "port" /\ Port!Next
        /\ UNCHANGED <<pollVars, handVars, treeVars>>
     \/ part = "port_fails" /\ Fail!Next
        /\ UNCHANGED <<pollVars, handVars, treeVars>>
     \/ part = "handles" /\ Hand!Next
        /\ UNCHANGED <<pollVars, portVars, treeVars>>
     \/ part = "tree" /\ Tree!Next
        /\ UNCHANGED <<pollVars, portVars, handVars>>
     \/ part \in {"pollers", "port", "port_fails", "handles", "tree"}  \* it may stop
        /\ UNCHANGED <<pollVars, portVars, handVars, treeVars>>

suiteVars == <<part, pollVars, portVars, handVars, treeVars>>

SuiteSpec == SuiteInit /\ [][SuiteNext]_suiteVars

FairSuiteSpec ==
  /\ SuiteSpec
  /\ WF_pollVars(part = "pollers" /\ Poll!PollerStep)
  /\ WF_pollVars(part = "pollers" /\ Poll!ExecutorStep)
  /\ \A t \in Waiters : WF_portVars(part = "port" /\ (Port!Enter(t) \/ Port!PortPoll(t) \/ Port!Dequeue(t)
                                        \/ Port!WaitFails(t) \/ Port!FeedAll(t)))
  /\ \A t \in Callers : WF_portVars(part = "port" /\ (Port!CtlNothing(t) \/ Port!PortCtl(t)))
  /\ \A o \in Socks : WF_portVars(part = "port" /\ Port!AfdComplete(o))
  /\ \A t \in Threads : WF_handVars(part = "handles" /\ Hand!Step(t))

-----------------------------------------------------------------------------
(* A descriptor is closed once, by the connection that owns it, and watched  *)
(* for no other one; the poller's thread outlives every connection that is   *)
(* not reset (net/socket/basic.cc, the pollers' sock_remove).                *)
DescriptorsSafe == part = "pollers" => Poll!DescriptorsOwned /\ Poll!PollerSurvives

(* A wepoll port: a registered socket is watched for all its user asked for  *)
(* or is queued to be, nothing waits deferred while nobody polls, a sock is  *)
(* freed only when its poll has ended, groups are as full as their counts    *)
(* say, and closing the port leaves nothing behind (wepoll.c, port_ and      *)
(* sock_ functions).                                                         *)
PortSafe ==
  part \in {"port", "port_fails"} =>
    /\ Port!Watched /\ Port!NothingDeferred /\ Port!SockLifetime
    /\ Port!GroupsPacked /\ Port!NothingLeaked

(* Whoever found a port in the handle tree may use it until it lets it go,   *)
(* and no assertion of the reflock fails (wepoll.c, reflock and ts_tree).    *)
HandlesSafe == part = "handles" => Hand!PortAlive /\ Hand!ReflockSound

(* The tree finds what it holds and is red-black after every insertion and   *)
(* removal (wepoll.c, tree_add and tree_del).                                *)
TreeSafe == part = "tree" => Tree!FindsHeld /\ Tree!RedBlack

(* News arrives: a level-triggered poller gets a connection removed whose    *)
(* peer closed, wepoll reports a socket that stays readable, and epoll_close *)
(* returns.                                                                  *)
NewsArrives ==
  /\ part = "pollers" => Poll!PeerCloseNoticed
  /\ part = "port" => Port!ReadyReported
  /\ part = "handles" => Hand!CloseReturns
=============================================================================
