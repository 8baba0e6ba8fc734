SPECIFICATION SuiteSpec
CONSTANTS
  Kinds = {"epoll", "iocp", "kqueue", "select"}
  Conn = {1, 2}
  Fd = {1, 2}
  MaxConnects = 2
  MaxSends = 1
  MaxResets = 1
  Waiters = {t1, t2}
  Callers = {c}
  Sockets = {s1}
  Socks = {o1, o2}
  Wants = {{"IN"}, {"OUT", "ONESHOT"}}
  Conditions = {"RECEIVE", "SEND"}
  MaxCtl = 2
  MaxChanges = 1
  FailWaiters = {t1}
  Null = Null
  Threads = {u1, u2, u3}
  Handles = {h1, h2}
  Ports = {p1, p2}
  MaxCreates = 3
  Keys = {1, 2, 3, 4, 5, 6, 7, 8, 9, 10}
INVARIANTS  PortSafe HandlesSafe TreeSafe
