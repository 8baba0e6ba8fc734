SPECIFICATION FairSuiteSpec
CONSTANTS
  Kinds = {"iocp", "kqueue", "select"}
  Conn = {1, 2}
  Fd = {1, 2}
  MaxConnects = 2
  MaxSends = 1
  MaxResets = 0
  Waiters = {t1}
  Callers = {c}
  Sockets = {s1}
  Socks = {o1, o2}
  Wants = {{"IN"}, {"OUT", "ONESHOT"}}
  Conditions = {"RECEIVE"}
  MaxCtl = 1
  MaxChanges = 2
  FailWaiters = {t1}
  Null = Null
  Threads = {u1, u2}
  Handles = {h1, h2}
  Ports = {p1, p2}
  MaxCreates = 3
  Keys = {1, 2, 3}
PROPERTY NewsArrives
