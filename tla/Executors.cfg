SPECIFICATION SuiteSpec
CONSTANTS
  Task = {t1, t2, t3}
  Client = {c1, c2}
  Worker = worker
  EmptyTask = emptyTask
  Erasures = {"a", "b"}
  Callables <- Kinds
  KindOf <- MCKindOf
  Null = Null
  Works = {k1, k2}
  Workers = {w1, w2}
  Adders = {a1}
  Loopers = {l1}
  Returns = {"void", "true", "false"}
  NoTask = NoTask
INVARIANTS ShutdownJoinsAll 
INVARIANTS AcceptedKept CallableOnce
PROPERTIES ShutdownReturns StartedEnds
