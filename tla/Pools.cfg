SPECIFICATION SuiteSpec
CONSTANTS
  W = 2
  Task = {t1, t2, t3}
  Client = {c1}
  HandTask = {h1, h2}
  HandClient = {u1, u2, u3}
  HandPair = {v1, v2}
SYMMETRY Symmetry
INVARIANTS PoolKeepsTasks BalanceKeepsTask ManualSafe
