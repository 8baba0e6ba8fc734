SPECIFICATION SuiteSpec
CONSTANTS
  Parts = {"ring", "stream", "stream_again", "packer", "rpc", "connect", "pool", "pool_alone", "library", "tab", "ini", "digest", "strings", "passwords"}
  Values = {1, 2}
  Capacity = 2
  MaxInserts = 5
  Callers = {c1, c2}
  PoolThreads = {p1, p2}
  OneThread = p1
  Uint16 = 4
  TabOpens = 1
INVARIANTS    ConnectedAsAsked
   
PROPERTY ImplementsFifo
