SPECIFICATION Spec
CONSTANTS
  Conn = {c1, c2}
  Thread = {t1}
  Sender = {s1}
  Poller = poller
  NoConn = none
  MaxWorking = 2
  OnceHandle = 1
  PacketSize = 2
  MaxRecv = 2
  MaxSent = 1
  MaxAccepts = 1
SYMMETRY Symmetry
CHECK_DEADLOCK FALSE
INVARIANTS CountExact  PacketsHandled
