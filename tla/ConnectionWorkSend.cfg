SPECIFICATION Spec
CONSTANTS
  Conn = {c1, c2}
  Thread = {t1}
  Sender = {s1}
  Poller = poller
  NoConn = none
  MaxWorking = 2
  OnceHandle = 1
  PacketSize = 1
  MaxRecv = 2
  MaxSent = 2
  MaxAccepts = 1
INVARIANT SentIsPushed
CHECK_DEADLOCK FALSE
