SPECIFICATION Spec
CONSTANTS
  t1 = t1
  t2 = t2
  Task = {t1, t2}
  Op <- Ops
  Packet <- Packets
  MaxIov = 3
  TxCap = 1
  MaxPackets = 2
  MaxOps = 3
INVARIANT NoLostReadiness
PROPERTIES IoCompletes Framed
CHECK_DEADLOCK FALSE
