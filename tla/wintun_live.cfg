SPECIFICATION Spec
CONSTANTS
  Worker = {w1, w2}
  Receiver = {w1}
  Controller = {c1}
  None = None
  RingCap = 1
  SendCap = 1
  MaxTries = 1
  MaxSession = 1
  SetMayFail = TRUE
  ResetMayFail = TRUE
CHECK_DEADLOCK FALSE
PROPERTIES ControlReturns SendReturns RecvWakes
