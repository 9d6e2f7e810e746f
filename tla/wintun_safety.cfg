SPECIFICATION Spec
CONSTANTS
  Worker = {w1, w2}
  Receiver = {w1, w2}
  Controller = {c1, c2}
  None = None
  RingCap = 1
  SendCap = 1
  MaxTries = 1
  MaxSession = 2
  SetMayFail = TRUE
  ResetMayFail = FALSE
CHECK_DEADLOCK FALSE
SYMMETRY Threads
INVARIANTS TypeOK SessionSafe NoLeakedSession FlagMatchesSession
  NoSpuriousDisabled
