SPECIFICATION Spec
CONSTANTS
  t1 = t1
  t2 = t2
  Task = {t1, t2}
  Job = {j1, j2}
  None = None
  SendCap = 1
  Programs <- TwoPrograms
CHECK_DEADLOCK FALSE
INVARIANTS PollDelivers OkSentOnce
PROPERTIES DropReleases CancelledStops CancelReturns RecvWakes
