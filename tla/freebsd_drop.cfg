SPECIFICATION Spec
CONSTANTS
  t1 = t1
  t2 = t2
  Thread = {t1, t2}
  Os = {"freebsd"}
  None = None
  Config <- Configs
  Op <- Ops
  Bits = 3
  MaxUnit = 2
  MaxFd = 2
  MaxBuild = 2
  MaxCalls = 0
INVARIANT DestroyedBeforeClose
CHECK_DEADLOCK FALSE
