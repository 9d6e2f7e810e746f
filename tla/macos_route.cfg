SPECIFICATION Spec
CONSTANTS
  t1 = t1
  t2 = t2
  Thread = {t1, t2}
  Os = {"macos"}
  None = None
  Config <- Configs
  Op <- RouteOps
  Bits = 3
  MaxUnit = 2
  MaxFd = 2
  MaxBuild = 2
  MaxCalls = 3
PROPERTY RouteGoesWithAddress
CHECK_DEADLOCK FALSE
