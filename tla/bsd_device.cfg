SPECIFICATION Spec
SYMMETRY Symmetry
CONSTANTS
  t1 = t1
  t2 = t2
  Thread = {t1, t2}
  Os = {"freebsd", "macos"}
  None = None
  Config <- Configs
  Op <- Ops
  Bits = 3
  MaxUnit = 2
  MaxFd = 2
  MaxBuild = 2
  MaxCalls = 3
INVARIANT DescriptorOwned
PROPERTY NetworkAddressExact
CHECK_DEADLOCK FALSE
