SPECIFICATION Spec
CONSTANTS
  Thread = {t1, t2}
  Name = {n1, n2, n3}
  n1 = n1
  n2 = n2
  n3 = n3
  a1 = a1
  a2 = a2
  b1 = b1
  None = None
  Config <- OnlyFull
  Op <- RenameAndList
  MaxIf = 2
  MaxBuild = 1
  MaxCalls = 2
PROPERTIES AddressesOwn
CHECK_DEADLOCK FALSE
