SPECIFICATION Spec
CONSTANTS
  Device <- AnyDevice
  Packet <- AnyKind
  Batch <- ShortBatches
  Flow <- Flows
  HdrClass <- Headers
  HdrLen = 1
  VnetHdrLen = 1
  Offsets = {0, 1}
  SeqSpace = 16
  MaxLen = 14
  MaxBufs = 2
  MaxCalls = 2
CHECK_DEADLOCK FALSE
INVARIANTS TypeOK TableSound
PROPERTIES DeliversBatch CallReturns
