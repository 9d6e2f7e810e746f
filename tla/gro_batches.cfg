SPECIFICATION Spec
CONSTANTS
  Device <- Offload
  Packet <- Packets
  Batch <- Batches
  Flow <- Flows
  HdrClass <- Headers
  HdrLen = 1
  VnetHdrLen = 1
  Offsets = {1}
  SeqSpace = 16
  MaxLen = 14
  MaxBufs = 8
  MaxCalls = 1
CHECK_DEADLOCK FALSE
INVARIANTS RoundTrip ExactlyOnce HeadersWritten NoBadChecksumMerged NoRealloc
  UdpGroOrder
