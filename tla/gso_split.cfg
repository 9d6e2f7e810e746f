SPECIFICATION Spec
CONSTANTS
  Frame <- AllFrames
  Args <- AllArgs
  Ip4Len = 2
  Ip6Len = 3
  UdpLen = 2
  TcpMin = 2
  TcpMax = 3
  DoffAt = 1
  Width = 16
  SeqSpace = 16
  MaxCalls = 2
  Radix = 4
  ChecksumCase <- ChecksumCases
CHECK_DEADLOCK FALSE
INVARIANTS
  SizesCurrent
  PayloadPreserved
  SegmentHeaders
  SegmentsFit
  NotRefusedNeedlessly
  ChecksumExact
