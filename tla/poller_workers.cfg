SPECIFICATION FairPollerSpec
CONSTANTS
  ip1 = ip1
  ip2 = ip2
  Ip <- Devices
  IpOrder <- DeviceOrder
  Aggregation = aggregation
  Workers = {w1, w2}
  Pools = {{w1}, {w1, w2}}
  PerSecond = 2
  MaxFailures = 1
  Seqnos <- GapSeqnos
  HalfRange = 16
  OutlierGap = 5
  RrdUpdateSize = 1
  ThresholdMinutes = 0
  ClockSlack = 0
  MaxLag = 0
  MaxMinute = 5
  MaxPackets = 3
  MaxRestarts = 1
INVARIANT StoredIsFinal
INVARIANT StoredLossBounded
INVARIANT RemovedIsUpdatedByOne
PROPERTY TasksDrain
CHECK_DEADLOCK FALSE
