SPECIFICATION PollerSpec
CONSTANTS
  ip1 = ip1
  ip2 = ip2
  Ip <- Devices
  IpOrder <- DeviceOrder
  Aggregation = aggregation
  Workers = {w1, w2}
  Pools = {{w1, w2}}
  PerSecond = 2
  MaxFailures = 0
  Seqnos <- OneSeqno
  HalfRange = 16
  OutlierGap = 5
  RrdUpdateSize = 1
  ThresholdMinutes = 0
  ClockSlack = 0
  MaxLag = 0
  MaxMinute = 5
  MaxPackets = 3
  MaxRestarts = 0
INVARIANT RemovedIsUpdated
CHECK_DEADLOCK FALSE
