SPECIFICATION PollerSpec
CONSTANTS
  ip1 = ip1
  ip2 = ip2
  Ip <- Devices
  IpOrder <- DeviceOrder
  Aggregation = aggregation
  Workers = {w1}
  Pools = {{w1}}
  PerSecond = 2
  MaxFailures = 0
  Seqnos <- OneSeqno
  HalfRange = 16
  OutlierGap = 5
  RrdUpdateSize = 2
  ThresholdMinutes = 1
  ClockSlack = 1
  MaxLag = 1
  MaxMinute = 7
  MaxPackets = 4
  MaxRestarts = 1
INVARIANT TypeOK
INVARIANT MinutesClose
INVARIANT CountedOnce
INVARIANT MinuteAtHand
INVARIANT NoEmptyBatch
INVARIANT NoUpdateRefused
INVARIANT AggregateIsComplete
PROPERTY ImplementsArchive
PROPERTY ImplementsLedger
PROPERTY HistoryKept
CHECK_DEADLOCK FALSE
