SPECIFICATION FeedSpec
CONSTANTS
  Ip = {ip1}
  FirstSeqnos <- StartSeqnos
  MaxSkip = 3
  MaxDelayed = 1
  MaxOvertakes = 2
  Seqnos <- AllSeqnos
  HalfRange = 8
  OutlierGap = 3
  RrdUpdateSize = 1
  ThresholdMinutes = 1
  ClockSlack = 1
  MaxLag = 0
  MaxMinute = 3
  MaxPackets = 4
  MaxRestarts = 1
INVARIANT LossBounded
INVARIANT LossIsReal
INVARIANT LossIsSeen
CHECK_DEADLOCK FALSE
