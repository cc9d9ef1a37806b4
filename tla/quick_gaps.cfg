SPECIFICATION Spec
CONSTANTS
  ip1 = ip1
  ip2 = ip2
  Ip <- Devices
  HalfRange = 4
  MaxId = 4
  FirstSeqnos = {0, 2, 3}
  MaxSkip = 2
  MaxPackets = 6
SYMMETRY DeviceSymmetry
INVARIANT TypeOK
INVARIANT GapPerRow
INVARIANT RowsAreFirstInserts
CHECK_DEADLOCK FALSE
