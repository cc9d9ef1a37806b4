SPECIFICATION Spec
CONSTANTS
  HalfRange = 64
  BufferSize = 4
  UpdateSize = 2
  MaxId = 4
  InitialSeqnos = {0}
  FirstSeqno = 2
  MaxSkip = 0
  MaxDelayed = 1
  MaxOvertakes = 1
  MaxPackets = 8
INVARIANT ReceivedIsNotReported
CHECK_DEADLOCK FALSE
