SPECIFICATION Spec
CONSTANTS
  HalfRange = 32
  BufferSize = 5
  UpdateSize = 2
  MaxId = 3
  InitialSeqnos <- AnySeqno
  FirstSeqno = 24
  MaxSkip = 2
  MaxDelayed = 1
  MaxOvertakes = 1
  MaxPackets = 9
INVARIANT TypeOK
INVARIANT ReportIsReal
INVARIANT ReportedOnce
INVARIANT UnreportedIsAtFlush
INVARIANT RowsAreFirstReports
CHECK_DEADLOCK FALSE
