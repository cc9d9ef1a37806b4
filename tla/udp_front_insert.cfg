SPECIFICATION Spec
CONSTANTS
  BufferSize = 4
  UpdateSize = 2
  ClockSlack = 1
  MaxSecond = 7
  MaxPackets = 8
INVARIANT SecondPushedOnce
CHECK_DEADLOCK FALSE
