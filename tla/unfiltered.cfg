SPECIFICATION MainSpec
CONSTANTS
  b1 = b1
  b2 = b2
  b3 = b3
  b4 = b4
  b5 = b5
  Buffers <- Heap
  NoBuffer = unset
  Captured <- AllFrames
  Processors <- ThreeProcessors
  Queues <- AllQueues
  KeptSize = 3
  DeleteSize = 2
  MaxFrames = 5
SYMMETRY HeapSymmetry
INVARIANT OnlyFilteredFrames
CHECK_DEADLOCK FALSE
