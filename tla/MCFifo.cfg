SPECIFICATION Spec
CONSTANTS
  FifoCount = 2
  FifoSize = 3
  Bytes = {0, 1}
  Requests <- MCRequests
  Chunks <- MCChunks
INVARIANTS
  TypeOK
  PointersAgree
PROPERTY ImplementsQueue
