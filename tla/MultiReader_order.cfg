SPECIFICATION Spec
CONSTANTS
  Start = 2
  End = 12
  ChunkSize = 4
  Threads = 2
  Buffers = 1
  ReadSizes = {3, 8}
INVARIANTS TypeOK NeverAbandoned BoundedPrefetch RequestWindow FailureInOrder
PROPERTIES OrderedDelivery
