SPECIFICATION FairSpec
CONSTANTS
  Threads = {main, worker, io}
  Io = io
  BLOCK = 2
  m_nQueueLenMax = 1
  Lengths = {1, 3}
  MaxCalls = 3
INVARIANTS
  TypeOK
  OneWriteInFlight
  NoStall
  QueueBounded
  WireFaithful
CHECK_DEADLOCK FALSE
PROPERTIES
  BufferDrains
  EndIsReported
  ImplementsStream
