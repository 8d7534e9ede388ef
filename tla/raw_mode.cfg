SPECIFICATION FairSpec
CONSTANTS
  ChunkSize = 2
  RxSize = 6
  TxSize = 4
  RxFifoSize = 3
  RxFifoLimit = 2
  TxFifoSize = 2
  Lengths = {1, 5}
  FrameSizes = {0, 2}
  Scenarios <- MCScenarios
INVARIANT TypeOK
INVARIANT EveryByteAccounted
INVARIANT NothingInvented
INVARIANT NeverDeaf
PROPERTY StreamsComplete
PROPERTY AcceptedBytesSent
PROPERTY BytesReachHost
PROPERTY FramesAnnounced
PROPERTY ErrorsReported
