SPECIFICATION Spec
CONSTANTS
  IdMax = 3
  FrameLen = 2
  FrameSizeMax = 3
  RxSize = 6
  FifoSize = 2
  FullDuplex = FALSE
  Noise = Noise
  BusFrames <- AllFrames
  MaxFrames = 2
INVARIANT TypeOK
INVARIANT FrameOnlyAfterSilence
INVARIANT ResponseMatchesRequest
INVARIANT NoStaleAnswer
INVARIANT OfferedOnceAndWhole
INVARIANT NoCallbackDuringResponse
INVARIANT NoLeftoverTxDone
INVARIANT NeverDeaf
PROPERTY ResponseNotCutOff
PROPERTY ImplementsSlaveService
