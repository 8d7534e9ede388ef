SPECIFICATION Spec
CONSTANTS
  IdMax = 3
  FrameLen = 2
  FrameSizeMax = 3
  RxSize = 6
  FifoSize = 2
  FullDuplex = FALSE
  Noise = Noise
  Requests <- AllRequests
  MaxRequests = 2
  Replies = {"normal", "exception", "wrong_function", "foreign"}
  LateReplies = FALSE
  Interleaved = FALSE
  MaxCount = 2
  MaxConfigs = 0
INVARIANT TypeOK
INVARIANT DueOnlyWithResponse
INVARIANT WholeFrameSent
INVARIANT NoLeftoverTxDone
INVARIANT RequestIdUsable
PROPERTY EndsWithCallback
PROPERTY TimeoutCountedOnce
PROPERTY ReplyToThisRequest
PROPERTY PacketsInOrder
PROPERTY ImplementsMasterService
PROPERTY RequestNotCutOff
