SPECIFICATION Spec
CONSTANTS
  IdMax = 3
  FrameLen = 2
  FrameSizeMax = 3
  RxSize = 6
  FifoSize = 2
  FullDuplex = FALSE
  Noise = Noise
  Requests <- MixedRequests
  MaxRequests = 2
  Replies = {"normal"}
  LateReplies = FALSE
  Interleaved = TRUE
  MaxCount = 2
  MaxConfigs = 0
INVARIANT WholeFrameSent
