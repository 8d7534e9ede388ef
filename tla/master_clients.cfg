SPECIFICATION FairSpec
CONSTANTS
  IdMax = 3
  FrameLen = 2
  FrameSizeMax = 3
  RxSize = 6
  FifoSize = 2
  FullDuplex = FALSE
  Noise = Noise
  Requests <- MixedRequests
  MaxRequests = 2
  Replies = {"normal", "wrong_count"}
  LateReplies = TRUE
  Interleaved = TRUE
  MaxCount = 2
  MaxConfigs = 1
PROPERTY RequestsEnd
PROPERTY CallbackEndsRequest
