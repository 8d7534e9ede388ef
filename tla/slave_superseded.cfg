SPECIFICATION Spec
CONSTANTS
  IdMax = 3
  FrameLen = 2
  FrameSizeMax = 3
  RxSize = 6
  FifoSize = 2
  FullDuplex = FALSE
  Noise = Noise
  BusFrames <- MixedFrames
  MaxFrames = 2
PROPERTY NewBytesMovedToFront
