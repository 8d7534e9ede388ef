SPECIFICATION Spec
CONSTANTS
  Silence = 4
  MaxPause = 3
  FrameGaps = {5, 9, 21}
  LoopTime = 3
  JudgeTime = 3
  RxFifoLimit = 3
  FrameSizes = {1, 2, 6}
  MaxFrames = 3
INVARIANT TypeOK
INVARIANT FrameNotSplit
INVARIANT JudgedUndisturbed
INVARIANT FramesJudgedSingly
INVARIANT JudgedInTime
