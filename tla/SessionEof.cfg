CONSTANTS
  f1 = f1
  f2 = f2
  big = big
  Frames <- MCFrames
  Oversized = {big}
  Size <- MCSize
  Streams <- MCStreams
  Buffer = 1
  OffLoop = FALSE
  CloseTask = close
SPECIFICATION Spec
CHECK_DEADLOCK FALSE
INVARIANT CompleteFramesDelivered
