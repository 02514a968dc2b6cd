CONSTANTS
  f1 = f1
  f2 = f2
  big = big
  Frames <- MCFrames
  Oversized = {big}
  Size <- MCSize
  Streams <- MCStreams
  Buffer = 1
  OffLoop = FALSE
  CloseTask = close
SPECIFICATION FairSpec
CHECK_DEADLOCK FALSE
INVARIANTS TypeOK OneResult WireIntegrity OkMeansTaken OutInterest NoFrameLeft ClosedOnce
PROPERTIES FrameAnswered PeerCloseSeen
