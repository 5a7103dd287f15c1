SPECIFICATION FairSpec
CONSTANTS
  Conn = {k1, k2}
  Stream <- MCStream
  Cap = 1
  Word = 7
  MaxChunk = 5
INVARIANTS WholeFrames CapExact OneInFlight
PROPERTIES FramesFlow
