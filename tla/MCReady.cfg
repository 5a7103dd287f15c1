SPECIFICATION Spec
CONSTANTS
  Conn = {k1}
  Stream <- MCStream
  Cap = 1
  Word = 7
  MaxChunk = 5
INVARIANTS ReadyMeansAccepting
