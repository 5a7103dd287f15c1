SPECIFICATION FairSpec
CONSTANTS
  N = 3
  Patch = {p1, p2, p3}
  Uri = {u0, u1, u2}
  Uri0 = u0
  Failures = {"refused", "threw"}
  Overlap = FALSE
INVARIANTS SplitOnlyByFault
PROPERTIES AllOrNothing EveryPatchEnds
