SPECIFICATION Spec
CONSTANTS
  N = 2
  Patch = {p1, p2}
  Uri = {u0, u1}
  Uri0 = u0
  Failures = {}
  Overlap = TRUE
INVARIANTS ShardsAgree
