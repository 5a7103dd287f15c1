SPECIFICATION Spec
CONSTANTS
  Change = {c1, c2}
  Routed = {c1}
  Stop = {}
  MaxCrash = 0
INVARIANTS RewrittenAfterSuccess
