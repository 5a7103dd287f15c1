SPECIFICATION Spec
CONSTANTS
  Post = {p1, p2}
  Patch = {}
  Delete = {}
  Ingest = {}
  Name = {n1}
  Uri = {u1}
  BadUri = {}
  None = None
  Overlap = TRUE
  MaxRestart = 0
INVARIANTS NamesUnique
