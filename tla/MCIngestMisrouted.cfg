SPECIFICATION Spec
CONSTANTS
  Post = {p1}
  Patch = {a1}
  Delete = {}
  Ingest = {g1}
  Name = {n1}
  Uri = {u1}
  BadUri = {}
  None = None
  Overlap = TRUE
  MaxRestart = 0
INVARIANTS IngestRouted
