SPECIFICATION FairSpec
CONSTANTS
  Post = {p1, p2}
  Patch = {a1}
  Delete = {d1}
  Ingest = {g1}
  Name = {n1, n2}
  Uri = {u1, bad}
  BadUri = {bad}
  None = None
  Overlap = FALSE
  MaxRestart = 1
INVARIANTS NamesUnique IdsNeverReused RoutesMatchRows IngestRouted FileInSync
PROPERTIES EveryRequestEnds
