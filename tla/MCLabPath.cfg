SPECIFICATION Spec
CONSTANTS
  s1 = s1
  s2 = s2
  Shard <- MCShard
  Launches <- MCLaunches
  Feeds <- MCFeeds
  NoConfig = NoConfig
  NoTable = NoTable
  None = None
  NumberMod = 3
  VersionMod = 3
INVARIANTS OneLayoutPerPayload LengthFieldsExact RoundTrip TablesReadBack AcceptedIsHonoured LlsVersionTellsChange StltpUnbroken ReturnMeansStopped TotalsNeverOvercount
