SPECIFICATION FairSpec
CONSTANTS
  Change = {c1, c2, c3}
  Routed = {c1, c2}
  Stop = {z1}
  MaxCrash = 1
INVARIANTS TypeOK Durable OneWriter SnapshotsInOrder
PROPERTIES ImplementsRegistryStore EveryChangeAnswered
