\* Two streams of one symbol, with fairness.
SPECIFICATION FairSpec
CONSTANTS
  Streams = {a, b}
  MaxId = 8
  MaxFaults = 3
INVARIANTS
  TypeOK
  BookIsExact
  SnapshotIsComing
PROPERTIES
  NoNeedlessResync
  ReplicaSpec
  BookIsSynchronised
CHECK_DEADLOCK FALSE
