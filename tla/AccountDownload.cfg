\* A REST account that downloads everything and polls its balance, with fairness.
SPECIFICATION FairSpec
CONSTANTS
  OrderEntry = "OrderEntryClassic"
  Orders = {o1, o2}
  Symbols = {s1, s2}
  MaxPolls = 2
  Merges = FALSE
  MaxFaults = 4
INVARIANTS
  TypeOK
  AnswerIsComing
  StaleCounterIsExact
  SnapshotIsFresh
PROPERTIES
  DownloadCompletes
  StaleOrderIsResolved
