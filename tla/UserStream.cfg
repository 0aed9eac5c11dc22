\* One WebSocket account and one Portfolio account, with fairness.
SPECIFICATION FairSpec
CONSTANTS
  Accounts = {acc, pm}
  Portfolio = {pm}
  WsApi = TRUE
  MaxKeys = 2
  MaxFaults = 1
  MaxInflight = 2
INVARIANTS
  TypeOK
  ZombiesAreDeadStreams
  StreamHasDeadline
  StreamKeyIsKnown
PROPERTIES
  SlotSpec
  FirstStream
  SocketExpiredIsReplaced
