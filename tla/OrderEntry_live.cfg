\* A REST account, with fairness: one order, overlapping versions, a cancel-all and a restart.
SPECIFICATION FairSpec
CONSTANTS
  OrderEntry = "OrderEntryClassic"
  WsApi = FALSE
  FastAck = TRUE
  Orders = {"o1"}
  Symbols = {"s1"}
  SymbolOf <- MCSymbolOf
  MaxVersion = 2
  MaxCalls = 1
  MaxFaults = 1
  MaxRestarts = 1
INVARIANTS
  AcceptedCancelAllIsDone
  OpenOrdersAreCovered
PROPERTIES
  ServiceSpec
  EveryRequestIsAnswered
  CancelAllCancels
CHECK_DEADLOCK FALSE
