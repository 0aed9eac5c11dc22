\* A WebSocket account: cancel-all misses the orders it placed.
SPECIFICATION FairSpec
CONSTANTS
  OrderEntry = "WebSocket"
  WsApi = TRUE
  FastAck = TRUE
  Orders = {"o1"}
  Symbols = {"s1"}
  SymbolOf <- MCSymbolOf
  MaxVersion = 1
  MaxCalls = 1
  MaxFaults = 0
  MaxRestarts = 0
PROPERTIES
  CancelAllCancels
CHECK_DEADLOCK FALSE
