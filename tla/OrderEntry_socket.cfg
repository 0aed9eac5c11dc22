\* A WebSocket account: one order, several requests.
SPECIFICATION Spec
CONSTANTS
  OrderEntry = "WebSocket"
  WsApi = TRUE
  FastAck = TRUE
  Orders = {"o1"}
  Symbols = {"s1"}
  SymbolOf <- MCSymbolOf
  MaxVersion = 3
  MaxCalls = 1
  MaxFaults = 2
  MaxRestarts = 1
INVARIANTS
  TypeOK
  AcceptedIsTrue
  TooLateMeansDoneOrUnknown
CHECK_DEADLOCK FALSE
