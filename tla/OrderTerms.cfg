\* A limit and a market order with the same id, the encoders of a WebSocket and of REST, three requests.
SPECIFICATION Spec
CONSTANTS
  Encoders = {"json", "url"}
  Orders = {"o1", "o2"}
  SymbolOf <- MCSymbolOf
  IdOf <- MCIdOf
  FormsOf <- MCFormsOf
  FastAck = TRUE
  AckUpdates = FALSE
  Prices = {1}
  Quantities = {2, 3}
  MaxRequests = 3
INVARIANTS
  TypeOK
  OrderIsAsAsked
  ReportedAsAsked
  TooLateIsTrue
CHECK_DEADLOCK FALSE
