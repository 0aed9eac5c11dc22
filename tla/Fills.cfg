\* Two download symbols, three fills, outages, failed queries or restarts of each kind of account.
SPECIFICATION Spec
CONSTANTS
  OrderEntries = {"OrderEntryClassic", "OrderEntryPortfolio", "WebSocket"}
  Orders = {"o1"}
  SymbolOf <- MCSymbolOf
  Download = {"s1", "s2"}
  Lookback = 1
  LookbackOnRestart = 2
  Limit = 1
  MaxTime = 2
  MaxEvents = 3
INVARIANTS
  TypeOK
  NoFillIsMissed
  FillIsReportedOnce
  LiveFillIsAttributed
CHECK_DEADLOCK FALSE
