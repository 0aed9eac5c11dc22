\* A WebSocket account that loses a query: the download hangs.
SPECIFICATION FairSpec
CONSTANTS
  OrderEntry = "WebSocket"
  Orders = {o1, o2}
  Symbols = {}
  MaxPolls = 0
  Merges = FALSE
  MaxFaults = 1
PROPERTIES
  DownloadCompletes
