\* A Portfolio account: the download never leaves its first stage.
SPECIFICATION FairSpec
CONSTANTS
  OrderEntry = "OrderEntryPortfolio"
  Orders = {o1, o2}
  Symbols = {}
  MaxPolls = 0
  Merges = FALSE
  MaxFaults = 0
PROPERTIES
  DownloadCompletes
