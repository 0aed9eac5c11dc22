\* A REST account, with fairness: the expired stream is not replaced.
SPECIFICATION FairSpec
CONSTANTS
  Accounts = {acc}
  Portfolio = {}
  WsApi = FALSE
  MaxKeys = 2
  MaxFaults = 1
  MaxInflight = 2
PROPERTIES
  ExpiredIsReplaced
