\* Two slices; one symbol is both listed and subscribed to by clients.
SPECIFICATION FairSpec
CONSTANTS
  Names = {btcusdt, ethusdt, bnbusdt}
  Listable = {btcusdt, ethusdt}
  Wanted = {ethusdt, bnbusdt}
  Assets = {btcusd}
  PerStream = 2
  Secondary = FALSE
  MaxFaults = 2
INVARIANTS
  TypeOK
  EverySymbolOnce
  AssetsAreCarried
PROPERTIES
  DownloadCompletes
  KnownIsSubscribed
