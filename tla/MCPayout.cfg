SPECIFICATION Spec
CONSTANTS
  PlayedDeals <- MCDeals
  PricesInFile <- MCPrices
  Contracts <- MCContracts
  ExtraPrice = 10
  LaufMin = 3
INVARIANTS
  CacheIsRecount
  PayoutKeepsHints
  LoserPays
  RamschSettled
PROPERTY HintsNarrow
