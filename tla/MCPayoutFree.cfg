SPECIFICATION Spec
CONSTANTS
  PlayedDeals <- MCDeals
  PricesInFile <- PriceZero
  Contracts <- MCContracts
  ExtraPrice = 10
  LaufMin = 3
INVARIANT NobodyGetsNothing
