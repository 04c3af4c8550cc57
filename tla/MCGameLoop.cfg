SPECIFICATION Spec
CONSTANTS
  N = 4
  Doubling = TRUE
  CardsPerPlayer = 1
  MaxStoss = 1
  MaxRaises = 1
  NobodyPlays = {"Stock", "Ramsch"}
  NGames = 3
  Prices = {3}
  StockPrice = 1
  StockDoubled = TRUE
INVARIANTS
  TypeOK
  AccountsBalance
  StockCanBeShared
PROPERTIES
  StockTakenWhole
  OnePartyIsPaid
