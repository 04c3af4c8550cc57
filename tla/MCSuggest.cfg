\* Short deck; hands of three cards instead of four are searched in full.
CONSTANTS
  w1 = w1
  w2 = w2
  Workers = {w1, w2}
  N = 4
  MaxStoss = 0
  RunAway = 4
  ExtraPrice = 10
  LaufMin = 3
  Deck <- ShortDeck
  Games <- Positions
  NoPruningUpTo = 1
  AllHandsUpTo = 3
  TasksAhead = 0
SYMMETRY Symmetry
SPECIFICATION Spec
CONSTRAINT OneSearchAtATime
INVARIANTS
  SearchKeepsPosition
  SearchFindsValue
  PossibleHandsOnce
  HandsFitWhatWasSeen
  EveryHandCounts
  SureWinIsTaken
