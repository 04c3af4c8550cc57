\* Two seats and three peers. Players give answers that are accepted, or none.
CONSTANTS
  p1 = p1
  p2 = p2
  p3 = p3
  Peers = {p1, p2, p3}
  NoPeer = NoPeer
  NoCmd = NoCmd
  NoPhase = NoPhase
  MayBeRefused = FALSE
  Doubling = TRUE
  N = 2
  CardsPerPlayer = 1
  MaxStoss = 1
  MaxRaises = 1
  NobodyPlays <- BothWays
SPECIFICATION LiveSpec
PROPERTIES
  EveryGameEnds
  WaitersAreSeated
