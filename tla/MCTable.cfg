\* Three seats and four peers: somebody always has to wait in line.
CONSTANTS
  p1 = p1
  p2 = p2
  p3 = p3
  p4 = p4
  Peers = {p1, p2, p3, p4}
  NoPeer = NoPeer
  NoCmd = NoCmd
  NoPhase = NoPhase
  MayBeRefused = TRUE
  Doubling = TRUE
  N = 3
  CardsPerPlayer = 2
  MaxStoss = 2
  MaxRaises = 1
  NobodyPlays <- BothWays
SYMMETRY Symmetry
SPECIFICATION Spec
INVARIANTS
  TypeOK
  CommandIsFresh
  OnePlaceEach
  OnlyLostPeersPoison
PROPERTY SeatsRotate
