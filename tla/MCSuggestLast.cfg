\* The subcommand suggest-card with one card left.
CONSTANTS
  w1 = w1
  w2 = w2
  Workers = {w1, w2}
  N = 4
  MaxStoss = 0
  RunAway = 4
  ExtraPrice = 10
  LaufMin = 3
  Deck <- ShortDeck
  Games <- CommandLine
  NoPruningUpTo = 1
  AllHandsUpTo = 3
  TasksAhead = 0
SYMMETRY Symmetry
SPECIFICATION Spec
INVARIANTS
  SomebodyHasACard
