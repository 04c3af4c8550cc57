\* Every Rufspiel on every deal, and the other kinds of games with stakes doubled
\* twice; two cards of the Farbe are enough to run away.
CONSTANTS
  N = 3
  MaxStoss = 2
  RunAway = 2
  Deck <- Cards9
  GameRules <- AllGames
  Deals <- AllDeals
SPECIFICATION MCSpec
CONSTRAINT StossBound
INVARIANTS
  TypeOK
  AllowedNonempty
  RufsauIsFound
  RufsauIsKept
  SuitIsFollowed
  StichGoesToHighest
  SearchRestores
PROPERTY PlaysAsGamePhase
