\* Three cards: the loop compares the best one with the next, so a fourth adds nothing new.
CONSTANTS
  DecidersPlayed <- MCDeciders
  StichSize = 3
SPECIFICATION Spec
INVARIANTS
  TrumpfsListedOnce
  BestIsHighest
