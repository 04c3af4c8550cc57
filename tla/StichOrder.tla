------------------------------ MODULE StichOrder ------------------------------
(***************************************************************************)
(* Who is winning a Stich while its cards fall (preliminary_winner_index), *)
(* over the whole deck and every order of the cards there is.  The program *)
(* holds two descriptions of that order, compare_cards and the list        *)
(* trumpfs_in_descending_order, on which the Laufende are counted.         *)
(***************************************************************************)
EXTENDS Trumpf, FiniteSets

CONSTANTS
  DecidersPlayed,   \* the orders of the games that are played
  StichSize         \* the cards of a Stich, 4 in the program

ASSUME StichOrderAssumption ==
  /\ DecidersPlayed \subseteq Deciders
  /\ StichSize \in Nat \ {0}

VARIABLES
  decider,          \* the order of the game
  first,            \* the first card of the Stich
  cards,            \* all its cards
  best              \* the card of epi_best

vars == <<decider, first, cards, best>>

Init ==
  /\ decider \in DecidersPlayed
  /\ first \in AllCards
  /\ cards = {first}
  /\ best = first

\* one turn of the loop over the cards behind the first
Fall(card) ==
  /\ Cardinality(cards) < StichSize
  /\ card \notin cards
  /\ cards' = cards \cup {card}
  /\ best' = IF Less(decider, best, card) THEN card ELSE best
  /\ UNCHANGED <<decider, first>>

Full == Cardinality(cards) = StichSize /\ UNCHANGED vars

Next ==
  \/ \E card \in AllCards : Fall(card)
  \/ Full

Spec == Init /\ [][Next]_vars

------------------------------------------------------------------------------
\* The list names the cards that are Trumpf, and each of them once: a Schlag that
\* is Trumpf of its own is not listed again with the Farbe.
TrumpfsListedOnce ==
  LET listed == TrumpfsDescending(decider)
  IN  /\ Elements(listed) = { card \in AllCards : IsTrumpf(decider, card) }
      /\ Cardinality(Elements(listed)) = Len(listed)

\* The best card is the one that stands first in the list, or the highest of the
\* Farbe that was led if there is no Trumpf, in whichever order the others fell
\* and although cards of two other Farben cannot be compared.
BestIsHighest ==
  LET trumpfs == { card \in cards : IsTrumpf(decider, card) }
      rank(card) == Position(TrumpfsDescending(decider), card)
  IN  IF trumpfs # {}
      THEN best \in trumpfs /\ \A card \in trumpfs : rank(best) <= rank(card)
      ELSE /\ best.farbe = first.farbe
           /\ \A card \in cards :
                card.farbe = first.farbe => ~ FarbcardLess(decider, best, card)
==============================================================================
