------------------------------- MODULE CardPlay -------------------------------
(***************************************************************************)
(* Playing the cards: SGame and SStichSequence (main/src/game/mod.rs) with *)
(* the rules that decide which cards are allowed and who wins a Stich      *)
(* (main/src/rules).                                                       *)
(***************************************************************************)
EXTENDS Integers, Sequences, FiniteSets, Trumpf

CONSTANTS
  N,              \* EPlayerIndex::SIZE, 4 in the program
  Deck,           \* the cards of the game, as many for every seat
  GameRules,      \* the rules objects that may be played
  Deals,          \* the hands that may be dealt
  MaxStoss,       \* SStossParams.n_stoss_max
  RunAway         \* cards of the Ruffarbe it takes to lead one of them, 4 in the program

Seats == 0 .. N - 1

\* a rules object: its kind, who plays it (epi, N in a Ramsch), the order of the
\* cards, and the called Farbe of a Rufspiel
Kinds == {"Rufspiel", "SoloLike", "Ramsch", "Bettel", "BettelStichzwang"}

CardsPerPlayer == Cardinality(Deck) \div N

ASSUME CardPlayAssumption ==
  /\ N \in Nat \ {0, 1}
  /\ Deck \subseteq AllCards
  /\ IsFiniteSet(Deck)
  /\ Cardinality(Deck) = N * CardsPerPlayer
  /\ CardsPerPlayer > 0
  /\ MaxStoss \in Nat
  /\ RunAway \in Nat
  /\ GameRules \subseteq [kind : Kinds, epi : 0 .. N, decider : Deciders, farbe : Elements(Farben)]
  /\ \A r \in GameRules : r.epi = N <=> r.kind = "Ramsch"
  /\ \A r \in GameRules :
       r.kind = "Rufspiel" => r.farbe # r.decider.farbe /\ Card(r.farbe, "Ass") \in Deck
  /\ \A hands \in Deals :
       /\ hands \in [Seats -> SUBSET Deck]
       /\ UNION { hands[epi] : epi \in Seats } = Deck
       /\ \A epi \in Seats :
            /\ Cardinality(hands[epi]) = CardsPerPlayer
            /\ \A other \in Seats \ {epi} : hands[epi] \cap hands[other] = {}

VARIABLES
  rules,          \* SGame.rules
  ahand,          \* SGame.ahand
  vecstich,       \* SStichSequence.vecstich: the last one is the current one
  vecstoss        \* SGame.vecstoss

vars == <<rules, ahand, vecstich, vecstoss>>

(***************************************************************************)
(* A Stich: the seat that leads it and its cards in the order they fell.   *)
(***************************************************************************)
Stich(epi_first, cards) == [epi_first |-> epi_first, cards |-> cards]

SeatAt(stich, i) == (stich.epi_first + i - 1) % N

IsFull(stich) == Len(stich.cards) = N

First(stich) == stich.cards[1]

CardOf(stich, epi) == stich.cards[((epi - stich.epi_first) % N) + 1]

CompletedStichs == SubSeq(vecstich, 1, Len(vecstich) - 1)
CurrentStich == vecstich[Len(vecstich)]

GameFinished == Len(CompletedStichs) = CardsPerPlayer
NoCardPlayed == Len(vecstich) = 1 /\ CurrentStich.cards = <<>>

(***************************************************************************)
(* preliminary_winner_index: the best card so far, card after card.        *)
(***************************************************************************)
BeatsBest(stich, best, i) == Less(rules.decider, stich.cards[best], stich.cards[i])

PreliminaryWinnerOfLast(stich) ==
  LET best[i \in 1 .. Len(stich.cards)] ==
        IF i = 1 \/ BeatsBest(stich, i - 1, i) THEN i ELSE best[i - 1]
  IN  SeatAt(stich, best[Len(stich.cards)])

PreliminaryWinner(stich) ==
  LET best[i \in 1 .. Len(stich.cards)] ==
        IF i = 1 \/ BeatsBest(stich, best[i - 1], i) THEN i ELSE best[i - 1]
  IN  SeatAt(stich, best[Len(stich.cards)])

------------------------------------------------------------------------------
(***************************************************************************)
(* all_allowed_cards.                                                      *)
(***************************************************************************)
Suit(card) == TrumpfOrFarbe(rules.decider, card)

Rufsau == Card(rules.farbe, "Ass")

IsRuffarbe(card) == Suit(card) = rules.farbe

\* is the holder of the Rufsau known: somebody led the Ruffarbe, or it has been played
RufsauKnown ==
  \E i \in 1 .. Len(CompletedStichs) :
    \/ IsRuffarbe(First(CompletedStichs[i]))
    \/ Rufsau \in Elements(CompletedStichs[i].cards)

RufspielFirstUnlessSau(hand) ==
  IF RufsauKnown \/ Rufsau \notin hand
     \/ RunAway <= Cardinality({ card \in hand : IsRuffarbe(card) })
  THEN hand
  ELSE { card \in hand : ~ IsRuffarbe(card) }

RufspielFirst(hand) ==
  IF RufsauKnown \/ Rufsau \notin hand
     \/ RunAway <= Cardinality({ card \in hand : IsRuffarbe(card) })
  THEN hand
  ELSE { card \in hand : ~ IsRuffarbe(card) \/ card = Rufsau }

RufspielWithinFree(epi, hand) ==
  LET same == { card \in hand : Suit(card) = Suit(First(CurrentStich)) }
  IN  IF same = {} THEN hand ELSE same

\* epi has led the Ruffarbe itself
HasRunAway(epi) ==
  \E i \in 1 .. Len(CompletedStichs) :
    CompletedStichs[i].epi_first = epi /\ IsRuffarbe(First(CompletedStichs[i]))

\* who has run away is free before it is asked to follow suit
RufspielWithinFreeFirst(epi, hand) ==
  LET same == { card \in hand \ {Rufsau} : Suit(card) = Suit(First(CurrentStich)) }
  IN  IF HasRunAway(epi) THEN hand
      ELSE IF IsRuffarbe(First(CurrentStich)) /\ Rufsau \in hand THEN {Rufsau}
      ELSE IF same # {} THEN same ELSE hand

RufspielWithin(epi, hand) ==
  LET first == First(CurrentStich)
      same == { card \in hand \ {Rufsau} : Suit(card) = Suit(first) }
  IN  IF Cardinality(hand) <= 1 THEN hand
      ELSE IF IsRuffarbe(first) /\ Rufsau \in hand /\ ~ HasRunAway(epi) THEN {Rufsau}
      ELSE IF same # {} THEN same
      ELSE IF HasRunAway(epi) THEN hand
      ELSE hand \ {Rufsau}

\* all_allowed_cards_within_stich_distinguish_farbe_frei
Following(hand) ==
  LET same == { card \in hand : Suit(card) = Suit(First(CurrentStich)) }
  IN  IF same = {} THEN hand ELSE same

\* SBettelAllAllowedCardsWithinStichStichzwang: who can, takes the Stich
Stichzwang(hand) ==
  LET highest == CardOf(CurrentStich, PreliminaryWinner(CurrentStich))
      higher == { card \in Following(hand) :
                    /\ Suit(card) = Suit(First(CurrentStich))
                    /\ FarbcardLess(BettelDecider, highest, card) }
  IN  IF higher = {} THEN Following(hand) ELSE higher

AllAllowedCards(epi) ==
  LET hand == ahand[epi]
  IN  IF CurrentStich.cards = <<>>
      THEN IF rules.kind = "Rufspiel" THEN RufspielFirst(hand) ELSE hand
      ELSE CASE rules.kind = "Rufspiel" -> RufspielWithin(epi, hand)
             [] rules.kind = "BettelStichzwang" -> Stichzwang(hand)
             [] OTHER -> Following(hand)

------------------------------------------------------------------------------
(***************************************************************************)
(* which_player_can_do_something: the seat that has to play a card, and    *)
(* before the first card also the seats that may double the stakes.        *)
(***************************************************************************)
Current == SeatAt(CurrentStich, Len(CurrentStich.cards) + 1)

StossAllowed(epi) ==
  LET active == epi = rules.epi \/ (rules.kind = "Rufspiel" /\ Rufsau \in ahand[epi])
  IN  rules.kind # "Ramsch" /\ (active <=> Len(vecstoss) % 2 = 1)

MayStossAnyTime(epi) ==
  ~ GameFinished /\ Len(vecstoss) < MaxStoss /\ StossAllowed(epi)

MayStoss(epi) ==
  ~ GameFinished /\ NoCardPlayed /\ Len(vecstoss) < MaxStoss /\ StossAllowed(epi)

\* can_be_played, which announce_game has checked
CanBePlayed(r, hand) ==
  r.kind = "Rufspiel" =>
    LET ruffarbe == { card \in hand : TrumpfOrFarbe(r.decider, card) = r.farbe }
    IN  ruffarbe # {} /\ \A card \in ruffarbe : card.schlag # "Ass"

Init ==
  /\ rules \in GameRules
  /\ ahand \in Deals
  /\ rules.epi \in Seats => CanBePlayed(rules, ahand[rules.epi])
  /\ vecstich = <<Stich(0, <<>>)>>
  /\ vecstoss = <<>>

\* SGame::stoss
DoStoss(epi) ==
  /\ MayStoss(epi)
  /\ vecstoss' = Append(vecstoss, epi)
  /\ UNCHANGED <<rules, ahand, vecstich>>

\* SStichSequence::zugeben: a full Stich is followed by a new one
StichsAfter(card) ==
  LET stich == [CurrentStich EXCEPT !.cards = Append(@, card)]
  IN  Append(CompletedStichs, stich)
        \o (IF IsFull(stich) THEN <<Stich(PreliminaryWinner(stich), <<>>)>> ELSE <<>>)

RestoredKeepingNewStich(stichs) ==
  LET last == Len(stichs)
  IN  [stichs EXCEPT ![last].cards =
         IF @ = <<>> THEN <<>> ELSE SubSeq(@, 1, Len(@) - 1)]

\* the second half of zugeben_and_restore, with which the search of the AI takes
\* a card back: it goes by the current Stich being empty
Restored(stichs) ==
  LET last == Len(stichs) - (IF stichs[Len(stichs)].cards = <<>> THEN 1 ELSE 0)
  IN  [SubSeq(stichs, 1, last) EXCEPT ![last].cards = SubSeq(@, 1, Len(@) - 1)]

ZugebenKeepingCard(epi, card) ==
  /\ ~ GameFinished
  /\ epi = Current
  /\ card \in AllAllowedCards(epi)
  /\ vecstich' = StichsAfter(card)
  /\ UNCHANGED <<rules, ahand, vecstoss>>

\* SGame::zugeben
Zugeben(epi, card) ==
  /\ ~ GameFinished
  /\ epi = Current
  /\ card \in AllAllowedCards(epi)
  /\ ahand' = [ahand EXCEPT ![epi] = @ \ {card}]
  /\ vecstich' = StichsAfter(card)
  /\ UNCHANGED <<rules, vecstoss>>

\* the game goes on to its result
Finished == GameFinished /\ UNCHANGED vars

Next ==
  \/ \E epi \in Seats : DoStoss(epi)
  \/ \E epi \in Seats : \E card \in ahand[epi] : Zugeben(epi, card)
  \/ Finished

Spec == Init /\ [][Next]_vars

------------------------------------------------------------------------------
(***************************************************************************)
(* Properties.                                                             *)
(***************************************************************************)
CardsOf(stichs) == UNION { Elements(stichs[i].cards) : i \in 1 .. Len(stichs) }

\* the cards that a seat holds or has played
Dealt(epi) ==
  ahand[epi] \cup { CardOf(CompletedStichs[i], epi) : i \in 1 .. Len(CompletedStichs) }
             \cup { CurrentStich.cards[i] : i \in { j \in 1 .. Len(CurrentStich.cards) :
                                                      SeatAt(CurrentStich, j) = epi } }

\* SStichSequence::assert_invariant, and no card gets lost or appears twice: what
\* a seat has played and what it holds is one hand of the deal, in every state.
TypeOK ==
  /\ rules \in GameRules
  /\ vecstoss \in Seq(Seats) /\ Len(vecstoss) <= MaxStoss
  /\ vecstich # <<>> /\ vecstich[1].epi_first = 0
  /\ \A i \in 1 .. Len(vecstich) :
       /\ vecstich[i].epi_first \in Seats
       /\ vecstich[i].cards \in Seq(Deck)
       /\ IsFull(vecstich[i]) <=> i < Len(vecstich)
       /\ Len(vecstich[i].cards) <= N
  /\ Len(CompletedStichs) <= CardsPerPlayer
  /\ GameFinished => CurrentStich.cards = <<>>
  /\ UNION { Dealt(epi) : epi \in Seats } = Deck
  /\ \A epi \in Seats :
       /\ Cardinality(Dealt(epi)) = CardsPerPlayer
       /\ ahand[epi] \cap CardsOf(vecstich) = {}

\* all_allowed_cards asserts that it always finds one: nobody is ever stuck.
AllowedNonempty == ~ GameFinished => AllAllowedCards(Current) # {}

\* However far the search has gone, taking the last card back restores the Stichs.
SearchRestores ==
  ~ GameFinished => \A card \in AllAllowedCards(Current) : Restored(StichsAfter(card)) = vecstich

\* The leader of the next Stich is the one whose card nothing in the Stich beats,
\* a Trumpf if there is one and a card of the suit that was led otherwise: the
\* comparison is partial, and the loop over the cards compares only neighbours.
StichGoesToHighest ==
  \A i \in 1 .. Len(CompletedStichs) :
    LET cards == CompletedStichs[i].cards
        best == CardOf(CompletedStichs[i], vecstich[i + 1].epi_first)
    IN  /\ \A j \in 1 .. N : ~ Less(rules.decider, best, cards[j])
        /\ Suit(best) = IF \E j \in 1 .. N : Suit(cards[j]) = "Trumpf"
                        THEN "Trumpf" ELSE Suit(cards[1])

\* Who does not follow suit has no card of it, then or later, the Rufsau excepted.
SuitIsFollowed ==
  \A i \in 1 .. Len(CompletedStichs) : \A epi \in Seats :
    LET led == Suit(First(CompletedStichs[i]))
        later == ahand[epi] \cup
                 { CardOf(CompletedStichs[j], epi) : j \in i + 1 .. Len(CompletedStichs) }
    IN  Suit(CardOf(CompletedStichs[i], epi)) # led =>
          \A card \in later : Suit(card) = led => rules.kind = "Rufspiel" /\ card = Rufsau

(***************************************************************************)
(* The Rufsau is found: the first time somebody leads its Farbe, either it *)
(* falls in that Stich, or its holder is the one who led it, with RunAway  *)
(* cards of it.                                                            *)
(***************************************************************************)
Led(i) == First(CompletedStichs[i])

RufsauIsFound ==
  rules.kind = "Rufspiel" =>
    \A i \in 1 .. Len(CompletedStichs) :
      /\ IsRuffarbe(Led(i))
      /\ \A j \in 1 .. i - 1 : ~ IsRuffarbe(Led(j)) /\ Rufsau \notin Elements(CompletedStichs[j].cards)
      => \/ Rufsau \in Elements(CompletedStichs[i].cards)
         \/ LET epi == CompletedStichs[i].epi_first
                before == { CardOf(CompletedStichs[j], epi) : j \in 1 .. i - 1 }
                since == Dealt(epi) \ before
            IN  Rufsau \in since /\ Cardinality({ card \in since : IsRuffarbe(card) }) >= RunAway

(***************************************************************************)
(* The Rufsau is kept: until its Farbe was led it does not fall unless it  *)
(* is led itself or is the last card.                                      *)
(***************************************************************************)
RufsauIsKept ==
  rules.kind = "Rufspiel" =>
    \A i \in 1 .. Len(CompletedStichs) :
      Rufsau \in Elements(CompletedStichs[i].cards) =>
        \/ i = CardsPerPlayer
        \/ \E j \in 1 .. i : IsRuffarbe(Led(j))

(***************************************************************************)
(* A table sees no more of this than the Game of module GamePhases: which  *)
(* seat it has to ask, how many cards were played and the stakes doubled.  *)
(***************************************************************************)
P == INSTANCE GamePhases WITH
  Doubling <- TRUE,
  MaxRaises <- 0,
  NobodyPlays <- {"Ramsch"}

Active ==
  { epi \in Seats : epi = rules.epi \/ (rules.kind = "Rufspiel" /\ Rufsau \in Dealt(epi)) }

CardsPlayed == N * Len(CompletedStichs) + Len(CurrentStich.cards)

GamePhase == P!Game(Active, Current, CardsPlayed, Len(vecstoss))

PlaysAsGamePhase ==
  [][ \/ \E epi \in Seats : P!MayStoss(GamePhase, epi) /\ GamePhase' = P!AfterStoss(GamePhase)
      \/ \E epi \in GamePhase.asked : GamePhase' \in P!AfterAnswer(GamePhase, epi) ]_vars
==============================================================================
