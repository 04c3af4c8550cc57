-------------------------------- MODULE Search --------------------------------
(***************************************************************************)
(* explore_snapshots (main/src/ai/suspicion.rs): the search that goes      *)
(* through every line of play from a position, depth first, on one set of  *)
(* hands, one SStichSequence and one SRuleStateCache, which it changes on  *)
(* the way down and restores on the way back.                              *)
(*                                                                         *)
(* A search is a record s:                                                 *)
(*   game      what does not change: rules and contract with its price,    *)
(*             stock, stakes, the player epi that is searched for, whether *)
(*             hints prune, and how many cards are tried at most           *)
(*   ahand, vecstich                                                       *)
(*   deal      SRuleStateCacheFixed                                        *)
(*   cache     SRuleStateCacheChanging                                     *)
(*   stack     the calls of explore_snapshots_internal that wait for a     *)
(*             card to be explored                                         *)
(*   output    what the last call has returned, if it has                  *)
(* Sets with at most one element stand for Option.                         *)
(***************************************************************************)
EXTENDS MinMax, Trumpf, FiniteSets, SequencesExt

CONSTANTS N, Deck, MaxStoss, RunAway, ExtraPrice, LaufMin

\* the game of the position s, its rules and its Stichs
C(s) == INSTANCE CardPlay WITH
  GameRules <- {s.game.rules}, Deals <- {},
  rules <- s.game.rules, ahand <- s.ahand, vecstich <- s.vecstich, vecstoss <- <<>>

\* what the game of s is worth according to its cache
Worth(s) == INSTANCE Payout WITH
  PlayedDeals <- {}, PricesInFile <- {}, Contracts <- {},
  deal <- s.deal, contract <- s.game.contract, n_price <- s.game.n_price,
  winners <- [i \in 1 .. Len(s.vecstich) - 1 |-> s.vecstich[i + 1].epi_first],
  cache <- s.cache, undo <- <<>>

\* stichseq.current_stich().is_empty()
BetweenStichs(vecstich) == vecstich[Len(vecstich)].cards = <<>>

------------------------------------------------------------------------------
(***************************************************************************)
(* SRuleStateCache::new.                                                   *)
(***************************************************************************)
\* points_card
PointsCard(card) ==
  CASE card.schlag = "Ass" -> 11
    [] card.schlag = "Zehn" -> 10
    [] card.schlag = "Koenig" -> 4
    [] card.schlag = "Ober" -> 3
    [] card.schlag = "Unter" -> 2
    [] OTHER -> 0

\* the sum of a sequence, one value after the other
SumInOrder(values) ==
  LET upto[i \in 0 .. Len(values)] == IF i = 0 THEN 0 ELSE upto[i - 1] + values[i]
  IN  upto[Len(values)]

PointsStich(stich) == SumInOrder([i \in 1 .. Len(stich.cards) |-> PointsCard(stich.cards[i])])

\* who_has_card: who holds it or has played it
WhoHasCard(ahand, vecstich, card) ==
  CHOOSE epi \in EPIs :
    \/ card \in ahand[epi]
    \/ \E i \in DOMAIN vecstich : \E j \in DOMAIN vecstich[i].cards :
         vecstich[i].cards[j] = card /\ epi = (vecstich[i].epi_first + j - 1) % N

CardsPerPlayer == Cardinality(Deck) \div N

\* SRuleStateCacheFixed, as far as payouts ask for it (the points are not asked for)
Fixed(game, ahand, vecstich) ==
  LET trumpfs == Selected(TrumpfsDescending(game.rules.decider), Deck)
  IN  [trumpfs |-> [i \in DOMAIN trumpfs |-> WhoHasCard(ahand, vecstich, trumpfs[i])],
       rufsau |-> IF game.rules.kind = "Rufspiel"
                  THEN WhoHasCard(ahand, vecstich, Card(game.rules.farbe, "Ass")) ELSE 0,
       points |-> [i \in 1 .. CardsPerPlayer |-> 0]]

\* the cache after the completed Stichs, registered one after the other
Recount(vecstich) ==
  LET counts[i \in 0 .. Len(vecstich) - 1] ==
        IF i = 0 THEN [epi \in EPIs |-> [n_stich |-> 0, n_point |-> 0]]
        ELSE [counts[i - 1] EXCEPT ![vecstich[i + 1].epi_first] =
                [n_stich |-> @.n_stich + 1, n_point |-> @.n_point + PointsStich(vecstich[i])]]
  IN  counts[Len(vecstich) - 1]

------------------------------------------------------------------------------
(***************************************************************************)
(* What a call returns at once.                                            *)
(***************************************************************************)
\* final_output: payout_with_cache of a finished game
FinalOutput(s) == NewFinal(Worth(s)!PayoutIncludingStock(Worth(s)!PayoutInfos, s.game.n_stock, s.game.stakes))

\* the last Stich: every hand has one card or has played it.  It is registered,
\* paid out and taken back again within the call.
WithStichRegistered(s) ==
  [s EXCEPT !.cache[s.vecstich[Len(s.vecstich)].epi_first] =
     [n_stich |-> @.n_stich + 1,
      n_point |-> @.n_point + PointsStich(s.vecstich[Len(s.vecstich) - 1])]]

PlayedToTheEnd(s) ==
  LET stich == C(s)!CurrentStich
      n == Len(stich.cards)
      last == [i \in 1 .. N - n |-> CHOOSE card \in s.ahand[C(s)!SeatAt(stich, n + i)] : TRUE]
      full == [stich EXCEPT !.cards = @ \o last]
  IN  WithStichRegistered(
        [s EXCEPT !.vecstich = Append(Front(@), full) \o <<C(s)!Stich(C(s)!PreliminaryWinner(full), <<>>)>>])

OneCardEach(s) == \A epi \in EPIs : Cardinality(s.ahand[epi]) <= 1

\* SPrunerViaHint: every seat has a lower bound, and that of epi is a gain.  Only the
\* hints of a Bettel bound every seat from below, and a Bettel leaves the stock alone.
PrunedOutputAnyBound(s) ==
  LET hints == Worth(s)!PayoutHints
  IN  IF s.game.b_prune /\ \E n \in hints[s.game.epi].lower : n > 0
      THEN { NewFinal([epi \in EPIs |->
                 (IF hints[epi].lower # {} THEN CHOOSE n \in hints[epi].lower : TRUE ELSE 0)
                   * s.game.stakes]) }
      ELSE {}

PrunedOutput(s) ==
  LET hints == Worth(s)!PayoutHints
  IN  IF s.game.b_prune
         /\ \A epi \in EPIs : hints[epi].lower # {}
         /\ \A n \in hints[s.game.epi].lower : n > 0
      THEN { NewFinal([epi \in EPIs |-> (CHOOSE n \in hints[epi].lower : TRUE) * s.game.stakes]) }
      ELSE {}

\* branching_factor: any n of the cards, n from a range, or all if they are fewer
Filtered(game, cards) ==
  IF game.branches = {} THEN {cards}
  ELSE { some \in SUBSET cards :
           \E n \in game.branches :
             Cardinality(some) = (IF n < Cardinality(cards) THEN n ELSE Cardinality(cards)) }

------------------------------------------------------------------------------
(***************************************************************************)
(* The steps of a search.                                                  *)
(***************************************************************************)
\* a call of explore_snapshots_internal: it returns, or has cards to try
Call(s) ==
  IF OneCardEach(s) THEN { [s EXCEPT !.output = {FinalOutput(PlayedToTheEnd(s))}] }
  ELSE IF PrunedOutput(s) # {} THEN { [s EXCEPT !.output = PrunedOutput(s)] }
  ELSE LET epi == C(s)!Current
       IN  { [s EXCEPT !.stack = Append(@,
                [epi |-> epi, todo |-> cards, card |-> {}, stich |-> {}, best |-> {}])] :
             cards \in Filtered(s.game, C(s)!AllAllowedCards(epi)) }

\* explore_snapshots, after epi has played the card that is judged
Begin(game, ahand, vecstich) ==
  Call([game |-> game, ahand |-> ahand, vecstich |-> vecstich,
        deal |-> Fixed(game, ahand, vecstich), cache |-> Recount(vecstich),
        stack |-> <<>>, output |-> {}])

Finished(s) == s.stack = <<>> /\ s.output # {}

\* the next card of the innermost call is played, and a Stich it completes registered
Explore(s, card) ==
  LET frame == Last(s.stack)
      epi == frame.epi
      played == [s EXCEPT !.ahand[epi] = @ \ {card}, !.vecstich = C(s)!StichsAfter(card)]
      complete == BetweenStichs(played.vecstich)
      winner == C(played)!CurrentStich.epi_first
      called == [frame EXCEPT !.todo = @ \ {card}, !.card = {card},
                   !.stich = IF complete
                             THEN {[epi_winner |-> winner, n_points_before |-> s.cache[winner].n_point]}
                             ELSE {}]
      below == [played EXCEPT !.stack = Append(Front(@), called)]
  IN  Call(IF complete THEN WithStichRegistered(below) ELSE below)

\* the call for a card returns: its Stich is unregistered, the card taken back, and
\* what it returned combined with the cards before
TakeBackKeepingStich(s) ==
  LET frame == Last(s.stack)
  IN  [s EXCEPT !.ahand[frame.epi] = @ \cup frame.card, !.vecstich = C(s)!Restored(@)]

TakeBack(s) ==
  LET frame == Last(s.stack)
  IN  [s EXCEPT !.cache = [epi \in EPIs |->
                  IF \E stich \in frame.stich : stich.epi_winner = epi
                  THEN [n_stich |-> @[epi].n_stich - 1,
                        n_point |-> (CHOOSE stich \in frame.stich : TRUE).n_points_before]
                  ELSE @[epi]],
                !.ahand[frame.epi] = @ \cup frame.card,
                !.vecstich = C(s)!Restored(@)]

Return(s) ==
  LET frame == Last(s.stack)
      combined == { IF frame.best = {} THEN output
                    ELSE Combine(s.game.epi, frame.epi, CHOOSE best \in frame.best : TRUE, output) :
                    output \in s.output }
      back == TakeBack(s)
  IN  IF frame.todo = {}
      THEN [back EXCEPT !.stack = Front(@), !.output = combined]
      ELSE [back EXCEPT !.stack = Append(Front(@), [frame EXCEPT !.card = {}, !.stich = {}, !.best = combined]),
                        !.output = {}]
==============================================================================
