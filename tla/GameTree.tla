------------------------------- MODULE GameTree -------------------------------
(***************************************************************************)
(* What the suggestion of a card promises, stated with the game tree of a  *)
(* position: every line of play, without a cache, pruning or an order in   *)
(* which cards are tried.                                                  *)
(***************************************************************************)
EXTENDS Suggest

\* the positions one card later
Followers(s) ==
  LET seat == C(s)!Current
  IN  { [s EXCEPT !.ahand[seat] = @ \ {card}, !.vecstich = C(s)!StichsAfter(card)] :
        card \in C(s)!AllAllowedCards(seat) }

CardsLeft(s) == Total([seat \in Seats |-> Cardinality(s.ahand[seat])])

Tree(s) ==
  LET level[k \in 0 .. CardsLeft(s)] ==
        IF k = 0 THEN {s} ELSE UNION { Followers(t) : t \in level[k - 1] }
  IN  UNION { level[k] : k \in 0 .. CardsLeft(s) }

\* what the player epi of s gets if helpers play for it and the others against it
Value(s, helpers) ==
  LET Paid(t) ==
        LET end == [t EXCEPT !.cache = Recount(t.vecstich)]
        IN  Worth(end)!PayoutIncludingStock(Worth(end)!PayoutInfos, t.game.n_stock, t.game.stakes)[t.game.epi]
      value[t \in Tree(s)] ==
        IF CardsLeft(t) = 0 THEN Paid(t)
        ELSE LET values == { value[u] : u \in Followers(t) }
             IN  IF C(t)!Current \in helpers THEN Max(values) ELSE Min(values)
  IN  value[s]

\* the position of a search that begins with these hands
Judged(ahand, card) ==
  LET game == SearchedGame
      left == [ahand EXCEPT ![EpiFixed] = @ \ {card}]
      vecstich == C(pos)!StichsAfter(card)
  IN  [game |-> game, ahand |-> left, vecstich |-> vecstich, deal |-> Fixed(game, left, vecstich),
       cache |-> Recount(vecstich)]

\* the position that a search has come to
PositionIn(s) ==
  [game |-> s.game, ahand |-> s.ahand, vecstich |-> s.vecstich, deal |-> s.deal, cache |-> s.cache]

\* who plays together with epi, if there are two parties
Party(s) ==
  LET primary == Worth(s)!Parties.primary
  IN  IF s.game.epi \in primary THEN primary ELSE EPIs \ primary

AllBranches == SearchedGame.branches = {}

------------------------------------------------------------------------------
(***************************************************************************)
(* Properties.                                                             *)
(***************************************************************************)
\* Wherever a worker is, no card is lost or held twice and its cache counts the Stichs
\* as they are; when it has finished, explore_snapshots has taken back every card and
\* every Stich on all lines of play (its hands and Stichs are passed as &mut).
SearchKeepsPosition ==
  \A w \in Workers : \A s \in worker[w].search : \A card \in worker[w].card :
    /\ s.cache = Recount(s.vecstich)
    /\ \A i \in 2 .. Len(s.vecstich) :
         s.vecstich[i].epi_first = C(s)!PreliminaryWinner(s.vecstich[i - 1])
    /\ Deck = (UNION { s.ahand[seat] : seat \in Seats }) \cup C(s)!CardsOf(s.vecstich)
    /\ Cardinality(Deck) = CardsLeft(s) + N * (Len(s.vecstich) - 1) + Len(Last(s.vecstich).cards)
    /\ Finished(s) =>
         /\ s.vecstich = C(pos)!StichsAfter(card)
         /\ [s.ahand EXCEPT ![EpiFixed] = @ \cup {card}] \in ToSet(pulled)

\* A finished search has found the value of the game tree: t_min against everybody,
\* t_max with everybody, and between two parties both selfish values are what the
\* party can reach.  Whatever the branches, the selfish values lie in between.
SearchFindsValue ==
  \A w \in Workers : \A s \in worker[w].search : \A output \in s.output :
    Finished(s) =>
      LET epi == s.game.epi
      IN  /\ output["t_min"][epi] <= output["t_selfish_min"][epi]
          /\ output["t_min"][epi] <= output["t_selfish_max"][epi]
          /\ output["t_selfish_min"][epi] <= output["t_max"][epi]
          /\ output["t_selfish_max"][epi] <= output["t_max"][epi]
          /\ s.game.branches = {} =>
               /\ output["t_min"][epi] = Value(PositionIn(s), {epi})
               /\ output["t_max"][epi] = Value(PositionIn(s), EPIs)
               /\ s.game.rules.kind # "Ramsch" =>
                    /\ output["t_selfish_min"][epi] = Value(PositionIn(s), Party(s))
                    /\ output["t_selfish_max"][epi] = Value(PositionIn(s), Party(s))

\* all_possible_hands: when a card is suggested, every distribution of the unknown cards
\* with which the game could have gone as it has was searched, the true one among them,
\* and none twice.
PossibleHandsOnce ==
  (suggested # {} /\ AtOnce = {} /\ ~ pos.ai.cheating /\ Remaining(EpiFixed) <= AllHandsUpTo) =>
    /\ \A i, j \in DOMAIN pulled : pulled[i] = pulled[j] => i = j
    /\ ToSet(pulled) = { ahand \in Dealings : Compatible(ahand) }
    /\ pos.ahand \in ToSet(pulled)

\* No hand is searched that contradicts what was seen: who did not follow suit has no
\* card of it left (the Rufsau excepted), and who called an Ass has not been dealt it
\* but has a card of its Farbe.
HandsFitWhatWasSeen ==
  pulled # <<>> =>
    LET Since(k, seat) == Before(Last(pulled), k).ahand[seat]
        Led(k) == C(pos)!Suit(pos.vecstich[StichOf(k)].cards[1])
        player == pos.game.rules.epi
    IN  /\ \A k \in 1 .. CountPlayed : C(pos)!Suit(PlayedCard(k)) # Led(k) =>
             \A card \in Since(k, PlayedBy(k)) :
               C(pos)!Suit(card) = Led(k) => pos.game.rules.kind = "Rufspiel" /\ card = C(pos)!Rufsau
        /\ pos.game.rules.kind = "Rufspiel" =>
             /\ C(pos)!Rufsau \notin Since(1, player)
             /\ \E card \in Since(1, player) : C(pos)!IsRuffarbe(card)

\* However the workers take turns, no result is lost or counted twice: the statistics
\* of every card that may be played are those of all the hands that were searched.
EveryHandCounts ==
  (suggested # {} /\ AtOnce = {}) =>
    \A card \in AllowedCards : \A stats \in mapcardooutput[card] :
      /\ \A strategy \in Strategies : stats[strategy].n_count = Len(pulled)
      /\ AllBranches =>
           LET values == [i \in DOMAIN pulled |-> Value(Judged(pulled[i], card), {EpiFixed})]
           IN  /\ stats["t_min"].n_sum = SumInOrder(values)
               /\ stats["t_min"].n_min = Min(ToSet(values))
               /\ stats["t_min"].n_max = Max(ToSet(values))

\* Who can win for certain does: if one of the cards wins with every hand that is
\* possible, whatever the others play, the card that is suggested wins on the true deal.
SureWinIsTaken ==
  (suggested # {} /\ AtOnce = {} /\ AllBranches) =>
    LET Wins(card, ahand) == Value(Judged(ahand, card), {EpiFixed}) > 0
    IN  (\E card \in AllowedCards : \A i \in DOMAIN pulled : Wins(card, pulled[i])) =>
          \A card \in suggested : Wins(card, pos.ahand)

\* all_allowed_cards asserts that the hand it is asked about is not empty (rules/mod.rs
\* 323): a task for explore_snapshots leaves somebody a card to play.
SomebodyHasACard ==
  \A task \in tasks : \E seat \in Seats : [task.ahand EXCEPT ![EpiFixed] = @ \ {task.card}][seat] # {}
==============================================================================
