-------------------------------- MODULE Suggest --------------------------------
(***************************************************************************)
(* How the AI finds a card (SAi::suggest_card, determine_best_card of      *)
(* main/src/ai/mod.rs, the hand iterators of main/src/ai/handiterators.rs, *)
(* the advice of main/src/ai/rulespecific/airufspiel.rs): an iterator      *)
(* deals the unknown cards to the others in every way that agrees with the *)
(* game so far; for each of these hands and each allowed card a worker     *)
(* searches what the card is worth, and enters it into statistics that all *)
(* workers share behind a mutex.                                           *)
(***************************************************************************)
EXTENDS Search

CONSTANTS
  Workers,          \* the threads of rayon
  Games,            \* positions: [game, ahand, vecstich, ai, b_shortcuts]; ai is the SAi:
                    \* whether it cheats, n_suggest_card_branches, n_suggest_card_samples
  NoPruningUpTo,    \* cards on hand up to which hints do not prune, 3 in the program
  AllHandsUpTo,     \* cards on hand up to which all hands are searched, 4 in the program
  TasksAhead        \* bound: how many tasks may wait when further hands are taken

Seats == EPIs

GameRules == [kind : C(<<>>)!Kinds, epi : 0 .. N, decider : Deciders, farbe : Elements(Farben)]
RulesContracts == [kind : Worth(<<>>)!Kinds, epi : EPIs, points_to_win : 61 .. 120]

ASSUME SuggestAssumption ==
  /\ N = 4
  /\ Deck \subseteq AllCards
  /\ IsFiniteSet(Deck)
  /\ Cardinality(Deck) = N * CardsPerPlayer
  /\ ExtraPrice \in Nat /\ LaufMin \in Nat
  /\ NoPruningUpTo \in Nat /\ AllHandsUpTo \in Nat
  /\ \A g \in Games :
       /\ g.game \in [rules : GameRules, contract : RulesContracts, n_price : Nat,
                      n_stock : Nat, stakes : Nat \ {0}]
       /\ g.game.rules.epi = N <=> g.game.rules.kind = "Ramsch"
       /\ g.game.rules.kind = "Rufspiel" => g.game.rules.farbe # g.game.rules.decider.farbe
       /\ g.ahand \in [Seats -> SUBSET Deck]
       /\ g.vecstich # <<>> /\ g.vecstich \in Seq([epi_first : Seats, cards : Seq(Deck)])
       /\ Len(g.vecstich) <= CardsPerPlayer
       /\ g.ai \in [cheating : BOOLEAN, branches : Nat \ {0}, samples : Nat \ {0}]
       /\ g.b_shortcuts \in BOOLEAN

VARIABLES
  pos,            \* the game that the card is wanted for
  vecepi,         \* SHandIterator.vecepi
  b_valid,        \* SHandIterator.b_valid
  pulled,         \* the hands that the iterator has given, in order
  tasks,          \* hands and cards that no worker has begun with
  worker,         \* the search of each worker, and its card
  mapcardooutput, \* the statistics of each card, {} for None
  suggested       \* the card, {} until it is found

vars == <<pos, vecepi, b_valid, pulled, tasks, worker, mapcardooutput, suggested>>

Idle == [card |-> {}, search |-> {}]

------------------------------------------------------------------------------
(***************************************************************************)
(* SDetermineBestCard.                                                     *)
(***************************************************************************)
EpiFixed == C(pos)!Current
HandFixed == pos.ahand[EpiFixed]
AllowedCards == C(pos)!AllAllowedCards(EpiFixed)

\* remaining_cards_per_hand
Remaining(epi) ==
  LET stich == C(pos)!CurrentStich
      played == \E i \in DOMAIN stich.cards : C(pos)!SeatAt(stich, i) = epi
  IN  CardsPerPlayer - Len(C(pos)!CompletedStichs) - (IF played THEN 1 ELSE 0)

\* what SAi::suggest_card chooses by the cards on hand
SearchedGame ==
  [rules |-> pos.game.rules, contract |-> pos.game.contract, n_price |-> pos.game.n_price,
   n_stock |-> pos.game.n_stock, stakes |-> pos.game.stakes,
   epi |-> EpiFixed,
   b_prune |-> Remaining(EpiFixed) > NoPruningUpTo,
   branches |-> IF Remaining(EpiFixed) > AllHandsUpTo THEN 1 .. pos.ai.branches ELSE {}]

------------------------------------------------------------------------------
(***************************************************************************)
(* SHandIterator: the unknown cards, in the order of all cards, go to the  *)
(* seats of vecepi, which runs through its permutations.                   *)
(***************************************************************************)
AllCardsInOrder ==
  [i \in 1 .. Len(Farben) * Len(Schlaege) |->
     Card(Farben[((i - 1) \div Len(Schlaege)) + 1], Schlaege[((i - 1) % Len(Schlaege)) + 1])]

PlayedCards == UNION { Elements(pos.vecstich[i].cards) : i \in DOMAIN pos.vecstich }

\* unplayed_cards
UnknownCards ==
  Selected(AllCardsInOrder, (Deck \ HandFixed) \ PlayedCards)

\* the seats that have to play first come first
FirstVecEpiAsPlayed ==
  LET from[k \in 1 .. N] ==
        IF k = N THEN <<>>
        ELSE LET epi == (EpiFixed + k) % N
             IN  [i \in 1 .. Remaining(epi) |-> epi] \o from[k + 1]
  IN  from[1]

\* the seats but epi_fixed in order, each as often as it has cards
FirstVecEpi ==
  LET from[epi \in 0 .. N] ==
        IF epi = N THEN <<>>
        ELSE [i \in 1 .. (IF epi = EpiFixed THEN 0 ELSE Remaining(epi)) |-> epi] \o from[epi + 1]
  IN  from[0]

\* next_permutation of permutohedron: the lexicographic successor, none after the last
Ascents(v) == { i \in 1 .. Len(v) - 1 : v[i] < v[i + 1] }
HasNextPermutation(v) == Ascents(v) # {}
NextPermutation(v) ==
  LET i == CHOOSE i \in Ascents(v) : \A other \in Ascents(v) : other <= i
      j == CHOOSE j \in i + 1 .. Len(v) : v[j] > v[i] /\ \A k \in j + 1 .. Len(v) : v[k] <= v[i]
      swapped == [v EXCEPT ![i] = v[j], ![j] = v[i]]
  IN  SubSeq(swapped, 1, i) \o Reverse(SubSeq(swapped, i + 1, Len(v)))

HandsOf(v) ==
  [epi \in Seats |->
     IF epi = EpiFixed THEN HandFixed
     ELSE { UnknownCards[i] : i \in { k \in DOMAIN v : v[k] = epi } }]

\* SNextVecEPIShuffle shuffles vecepi each time: any hands of these sizes
Dealings ==
  LET dealt[k \in 0 .. N] ==
        IF k = 0 THEN {[ahand |-> [epi \in Seats |-> {}], left |-> Elements(UnknownCards)]}
        ELSE UNION {
          { [ahand |-> [d.ahand EXCEPT ![k - 1] = hand], left |-> d.left \ hand] :
              hand \in IF k - 1 = EpiFixed THEN {HandFixed} ELSE kSubset(Remaining(k - 1), d.left) } :
          d \in dealt[k - 1] }
  IN  { d.ahand : d \in dealt[N] }

(***************************************************************************)
(* make_handiterator_compatible_with_game_so_far: with these hands the one *)
(* who plays could have announced the game, and every card that was played *)
(* was allowed when it was.                                                *)
(***************************************************************************)
\* the cards that were played, one after the other
CountPlayed == N * (Len(pos.vecstich) - 1) + Len(C(pos)!CurrentStich.cards)
StichOf(k) == ((k - 1) \div N) + 1
PlayedCard(k) == pos.vecstich[StichOf(k)].cards[((k - 1) % N) + 1]
PlayedBy(k) == C(pos)!SeatAt(pos.vecstich[StichOf(k)], ((k - 1) % N) + 1)

\* the game before the k-th card was played, had it begun with these hands
Before(ahand, k) ==
  [game |-> pos.game,
   vecstich |-> Append(SubSeq(pos.vecstich, 1, StichOf(k) - 1),
                       [pos.vecstich[StichOf(k)] EXCEPT !.cards = SubSeq(@, 1, (k - 1) % N)]),
   ahand |-> [epi \in Seats |->
     ahand[epi] \cup { PlayedCard(l) : l \in { m \in k .. CountPlayed : PlayedBy(m) = epi } }]]

PlayedAsAllowedInCurrentStich(ahand) ==
  \A k \in N * (Len(pos.vecstich) - 1) + 1 .. CountPlayed :
    PlayedCard(k) \in C(Before(ahand, k))!AllAllowedCards(PlayedBy(k))

PlayedAsAllowed(ahand) ==
  \A k \in 1 .. CountPlayed :
    PlayedCard(k) \in C(Before(ahand, k))!AllAllowedCards(PlayedBy(k))

Compatible(ahand) ==
  /\ pos.game.rules.epi \in Seats =>
       C(pos)!CanBePlayed(pos.game.rules, Before(ahand, 1).ahand[pos.game.rules.epi])
  /\ PlayedAsAllowed(ahand)

\* next of the iterator that is filtered and, for samples, shuffled and limited
Exhausted ==
  CASE pos.ai.cheating -> pulled # <<>>
    [] Remaining(EpiFixed) <= AllHandsUpTo -> ~ b_valid
    [] OTHER -> Len(pulled) = pos.ai.samples

------------------------------------------------------------------------------
(***************************************************************************)
(* SAIRufspiel::suggest_card: who leads the first Stich and does not play  *)
(* looks for the Rufsau.                                                   *)
(***************************************************************************)
RuffarbeCards ==
  { card \in HandFixed : TrumpfOrFarbe(pos.game.rules.decider, card) = pos.game.rules.farbe }

LooksForRufsau ==
  /\ pos.game.rules.kind = "Rufspiel"
  /\ EpiFixed # pos.game.rules.epi
  /\ C(pos)!NoCardPlayed
  /\ Card(pos.game.rules.farbe, "Ass") \notin HandFixed

Advised ==
  LET Most(cards) == { card \in cards : \A other \in cards : PointsCard(other) <= PointsCard(card) }
      Least(cards) == { card \in cards : \A other \in cards : PointsCard(other) >= PointsCard(card) }
  IN  CASE ~ LooksForRufsau \/ ~ pos.b_shortcuts -> {}
        [] Cardinality(RuffarbeCards) = 2 /\ CardsPerPlayer = 8 -> Least(RuffarbeCards)
        [] OTHER -> Most(RuffarbeCards)

------------------------------------------------------------------------------
\* an SGame: complete Stichs, each led by the winner of the one before, every card played
\* as it was allowed, and hands of as many cards as are left to play, which
\* ahand_vecstich_card_count_is_compatible asserts
PlayedByTheRules ==
  /\ \A i \in 1 .. Len(pos.vecstich) :
       /\ Len(pos.vecstich[i].cards) <= N
       /\ C(pos)!IsFull(pos.vecstich[i]) <=> i < Len(pos.vecstich)
       /\ i > 1 => pos.vecstich[i].epi_first = C(pos)!PreliminaryWinner(pos.vecstich[i - 1])
  /\ \A epi \in Seats :
       /\ Cardinality(pos.ahand[epi]) = Remaining(epi)
       /\ pos.ahand[epi] \cap PlayedCards = {}
       /\ \A other \in Seats \ {epi} : pos.ahand[epi] \cap pos.ahand[other] = {}
  /\ Deck = PlayedCards \cup UNION { pos.ahand[epi] : epi \in Seats }
  /\ Compatible(pos.ahand)

Init ==
  /\ pos \in Games /\ PlayedByTheRules
  /\ vecepi = FirstVecEpi
  /\ b_valid = TRUE
  /\ pulled = <<>>
  /\ tasks = {}
  /\ worker = [w \in Workers |-> Idle]
  /\ mapcardooutput = [card \in AllowedCards |-> {}]
  /\ suggested = {}

\* single_allowed_card and the advice of the rules, which the command line tool
\* suggest-card does without
AtOnce ==
  IF ~ pos.b_shortcuts THEN {}
  ELSE IF Cardinality(AllowedCards) = 1 THEN AllowedCards ELSE Advised

SuggestAtOnce ==
  /\ suggested = {}
  /\ \E card \in AtOnce : suggested' = {card}
  /\ UNCHANGED <<pos, vecepi, b_valid, pulled, tasks, worker, mapcardooutput>>

\* a worker may take the next hands from the iterator, which par_bridge guards by a mutex
MayPull == suggested = {} /\ AtOnce = {} /\ Cardinality(tasks) <= TasksAhead

Pull(ahand) ==
  /\ pulled' = Append(pulled, ahand)
  /\ tasks' = tasks \cup
              { [i_susp |-> Len(pulled), ahand |-> ahand, card |-> card] : card \in AllowedCards }
  /\ UNCHANGED <<pos, worker, mapcardooutput, suggested>>

\* VAIParams::Cheating
PullTrueHands ==
  /\ MayPull
  /\ pos.ai.cheating /\ pulled = <<>>
  /\ Pull(pos.ahand)
  /\ UNCHANGED <<vecepi, b_valid>>

\* all_possible_hands: the iterator goes on to the next permutation, and the hands are
\* searched if they pass the filter
TryNextHands ==
  /\ MayPull
  /\ ~ pos.ai.cheating /\ Remaining(EpiFixed) <= AllHandsUpTo
  /\ b_valid
  /\ b_valid' = HasNextPermutation(vecepi)
  /\ vecepi' = IF HasNextPermutation(vecepi) THEN NextPermutation(vecepi) ELSE vecepi

PullNextHands ==
  /\ TryNextHands
  /\ Compatible(HandsOf(vecepi))
  /\ Pull(HandsOf(vecepi))

SkipHands ==
  /\ TryNextHands
  /\ ~ Compatible(HandsOf(vecepi))
  /\ UNCHANGED <<pos, pulled, tasks, worker, mapcardooutput, suggested>>

\* forever_rand_hands, until a shuffle is compatible
PullSample ==
  /\ MayPull
  /\ ~ pos.ai.cheating /\ Remaining(EpiFixed) > AllHandsUpTo
  /\ Len(pulled) < pos.ai.samples
  /\ \E ahand \in Dealings : Compatible(ahand) /\ Pull(ahand)
  /\ UNCHANGED <<vecepi, b_valid>>

\* the worker plays the card on its own copies.  all_allowed_cards asserts that there
\* is a card to search for: without one the worker does not come out of this step.
BeginSearch(w) ==
  /\ worker[w] = Idle
  /\ \E task \in tasks :
       LET ahand == [task.ahand EXCEPT ![EpiFixed] = @ \ {task.card}]
       IN  /\ \E epi \in Seats : ahand[epi] # {}
           /\ tasks' = tasks \ {task}
           /\ \E search \in Begin(SearchedGame, ahand, C(pos)!StichsAfter(task.card)) :
                worker' = [worker EXCEPT ![w] = [card |-> {task.card}, search |-> {search}]]
  /\ UNCHANGED <<pos, vecepi, b_valid, pulled, mapcardooutput, suggested>>

SearchStep(w) ==
  /\ \E s \in worker[w].search :
       /\ ~ Finished(s)
       /\ \E search \in IF s.output # {} THEN {Return(s)}
                        ELSE UNION { Explore(s, card) : card \in Last(s.stack).todo } :
            worker' = [worker EXCEPT ![w].search = {search}]
  /\ UNCHANGED <<pos, vecepi, b_valid, pulled, tasks, mapcardooutput, suggested>>

EnteredOver(ooutput, stats) == {stats}

\* under the mutex: new or added to what other hands have given for the card
Entered(ooutput, stats) ==
  IF ooutput = {} THEN {stats} ELSE { Accumulate(output, stats) : output \in ooutput }

EnterResult(w) ==
  /\ \E s \in worker[w].search : \E card \in worker[w].card : \E output \in s.output :
       /\ Finished(s)
       /\ mapcardooutput' = [mapcardooutput EXCEPT ![card] = Entered(@, StatsOf(output, EpiFixed))]
  /\ worker' = [worker EXCEPT ![w] = Idle]
  /\ UNCHANGED <<pos, vecepi, b_valid, pulled, tasks, suggested>>

\* all hands are searched: each allowed card has statistics, and one of the best is taken
SuggestBest ==
  /\ suggested = {} /\ AtOnce = {}
  /\ Exhausted /\ tasks = {} /\ \A w \in Workers : worker[w] = Idle
  /\ \A card \in AllowedCards : mapcardooutput[card] # {}
  /\ LET stats == [card \in AllowedCards |-> CHOOSE stats \in mapcardooutput[card] : TRUE]
     IN  \E card \in CardsWithMaximumValue(stats, AllowedCards) : suggested' = {card}
  /\ UNCHANGED <<pos, vecepi, b_valid, pulled, tasks, worker, mapcardooutput>>

Suggested == suggested # {} /\ UNCHANGED vars

Next ==
  \/ SuggestAtOnce
  \/ PullTrueHands \/ PullNextHands \/ SkipHands \/ PullSample
  \/ \E w \in Workers : BeginSearch(w) \/ SearchStep(w) \/ EnterResult(w)
  \/ SuggestBest
  \/ Suggested

Spec == Init /\ [][Next]_vars
==============================================================================
