-------------------------------- MODULE Payout --------------------------------
(***************************************************************************)
(* What a game is worth (payoutinfos and payouthints of every kind of      *)
(* rules) and the cache it is computed from (SRuleStateCache).  The search *)
(* of the AI registers Stichs as it goes down a line of play and takes     *)
(* them back as it returns, so the cache sees every Stich come and go.     *)
(*                                                                         *)
(* Of the cards only this matters: who was dealt each Trumpf and the Ass   *)
(* that a Rufspiel calls, and how many points lie in each Stich.  Every    *)
(* Stich may go to any seat, except that a Ramsch, whose loser is found by *)
(* his Trumpfs, keeps to the Stichs that the Trumpfs dealt allow.          *)
(***************************************************************************)
EXTENDS PayoutInfo, Sequences, FiniteSets, Functions

CONSTANTS
  PlayedDeals,      \* [trumpfs: holders of the Trumpfs, highest first, rufsau: its holder,
                    \*  points: the points of each Stich]
  PricesInFile,     \* the prices that a file of rules may name
  Contracts,        \* [kind, epi, points_to_win]
  ExtraPrice,       \* n_payout_schneider_schwarz and n_payout_per_lauf
  LaufMin           \* n_lauf_lbound

CardsPerPlayer(deal) == Len(deal.points)

\* read_int takes the prices from 0 up
AcceptedPrice(n) == 0 <= n

RamschKinds == {"Ramsch", "RamschAll", "RamschAtLeast"}

Kinds == {"Rufspiel", "Points", "Tout", "Sie", "Bettel"} \cup RamschKinds

\* how many Trumpfs a seat was dealt
TrumpfsOf(deal, epi) == Cardinality({ i \in DOMAIN deal.trumpfs : deal.trumpfs[i] = epi })

\* the Trumpfs of a Ramsch, Ober, Unter and Herz: 14 of the 4 * 8 cards, or 12 of 4 * 6
AllTrumpfsOfRamsch(deal) == Len(deal.trumpfs) >= 2 * CardsPerPlayer(deal) - 2

\* points_card: 9, Unter, Ober, Koenig, Zehn, Ass
CardPoints == {0, 2, 3, 4, 10, 11}

\* points_stich
StichPoints == { a + b + c + d : a, b, c, d \in CardPoints }

ASSUME PayoutAssumption ==
  /\ \A deal \in PlayedDeals :
       /\ deal.trumpfs \in Seq(EPIs) /\ deal.trumpfs # <<>>
       /\ \A epi \in EPIs : TrumpfsOf(deal, epi) <= CardsPerPlayer(deal)
       /\ deal.rufsau \in EPIs
       /\ deal.points \in Seq(StichPoints) /\ SumFunction(deal.points) = 120
       /\ Len(deal.trumpfs) >= CardsPerPlayer(deal)
  /\ PricesInFile \subseteq Int
  /\ Contracts \subseteq [kind : Kinds, epi : EPIs, points_to_win : 61 .. 120]
  /\ ExtraPrice \in Nat
  /\ LaufMin \in Nat

VARIABLES
  deal,         \* the deal and the points of the Stichs
  contract,     \* the rules object
  n_price,      \* its price: n_payout_base or SRulesRamsch.n_price
  winners,      \* the winner of each completed Stich of the SStichSequence
  cache,        \* SRuleStateCacheChanging.mapepipointstichcount
  undo          \* the SUnregisterStich of the Stichs that were registered

vars == <<deal, contract, n_price, winners, cache, undo>>

GameFinished == Len(winners) = CardsPerPlayer(deal)

(***************************************************************************)
(* SRuleStateCache.                                                        *)
(***************************************************************************)
EmptyCache == [epi \in EPIs |-> [n_stich |-> 0, n_point |-> 0]]

Register(counts, epi_winner, n_point) ==
  [counts EXCEPT ![epi_winner].n_stich = @ + 1, ![epi_winner].n_point = @ + n_point]

(***************************************************************************)
(* Who wins a Stich without a Trumpf in the hand wins one in which nobody  *)
(* plays a Trumpf (winner_index), and every seat has only so many of the   *)
(* other cards.                                                            *)
(***************************************************************************)
SeatsWithoutTrumpf == EPIs \ Range(deal.trumpfs)

StichsWithoutTrumpf == Cardinality({ i \in DOMAIN winners : winners[i] \in SeatsWithoutTrumpf })

TrumpfsAllow(epi_winner) ==
  epi_winner \in SeatsWithoutTrumpf =>
    \A epi \in EPIs : StichsWithoutTrumpf < CardsPerPlayer(deal) - TrumpfsOf(deal, epi)

RegisterStich(epi_winner) ==
  /\ ~ GameFinished
  /\ contract.kind \in RamschKinds => TrumpfsAllow(epi_winner)
  /\ winners' = Append(winners, epi_winner)
  /\ undo' = Append(undo, [epi_winner |-> epi_winner,
                           n_points_before |-> cache[epi_winner].n_point])
  /\ cache' = Register(cache, epi_winner, deal.points[Len(winners) + 1])
  /\ UNCHANGED <<deal, contract, n_price>>

UnregisterPointsOnly ==
  /\ undo # <<>>
  /\ LET unregister == undo[Len(undo)]
     IN  cache' = [cache EXCEPT ![unregister.epi_winner].n_point = unregister.n_points_before]
  /\ undo' = SubSeq(undo, 1, Len(undo) - 1)
  /\ winners' = SubSeq(winners, 1, Len(winners) - 1)
  /\ UNCHANGED <<deal, contract, n_price>>

\* the search returns: the Stich is unregistered, then its last card taken back
UnregisterStich ==
  /\ undo # <<>>
  /\ LET unregister == undo[Len(undo)]
     IN  cache' = [cache EXCEPT ![unregister.epi_winner].n_point = unregister.n_points_before,
                                ![unregister.epi_winner].n_stich = @ - 1]
  /\ undo' = SubSeq(undo, 1, Len(undo) - 1)
  /\ winners' = SubSeq(winners, 1, Len(winners) - 1)
  /\ UNCHANGED <<deal, contract, n_price>>

Init ==
  /\ deal \in PlayedDeals
  /\ contract \in Contracts
  /\ contract.kind = "Rufspiel" => contract.epi # deal.rufsau
  /\ contract.kind \in RamschKinds => AllTrumpfsOfRamsch(deal)
  /\ n_price \in { n \in PricesInFile : AcceptedPrice(n) }
  /\ winners = <<>>
  /\ cache = EmptyCache
  /\ undo = <<>>

Next ==
  \/ \E epi \in EPIs : RegisterStich(epi)
  \/ UnregisterStich

Spec == Init /\ [][Next]_vars

------------------------------------------------------------------------------
(***************************************************************************)
(* Parties and the counts of a party.                                      *)
(***************************************************************************)
Parties ==
  IF contract.kind = "Rufspiel" THEN Parties22(contract.epi, deal.rufsau)
  ELSE Parties13(contract.epi)

Points(S) == SumFunctionOnSet([epi \in EPIs |-> cache[epi].n_point], S)
Stichs(S) == SumFunctionOnSet([epi \in EPIs |-> cache[epi].n_stich], S)

Against(S) == EPIs \ S

(***************************************************************************)
(* SLaufendeParams: the highest Trumpfs that one party holds without gap.  *)
(***************************************************************************)
Laufende(holders, S) ==
  Cardinality({ n \in DOMAIN holders :
                  \A i \in 1 .. n : (holders[i] \in S) = (holders[1] \in S) })

PayoutLaufende(S) ==
  LET n_laufende == Laufende(deal.trumpfs, S)
  IN  (IF n_laufende < LaufMin THEN 0 ELSE n_laufende) * ExtraPrice

(***************************************************************************)
(* SPayoutDeciderPointBased.  The player is Schneider with 30 points, the  *)
(* others with 29.                                                         *)
(***************************************************************************)
SchneiderFromNinety(wins, n_points) == (wins /\ n_points >= 90) \/ (~ wins /\ n_points <= 30)
Schneider(wins, n_points) == (wins /\ n_points > 90) \/ (~ wins /\ n_points <= 30)

PayoutPointBased ==
  LET primary == Parties.primary
      n_points == Points(primary)
      wins == n_points >= contract.points_to_win
      winning == IF wins THEN primary ELSE Against(primary)
      extra == IF Stichs(winning) = CardsPerPlayer(deal) THEN 2 * ExtraPrice
               ELSE IF Schneider(wins, n_points) THEN ExtraPrice ELSE 0
  IN  InternalPayout(n_price + extra + PayoutLaufende(primary), Parties, wins)

(***************************************************************************)
(* SPayoutDeciderTout, SPayoutDeciderSie, SPayoutDeciderBettel.            *)
(***************************************************************************)
PayoutToutHalf ==
  InternalPayout(n_price + PayoutLaufende(Parties.primary) * 2, Parties,
                 cache[contract.epi].n_stich = CardsPerPlayer(deal))

PayoutTout ==
  InternalPayout((n_price + PayoutLaufende(Parties.primary)) * 2, Parties,
                 cache[contract.epi].n_stich = CardsPerPlayer(deal))

\* cards_valid_for_sie: the hand is the highest Ober and Unter
CardsValidForSie == \A i \in 1 .. CardsPerPlayer(deal) : deal.trumpfs[i] = contract.epi

PayoutSie ==
  InternalPayout((n_price + CardsPerPlayer(deal) * ExtraPrice) * 4, Parties, CardsValidForSie)

PayoutBettel ==
  InternalPayout(n_price, Parties, cache[contract.epi].n_stich = 0)

(***************************************************************************)
(* SRulesRamsch: everything for one seat, or most points for the loser.    *)
(***************************************************************************)
MostPoints == { epi \in EPIs : \A other \in EPIs : cache[other].n_point <= cache[epi].n_point }

\* fold1 over the seats with most points: the one with the highest Trumpf loses
LoserByFirst == CHOOSE epi \in MostPoints : \A other \in MostPoints : epi <= other
Loser ==
  IF Cardinality(MostPoints) = 1 THEN CHOOSE epi \in MostPoints : TRUE
  ELSE LET first == CHOOSE i \in DOMAIN deal.trumpfs :
                      /\ deal.trumpfs[i] \in MostPoints
                      /\ \A j \in 1 .. i - 1 : deal.trumpfs[j] \notin MostPoints
       IN  deal.trumpfs[first]

Durchmarsch ==
  \E epi \in MostPoints :
    \/ /\ contract.kind = "RamschAll"
       /\ cache[epi].n_point = 120
       /\ cache[epi].n_stich = CardsPerPlayer(deal)
    \/ /\ contract.kind = "RamschAtLeast"
       /\ cache[epi].n_point >= contract.points_to_win

PayoutRamsch ==
  InternalPayout(n_price, Parties13(IF Durchmarsch THEN CHOOSE epi \in MostPoints : TRUE ELSE Loser),
                 Durchmarsch)

(***************************************************************************)
(* payoutinfos of each kind of rules.                                      *)
(***************************************************************************)
Payout ==
  CASE contract.kind \in {"Rufspiel", "Points"} -> PayoutPointBased
    [] contract.kind = "Tout" -> PayoutTout
    [] contract.kind = "Sie" -> PayoutSie
    [] contract.kind = "Bettel" -> PayoutBettel
    [] contract.kind \in RamschKinds -> PayoutRamsch

PayoutInfos ==
  IF contract.kind = "Rufspiel" THEN SharingStock(Payout, Parties) ELSE Ignoring(Payout)

(***************************************************************************)
(* SPayoutHint: bounds of the payout, each of them known or not.           *)
(***************************************************************************)
Unknown == [lower |-> {}, upper |-> {}]
Exactly(n) == [lower |-> {n}, upper |-> {n}]
FromZero(n) == IF n > 0 THEN [lower |-> {n}, upper |-> {}] ELSE [lower |-> {}, upper |-> {n}]

ContainsHint(hint, other) ==
  /\ \A n \in hint.lower : \E m \in other.lower : n <= m
  /\ \A n \in hint.upper : \E m \in other.upper : n >= m

HintFor(n_payout, wins) ==
  LET an == InternalPayout(n_payout, Parties, wins)
  IN  [epi \in EPIs |-> FromZero(an[epi])]

NoHints == [epi \in EPIs |-> Unknown]

HintsByPointsEarly ==
  IF Points(Parties.primary) >= contract.points_to_win THEN HintFor(n_price, TRUE)
  ELSE IF Points(Against(Parties.primary)) >= 120 - contract.points_to_win
  THEN HintFor(n_price, FALSE)
  ELSE NoHints

HintsByPoints ==
  IF Points(Parties.primary) >= contract.points_to_win THEN HintFor(n_price, TRUE)
  ELSE IF Points(Against(Parties.primary)) > 120 - contract.points_to_win
  THEN HintFor(n_price, FALSE)
  ELSE NoHints

HintsOfBettel ==
  LET an == InternalPayout(n_price, Parties, FALSE)
  IN  IF cache[contract.epi].n_stich > 0 THEN [epi \in EPIs |-> Exactly(an[epi])] ELSE NoHints

PayoutHints ==
  CASE contract.kind \in {"Rufspiel", "Points"} -> HintsByPoints
    [] contract.kind = "Tout" ->
         IF cache[contract.epi].n_stich < Len(winners) THEN HintFor(2 * n_price, FALSE) ELSE NoHints
    [] contract.kind = "Sie" ->
         IF CardsValidForSie THEN NoHints ELSE HintFor(4 * n_price, FALSE)
    [] contract.kind = "Bettel" -> HintsOfBettel
    [] contract.kind \in RamschKinds -> NoHints

------------------------------------------------------------------------------
(***************************************************************************)
(* Properties.                                                             *)
(***************************************************************************)
\* The cache counts what a recount of the completed Stichs gives (the assertions
\* that payouts and hints begin with), on every line of play the search tries.
CacheIsRecount ==
  \A epi \in EPIs :
    LET won == { i \in DOMAIN winners : winners[i] = epi }
    IN  cache[epi] = [n_stich |-> Cardinality(won), n_point |-> SumFunctionOnSet(deal.points, won)]

\* A hint is never taken back: as Stichs are completed, bounds only get closer.
HintsNarrow ==
  [][Len(winners') > Len(winners) => \A epi \in EPIs : ContainsHint(PayoutHints[epi], PayoutHints'[epi])]_vars

\* The final payout keeps within every bound that was hinted at before.
PayoutKeepsHints ==
  GameFinished => \A epi \in EPIs : ContainsHint(PayoutHints[epi], Exactly(Payout[epi]))

\* Schneider and Schwarz as the loser sees them: whoever loses pays once more below
\* 30 points (the player up to 30), and twice more without a single Stich.
LoserPays ==
  (GameFinished /\ contract.kind \in {"Rufspiel", "Points"}) =>
    LET playing == Parties.primary
        losing == { epi \in EPIs : Payout[epi] < 0 }
        levels == (IF Points(losing) < 30 \/ (losing = playing /\ Points(losing) = 30)
                   THEN 1 ELSE 0)
                  + (IF \A epi \in losing : cache[epi].n_stich = 0 THEN 1 ELSE 0)
    IN  /\ losing \in {playing, EPIs \ playing}
        /\ (losing = playing) <=> Points(playing) < contract.points_to_win
        /\ \A epi \in EPIs :
             Payout[epi] \div Parties.multiplier[epi]
               = (n_price + levels * ExtraPrice + PayoutLaufende(playing))
                 * (IF epi \in losing THEN -1 ELSE 1)

\* Who pays in a Ramsch has at least as many points as anybody, and a higher Trumpf
\* than everybody with the same points; who is paid has made all the Stichs, or the
\* points that were asked for.  The last panic of payoutinfos is never reached: among the
\* seats with most points there are never two without a Trumpf, whatever was dealt.
RamschSettled ==
  (GameFinished /\ contract.kind \in RamschKinds) =>
    /\ \A one, other \in MostPoints \cap SeatsWithoutTrumpf : one = other
    /\ \E epi \in EPIs :
         /\ \A other \in EPIs \ {epi} : Payout[epi] = -3 * Payout[other]
         /\ \A other \in EPIs \ {epi} :
              \/ cache[other].n_point < cache[epi].n_point
              \/ /\ cache[other].n_point = cache[epi].n_point
                 /\ \E i \in DOMAIN deal.trumpfs :
                      deal.trumpfs[i] = epi /\ \A j \in 1 .. i : deal.trumpfs[j] # other
         /\ Payout[epi] > 0 <=>
              \/ contract.kind = "RamschAll" /\ \A i \in DOMAIN winners : winners[i] = epi
              \/ contract.kind = "RamschAtLeast" /\ cache[epi].n_point >= contract.points_to_win

\* payoutinfos of a Rufspiel: nobody leaves the table with nothing, and two of the
\* four are paid (the assertions before the stock is shared).
NobodyGetsNothing ==
  (GameFinished /\ contract.kind = "Rufspiel") => \A epi \in EPIs : Payout[epi] # 0
==============================================================================
