------------------------------- MODULE GameLoop -------------------------------
(***************************************************************************)
(* The command line table: run_simple_game_loop (main/src/game/run.rs)     *)
(* plays game after game with the same four players, who move up a seat    *)
(* after each, and keeps their money and the stock.                        *)
(*                                                                         *)
(* The phases of a game are those of GamePhases.  What a finished game is  *)
(* worth is any amount: module Payout says which.                          *)
(***************************************************************************)
EXTENDS GamePhases, PayoutInfo, FiniteSets

CONSTANTS
  NGames,           \* n_games
  Prices,           \* the single payouts a game can come to
  StockPrice,       \* n_stock of SRuleSet.stockorramsch
  StockDoubled      \* EDoublingScope: GamesAndStock, not only Games

ASSUME GameLoopAssumption ==
  /\ N = 4
  /\ NGames \in Nat
  /\ Prices \subseteq Nat \ {0}
  /\ StockPrice \in Nat
  /\ StockDoubled \in BOOLEAN

VARIABLES
  i_game,           \* games played so far
  phase,            \* the phase of the game, NextGame when the loop has ended
  stakes,           \* 2 to the number of doublings and Stoss of this game
  aattable,         \* SAtTable of each seat: the player and the player's money
  n_stock           \* the stock, and SDealCards.n_stock

vars == <<i_game, phase, stakes, aattable, n_stock>>

Players == 0 .. 3

------------------------------------------------------------------------------
(***************************************************************************)
(* What the seats are paid: the parties of a game that active play, or one *)
(* against three in a Ramsch.                                              *)
(***************************************************************************)
InfosAmong(parties, b_share_stock) ==
  { LET an == InternalPayout(n, parties, wins)
    IN  IF b_share_stock THEN SharingStock(an, parties) ELSE Ignoring(an) :
      n \in Prices, wins \in BOOLEAN }

OneAgainstThree(active) ==
  UNION { InfosAmong(Parties13(epi), FALSE) :
            epi \in { e \in EPIs : active = {} \/ active = {e} } }

TwoAgainstTwo(active) ==
  UNION { InfosAmong(Parties22(pair[1], pair[2]), TRUE) :
            pair \in { p \in EPIs \X EPIs : p[1] # p[2] /\ active = {p[1], p[2]} } }

Infos(active) == OneAgainstThree(active) \cup TwoAgainstTwo(active)

Payouts(active) == { PayoutIncludingStock(infos, n_stock, stakes) : infos \in Infos(active) }

\* nobody plays: everybody pays into the stock
StockPayout ==
  [epi \in EPIs |-> -(StockPrice * (IF StockDoubled THEN stakes ELSE 1))]

(***************************************************************************)
(* The end of a turn of the loop: apply_payout, then rotate_left(1).       *)
(***************************************************************************)
FirstPhaseOneMore(n) == IF n <= NGames THEN Settled(DealCards(0)) ELSE {NextGame}
FirstPhase(n) == IF n < NGames THEN Settled(DealCards(0)) ELSE {NextGame}

Paid(an_payout) == [epi \in EPIs |-> [aattable[epi] EXCEPT !.n_money = @ + an_payout[epi]]]

RotateLeft(at) == [epi \in EPIs |-> at[(epi + 1) % 4]]

ApplyPayoutRotated(an_payout) ==
  /\ n_stock' = n_stock - Total(an_payout)
  /\ aattable' = [epi \in EPIs |->
        [RotateLeft(aattable)[epi] EXCEPT !.n_money = @ + an_payout[epi]]]
  /\ i_game' = i_game + 1
  /\ phase' \in FirstPhase(i_game + 1)
  /\ stakes' = 1

ApplyPayoutAdding(an_payout) ==
  /\ n_stock' = n_stock + Total(an_payout)
  /\ aattable' = RotateLeft(Paid(an_payout))
  /\ i_game' = i_game + 1
  /\ phase' \in FirstPhase(i_game + 1)
  /\ stakes' = 1

ApplyPayout(an_payout) ==
  /\ n_stock' = n_stock - Total(an_payout)
  /\ aattable' = RotateLeft(Paid(an_payout))
  /\ i_game' = i_game + 1
  /\ phase' \in FirstPhase(i_game + 1)
  /\ stakes' = 1

------------------------------------------------------------------------------
Init ==
  /\ i_game = 0
  /\ phase \in FirstPhase(0)
  /\ stakes = 1
  /\ aattable = [epi \in EPIs |-> [player |-> epi, n_money |-> 0]]
  /\ n_stock = 0

\* ask_for_doubling
AskForDoubling(epi, b_doubling) ==
  /\ phase.kind = "DealCards"
  /\ epi \in phase.asked
  /\ phase' \in UNION { Settled(p) : p \in AfterDefault(phase, epi) }
  /\ stakes' = IF b_doubling THEN 2 * stakes ELSE stakes
  /\ UNCHANGED <<i_game, aattable, n_stock>>

\* ask_for_game and ask_for_card, as long as the game goes on
AskForGameOrCard(epi) ==
  /\ phase.kind \in {"GamePreparations", "DetermineRules", "Game"}
  /\ epi \in phase.asked
  /\ phase' \in { p \in UNION { Settled(q) : q \in AfterAnswer(phase, epi) } :
                    p.kind \notin {"GameResult", "NextGame"} }
  /\ UNCHANGED <<i_game, stakes, aattable, n_stock>>

\* ask_for_stoss, before each card: the first seat that wants to
AskForStoss(epi) ==
  /\ phase.asked # {}
  /\ MayStoss(phase, epi)
  /\ phase' = AfterStoss(phase)
  /\ stakes' = 2 * stakes
  /\ UNCHANGED <<i_game, aattable, n_stock>>

\* the last card of a game
FinishGame(epi) ==
  /\ phase.kind = "Game"
  /\ epi \in phase.asked
  /\ \E p \in AfterDefault(phase, epi) : p.asked = {}
  /\ \E an_payout \in Payouts(phase.active) : ApplyPayout(an_payout)

\* the last refusal to play, under rules with a stock
PayIntoStock(epi) ==
  /\ phase.kind = "GamePreparations"
  /\ epi \in phase.asked
  /\ \E p \in AfterDefault(phase, epi) : NextGame \in Settled(p)
  /\ ApplyPayout(StockPayout)

LoopEnded == phase = NextGame /\ UNCHANGED vars

Next ==
  \/ \E epi \in EPIs, b_doubling \in BOOLEAN : AskForDoubling(epi, b_doubling)
  \/ \E epi \in EPIs :
       \/ AskForGameOrCard(epi)
       \/ AskForStoss(epi)
       \/ FinishGame(epi)
       \/ PayIntoStock(epi)
  \/ LoopEnded

Spec == Init /\ [][Next]_vars

------------------------------------------------------------------------------
TypeOK ==
  /\ i_game \in 0 .. NGames
  /\ phase \in Phases \cup {NextGame}
  /\ stakes \in Nat \ {0}
  /\ aattable \in [EPIs -> [player : Players, n_money : Int]]
  /\ n_stock \in Int

Money(at) == Total([epi \in EPIs |-> at[epi].n_money])

\* The assertion after each turn of the loop: what the players have lost is in the
\* stock.
AccountsBalance == n_stock + Money(aattable) = 0

\* The assertions of apply_payout and payout_including_stock: the stock is never
\* overdrawn and can always be halved.
StockCanBeShared == n_stock >= 0 /\ n_stock % 2 = 0

\* A game takes nothing out of the stock, or all of it.
StockTakenWhole == [][n_stock' < n_stock => n_stock' = 0]_vars

\* Those who won are the seats of one party, when the game ended: the money reaches
\* the players before they move up.
OnePartyIsPaid ==
  [][(phase.kind = "Game" /\ i_game' # i_game) =>
       LET after(player) == CHOOSE epi \in EPIs : aattable'[epi].player = player
           paid == { epi \in EPIs :
                       aattable'[after(aattable[epi].player)].n_money > aattable[epi].n_money }
       IN  IF phase.active = {} THEN Cardinality(paid) \in {1, 3}
           ELSE paid \in {phase.active, EPIs \ phase.active}]_vars
==============================================================================
