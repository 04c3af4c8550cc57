------------------------------ MODULE GamePhases ------------------------------
(***************************************************************************)
(* The phases of one game (main/src/game/mod.rs) as whoever runs a table   *)
(* sees them: which seats have to answer, what an accepted answer makes of *)
(* the phase, and which phase follows when nobody can answer any more.     *)
(*                                                                         *)
(* DetermineRules is the auction of module Auction; cards matter only in   *)
(* number, so the winner of a trick is any seat, and so is the partner of  *)
(* a Rufspiel.                                                             *)
(***************************************************************************)
EXTENDS Integers

CONSTANTS
  N,                \* EPlayerIndex::SIZE, 4 in the program
  Doubling,         \* whether the rules know doublings (oedoublingscope)
  CardsPerPlayer,   \* 6 or 8 in the program
  MaxStoss,         \* SStossParams.n_stoss_max, 0 for rules without stoss
  MaxRaises,        \* how often the prices allow to be outbid
  NobodyPlays       \* what follows then: subset of {"Stock", "Ramsch"}

ASSUME PhasesAssumption ==
  /\ N \in Nat \ {0, 1}
  /\ Doubling \in BOOLEAN
  /\ CardsPerPlayer \in Nat \ {0}
  /\ MaxStoss \in Nat
  /\ MaxRaises \in Nat
  /\ NobodyPlays \subseteq {"Stock", "Ramsch"}
  /\ NobodyPlays # {}

Seats == 0 .. N - 1
NoSeat == N

\* EPlayerIndex::wrapping_add(1)
NextSeat(epi) == (epi + 1) % N

(***************************************************************************)
(* The variants of VGamePhase.  asked is which_player_can_do_something:    *)
(* the seats that have to answer, none when the phase is finished.         *)
(***************************************************************************)
\* SPlayersInRound::current_playerindex, of a round begun by EPI0
Turn(n) == IF n \in Seats THEN {n} ELSE {}

DealCards(n) ==
  [kind |-> "DealCards", asked |-> IF Doubling THEN Turn(n) ELSE {}]

GamePreparations(n, contenders) ==
  [kind |-> "GamePreparations", asked |-> Turn(n), contenders |-> contenders]

Highest(S) == IF S = {} THEN NoSeat ELSE CHOOSE s \in S : \A t \in S : t <= s

DetermineRules(contenders, leader, epi, n_raise) ==
  [kind |-> "DetermineRules", asked |-> Turn(epi), contenders |-> contenders,
   leader |-> leader, n_raise |-> n_raise]

\* active: those who play the game, nobody in a Ramsch
Game(active, epi, n_card, n_stoss) ==
  [kind |-> "Game", asked |-> IF n_card < N * CardsPerPlayer THEN {epi} ELSE {},
   active |-> active, n_card |-> n_card, n_stoss |-> n_stoss]

GameResult(unconfirmed) == [kind |-> "GameResult", asked |-> unconfirmed]

NextGame == [kind |-> "NextGame", asked |-> {}]

(***************************************************************************)
(* What an answer of a seat that is asked can make of the phase: the       *)
(* refusal to play or to bid, the card, the confirmation that the server   *)
(* gives for a silent player; and the other answers a player may choose.   *)
(***************************************************************************)
AfterDefault(phase, epi) ==
  CASE phase.kind = "DealCards" -> {DealCards(epi + 1)}
    [] phase.kind = "GamePreparations" -> {GamePreparations(epi + 1, phase.contenders)}
    [] phase.kind = "DetermineRules" ->
         LET left == phase.contenders \ {epi}
         IN  {DetermineRules(left, phase.leader, Highest(left \ {phase.leader}),
                             phase.n_raise)}
    [] phase.kind = "Game" ->
         { Game(phase.active, next, phase.n_card + 1, phase.n_stoss) :
             next \in IF (phase.n_card + 1) % N = 0 THEN Seats ELSE {NextSeat(epi)} }
    [] phase.kind = "GameResult" -> {GameResult(phase.asked \ {epi})}

AfterChoice(phase, epi) ==
  CASE phase.kind = "GamePreparations" ->
         {GamePreparations(epi + 1, phase.contenders \cup {epi})}
    [] phase.kind = "DetermineRules" /\ phase.n_raise < MaxRaises ->
         {DetermineRules(phase.contenders, epi, phase.leader, phase.n_raise + 1)}
    [] OTHER -> {}

AfterAnswer(phase, epi) == AfterDefault(phase, epi) \cup AfterChoice(phase, epi)

(***************************************************************************)
(* SGame: before the first card those who play against the game may double *)
(* the stakes, then those who play it, then the others again.              *)
(***************************************************************************)
MayStossUnlimited(phase, epi) ==
  /\ phase.kind = "Game"
  /\ phase.active # {}
  /\ phase.n_card = 0
  /\ (epi \in phase.active) <=> (phase.n_stoss % 2 = 1)

MayStoss(phase, epi) ==
  /\ phase.kind = "Game"
  /\ phase.active # {}
  /\ phase.n_card = 0
  /\ phase.n_stoss < MaxStoss
  /\ (epi \in phase.active) <=> (phase.n_stoss % 2 = 1)

AfterStoss(phase) == [phase EXCEPT !.n_stoss = @ + 1]

(***************************************************************************)
(* finish(), repeated while nobody can answer: the phase that a phase ends *)
(* in.  NextGame stands for next_game, which belongs to the table.         *)
(***************************************************************************)
Begun(leader) == { Game({leader, partner}, 0, 0, 0) : partner \in Seats }

Auctioned(contenders) ==
  LET leader == Highest(contenders)
      rest == contenders \ {leader}
  IN  IF rest = {} THEN Begun(leader)
      ELSE {DetermineRules(contenders, leader, Highest(rest), 0)}

Settled(phase) ==
  IF phase.asked # {} THEN {phase}
  ELSE CASE phase.kind = "DealCards" -> {GamePreparations(0, {})}
         [] phase.kind = "GamePreparations" /\ phase.contenders # {} ->
              Auctioned(phase.contenders)
         [] phase.kind = "GamePreparations" /\ phase.contenders = {} ->
              { IF what = "Ramsch" THEN Game({}, 0, 0, 0) ELSE NextGame :
                  what \in NobodyPlays }
         [] phase.kind = "DetermineRules" -> Begun(phase.leader)
         [] phase.kind = "Game" -> {GameResult(Seats)}
         [] phase.kind = "GameResult" -> {NextGame}

(***************************************************************************)
(* The phases in which somebody is asked.                                  *)
(***************************************************************************)
Phases ==
  [kind : {"DealCards", "GameResult"}, asked : (SUBSET Seats) \ {{}}]
  \cup
  [kind : {"GamePreparations"}, asked : (SUBSET Seats) \ {{}}, contenders : SUBSET Seats]
  \cup
  [kind : {"DetermineRules"}, asked : (SUBSET Seats) \ {{}}, contenders : SUBSET Seats,
   leader : Seats, n_raise : 0 .. MaxRaises]
  \cup
  [kind : {"Game"}, asked : (SUBSET Seats) \ {{}}, active : SUBSET Seats,
   n_card : 0 .. N * CardsPerPlayer - 1, n_stoss : 0 .. MaxStoss]
==============================================================================
