------------------------------- MODULE Bidding -------------------------------
(***************************************************************************)
(* How a game is found once the cards are dealt (main/src/game/mod.rs):    *)
(* SGamePreparations asks every seat in turn whether it wants to play;     *)
(* SDetermineRules then lets the announced games outbid each other         *)
(* ("Steigern") until one is left.                                         *)
(*                                                                         *)
(* A game is one entry of the rule set (Rufspiel, Wenz, Solo, ...); the    *)
(* rules object a seat announces is a game together with its priority,     *)
(* since only the number of points of a Steigern game ever changes.  Hands *)
(* matter only through SFullHand: which games can be played with them.     *)
(***************************************************************************)
EXTENDS Integers, Sequences

CONSTANTS
  N,              \* EPlayerIndex::SIZE, 4 in the program
  Games,          \* the actively playable games of SRuleSet.avecrulegroup
  BasePrio,       \* priority() of each game as the rule set creates it
  HandGames,      \* the sets of games some hand can_be_played with
  Step,           \* steigern.step
  NoGame,         \* the option "Nothing", always offered
  NoBid           \* pairepirules_current_bid before there is one

Seats == 0 .. N - 1

(***************************************************************************)
(* VGameAnnouncementPriority, in its derived order: by class, then number. *)
(***************************************************************************)
RufspielLike == 0
SoloSimple == 1
SoloSteigern == 2
SoloTout == 3
SoloSie == 4
MinPoints == 61
MaxPoints == 120

Prios == (RufspielLike .. SoloSie) \X Int

PrioLess(a, b) == a[1] < b[1] \/ (a[1] = b[1] /\ a[2] < b[2])
PrioLeq(a, b) == a = b \/ PrioLess(a, b)

Bids == [epi : Seats, game : Games, prio : Prios]

\* What a game can cost: what the rule set says, or more if it is a Steigern game
PricesOf(game) ==
  {BasePrio[game]} \cup
  (IF BasePrio[game][1] = SoloSteigern THEN {SoloSteigern} \X (MinPoints .. MaxPoints)
   ELSE {})

ASSUME ConstantsAssumption ==
  /\ N \in Nat \ {0}
  /\ Step \in Nat \ {0}
  /\ BasePrio \in [Games -> Prios]
  /\ \A game \in Games :
       BasePrio[game][1] = SoloSteigern => BasePrio[game][2] = MinPoints
  /\ HandGames \subseteq SUBSET Games
  /\ NoGame \notin Games
  /\ NoBid \notin Bids

VARIABLES
  phase,          \* the variant of VGamePhase; Stock and Ramsch are "NoBids"
  playable,       \* the games each seat's hand can be played with
  n_announced,    \* SGameAnnouncements::size()
  queued,         \* announced games, then vecpairepirules_queued
  current_bid     \* pairepirules_current_bid

vars == <<phase, playable, n_announced, queued, current_bid>>

Last(s) == s[Len(s)]
Popped(s) == SubSeq(s, 1, Len(s) - 1)

(***************************************************************************)
(* EBid: a seat below the one whose bid stands may equal it, a seat above  *)
(* has to exceed it.                                                       *)
(***************************************************************************)
EBidAlwaysAtLeast(epi) == "AtLeast"

EBidSwapped(epi) == IF epi > current_bid.epi THEN "AtLeast" ELSE "Higher"

EBid(epi) == IF epi < current_bid.epi THEN "AtLeast" ELSE "Higher"

(***************************************************************************)
(* TActivelyPlayableRules::with_higher_prio_than: the priorities, at most  *)
(* one, at which game can be bid against prio.                             *)
(***************************************************************************)
WithIncreasedPrioUncapped(game, prio, ebid) ==
  { p \in {<<SoloSteigern, prio[2] + (IF ebid = "AtLeast" THEN 0 ELSE Step)>>} :
      BasePrio[game][1] = SoloSteigern /\ prio[1] = SoloSteigern /\ p[2] <= 2 * MaxPoints }

WithIncreasedPrio(game, prio, ebid) ==
  LET points == prio[2] + (IF ebid = "AtLeast" THEN 0 ELSE Step)
  IN  { p \in {<<SoloSteigern, points>>} :
          /\ BasePrio[game][1] = SoloSteigern
          /\ prio[1] = SoloSteigern
          /\ points <= MaxPoints }

WithHigherPrioThanReversed(game, prio, ebid) ==
  IF PrioLess(BasePrio[game], prio)
  THEN {BasePrio[game]}
  ELSE WithIncreasedPrio(game, prio, ebid)

WithHigherPrioThan(game, prio, ebid) ==
  IF \/ ebid = "AtLeast" /\ PrioLeq(prio, BasePrio[game])
     \/ ebid = "Higher" /\ PrioLess(prio, BasePrio[game])
  THEN {BasePrio[game]}
  ELSE WithIncreasedPrio(game, prio, ebid)

(***************************************************************************)
(* which_player_can_do_something of SDetermineRules: the seat to be asked  *)
(* is the last one queued, and what it is offered (besides "Nothing") are  *)
(* the games its hand allows, at the priority it would have to pay.        *)
(***************************************************************************)
Asked == Last(queued).epi

Offers ==
  UNION { { [epi |-> Asked, game |-> game, prio |-> p] :
              p \in WithHigherPrioThan(game, current_bid.prio, EBid(Asked)) } :
          game \in playable[Asked] }

(***************************************************************************)
(* The guard of SDetermineRules::announce_game beyond the player index: an *)
(* equal priority passes, whichever seat it comes from.                    *)
(***************************************************************************)
Accepts(bid) ==
  /\ ~ PrioLess(bid.prio, current_bid.prio)
  /\ bid.game \in playable[bid.epi]

------------------------------------------------------------------------------
Init ==
  /\ phase = "GamePreparations"
  /\ playable \in [Seats -> HandGames]
  /\ n_announced = 0
  /\ queued = <<>>
  /\ current_bid = NoBid

\* SGamePreparations::announce_game by the seat whose turn it is
AnnounceGame(ogame) ==
  /\ phase = "GamePreparations"
  /\ n_announced < N
  /\ ogame \in playable[n_announced] \cup {NoGame}
  /\ queued' = IF ogame = NoGame THEN queued
               ELSE Append(queued, [epi |-> n_announced, game |-> ogame,
                                    prio |-> BasePrio[ogame]])
  /\ n_announced' = n_announced + 1
  /\ UNCHANGED <<phase, playable, current_bid>>

\* the last announcement becomes the bid without leaving the queue
FinishPreparationsKeepingBid ==
  /\ phase = "GamePreparations"
  /\ n_announced = N
  /\ phase' = IF queued = <<>> THEN "NoBids" ELSE "DetermineRules"
  /\ current_bid' = IF queued = <<>> THEN current_bid ELSE Last(queued)
  /\ UNCHANGED <<playable, n_announced, queued>>

\* SGamePreparations::finish_success: the last announcement becomes the bid
FinishPreparations ==
  /\ phase = "GamePreparations"
  /\ n_announced = N
  /\ IF queued = <<>>
     THEN /\ phase' = "NoBids"
          /\ UNCHANGED <<queued, current_bid>>
     ELSE /\ phase' = "DetermineRules"
          /\ current_bid' = Last(queued)
          /\ queued' = Popped(queued)
  /\ UNCHANGED <<playable, n_announced>>

\* the bid that stood is queued behind those who wait
BidHigherQueuedFirst ==
  /\ phase = "DetermineRules"
  /\ queued # <<>>
  /\ \E bid \in Offers :
       /\ Accepts(bid)
       /\ queued' = <<current_bid>> \o Popped(queued)
       /\ current_bid' = bid
  /\ UNCHANGED <<phase, playable, n_announced>>

\* SDetermineRules::announce_game: the bid that stood is queued in its place
BidHigher ==
  /\ phase = "DetermineRules"
  /\ queued # <<>>
  /\ \E bid \in Offers :
       /\ Accepts(bid)
       /\ queued' = Append(Popped(queued), current_bid)
       /\ current_bid' = bid
  /\ UNCHANGED <<phase, playable, n_announced>>

\* SDetermineRules::resign
Resign ==
  /\ phase = "DetermineRules"
  /\ queued # <<>>
  /\ queued' = Popped(queued)
  /\ UNCHANGED <<phase, playable, n_announced, current_bid>>

\* SDetermineRules::finish_success
FinishDetermineRules ==
  /\ phase = "DetermineRules"
  /\ queued = <<>>
  /\ phase' = "Game"
  /\ UNCHANGED <<playable, n_announced, queued, current_bid>>

Over == phase \in {"NoBids", "Game"}

\* the phases after the bidding are none of this module's concern
Terminated == Over /\ UNCHANGED vars

Next ==
  \/ \E ogame \in Games \cup {NoGame} : AnnounceGame(ogame)
  \/ FinishPreparations
  \/ BidHigher
  \/ Resign
  \/ FinishDetermineRules
  \/ Terminated

(***************************************************************************)
(* run.rs waits for the answer of the seat it asks, and the server answers *)
(* for a seat that does not: somebody always moves on.                     *)
(***************************************************************************)
Spec == Init /\ [][Next]_vars /\ WF_vars(Next)

------------------------------------------------------------------------------
(***************************************************************************)
(* Properties.                                                             *)
(***************************************************************************)

\* Types; and every bid, however often it was raised, is one the rule set can
\* yield: a Steigern game is never below 61 or above 120 points, as payout asserts.
TypeOK ==
  /\ phase \in {"GamePreparations", "DetermineRules", "NoBids", "Game"}
  /\ playable \in [Seats -> HandGames]
  /\ n_announced \in 0 .. N
  /\ queued \in Seq(Bids)
  /\ current_bid \in Bids \cup {NoBid}
  /\ current_bid = NoBid <=> phase \in {"GamePreparations", "NoBids"}
  /\ \A i \in 1 .. Len(queued) : queued[i].prio \in PricesOf(queued[i].game)
  /\ current_bid # NoBid => current_bid.prio \in PricesOf(current_bid.game)

\* The seats still in the auction besides the one whose bid stands: each is
\* queued once and the bidder is not among them (the assertions of
\* which_player_can_do_something and announce_game).  The two that duel may be
\* in any order, everybody below them waits in seat order; so whoever enters the
\* duel sits below the bidder and may equal the bid.
QueueShape ==
  /\ phase = "GamePreparations" =>
       \A i \in 1 .. Len(queued) : queued[i].epi < n_announced
  /\ phase = "DetermineRules" =>
       \A i \in 1 .. Len(queued) :
         /\ queued[i].epi # current_bid.epi
         /\ i < Len(queued) => queued[i].epi < current_bid.epi
  /\ \A i, j \in 1 .. Len(queued) : i < j => queued[i].epi < queued[j].epi

\* Whatever a seat is offered is accepted when it chooses it, although the offer
\* is made by with_higher_prio_than and tested by announce_game; run.rs unwraps
\* the result, and the server would print an error and ask again for ever.
OfferedIsAccepted ==
  phase = "DetermineRules" /\ queued # <<>> =>
    \A bid \in Offers : Accepts(bid)

\* A new bid beats the one that stood: it is higher, or equal and from a lower
\* seat.  announce_game alone does not ensure it, it admits an equal bid from
\* any seat; only the offers do.
Beats(bid, other) ==
  \/ PrioLess(other.prio, bid.prio)
  \/ bid.prio = other.prio /\ bid.epi < other.epi

BidsRise ==
  [][phase = "DetermineRules" /\ current_bid' # current_bid =>
       Beats(current_bid', current_bid)]_vars

\* The bidding ends, however stubborn the players are.
EveryBiddingEnds == <>Over

(***************************************************************************)
(* The queue with the standing bid implements the auction.                 *)
(***************************************************************************)
QueuedSeats == { queued[i].epi : i \in 1 .. Len(queued) }

A == INSTANCE Auction WITH
  Prices <- Prios,
  Less <- PrioLess,
  NoPrice <- NoBid,
  stage <- CASE phase = "GamePreparations" -> "announcing"
             [] phase = "DetermineRules" -> "auction"
             [] OTHER -> "over",
  contenders <- QueuedSeats \cup
                (IF current_bid = NoBid THEN {} ELSE {current_bid.epi}),
  leader <- IF current_bid = NoBid THEN N ELSE current_bid.epi,
  price <- IF current_bid = NoBid THEN NoBid ELSE current_bid.prio,
  asked <- IF phase \in {"GamePreparations", "NoBids"} THEN n_announced
           ELSE IF queued = <<>> THEN N ELSE Asked

AuctionSpec == A!Spec
==============================================================================
