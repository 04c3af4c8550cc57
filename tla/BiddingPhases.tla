----------------------------- MODULE BiddingPhases -----------------------------
(***************************************************************************)
(* A table sees no more of the bidding than module GamePhases says: which  *)
(* seat has to answer, who still wants to play and whose bid stands.       *)
(***************************************************************************)
EXTENDS Bidding

ASSUME SeveralSeats == N > 1

\* Every bid counts as the first one: what bounds their number here are the
\* prices, and there the constant MaxRaises.
P == INSTANCE GamePhases WITH
  Doubling <- FALSE,
  CardsPerPlayer <- 1,
  MaxStoss <- 0,
  MaxRaises <- 1,
  NobodyPlays <- {"Stock", "Ramsch"}

Preparations == P!GamePreparations(n_announced, QueuedSeats)

Determining(n_raise) ==
  P!DetermineRules(QueuedSeats \cup {current_bid.epi}, current_bid.epi,
                   IF queued = <<>> THEN P!NoSeat ELSE Asked, n_raise)

\* what becomes of the phase when the seat it asks has answered
Answered ==
  \/ /\ phase = "GamePreparations"
     /\ \E epi \in Preparations.asked : Preparations' \in P!AfterAnswer(Preparations, epi)
  \/ /\ phase = "DetermineRules"
     /\ \E epi \in Determining(0).asked : \E n_raise \in {0, 1} :
          Determining(n_raise)' \in P!AfterAnswer(Determining(0), epi)

\* finish(), which goes on at once when only one seat wants to play
Settling ==
  \/ /\ phase = "GamePreparations"
     /\ Preparations.asked = {}
     /\ IF phase' = "DetermineRules" /\ queued' # <<>>
        THEN Determining(0)' \in P!Settled(Preparations)
        ELSE \E next \in P!Settled(Preparations) :
               IF phase' = "NoBids" THEN next = P!NextGame
               ELSE next \in P!Begun(current_bid'.epi)
  \/ /\ phase = "DetermineRules"
     /\ Determining(0).asked = {}
     /\ phase' = "Game"
     /\ P!Settled(Determining(0)) = P!Begun(current_bid.epi)

(***************************************************************************)
(* Every step of the bidding is one that the table expects: the seat asked *)
(* next, the contenders that are left and the leader are those it computes *)
(* from the answer alone, without the queue.                               *)
(***************************************************************************)
BidsAsGamePhases == [][Answered \/ Settling]_vars
==============================================================================
