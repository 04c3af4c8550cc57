------------------------------- MODULE Auction -------------------------------
(***************************************************************************)
(* What finding the game to be played promises, without the data structure *)
(* the program uses for it.                                                *)
(*                                                                         *)
(* Each seat says in turn whether it wants to play.  Then the leader, at   *)
(* first the last seat that wants to play, is challenged by the highest    *)
(* other seat that is still contending.  The challenger either outbids the *)
(* leader, and the two change places, or gives up for good.  A bid beats   *)
(* another if it is higher or if it is equally high and comes from a lower *)
(* seat.  The auction is over when only the leader is left.                *)
(***************************************************************************)
EXTENDS Integers

CONSTANTS
  N,              \* number of seats
  Prices,         \* what can be bid
  Less(_, _),     \* the order of the prices
  NoPrice         \* the price while there is no bid

Seats == 0 .. N - 1
NoSeat == N       \* in the place of a seat where there is none

VARIABLES
  stage,          \* "announcing", "auction" or "over"
  contenders,     \* the seats that want to play and have not given up
  leader,         \* the seat whose bid stands
  price,          \* the bid that stands
  asked           \* the seat that has to speak

avars == <<stage, contenders, leader, price, asked>>

Highest(S) == IF S = {} THEN NoSeat ELSE CHOOSE s \in S : \A t \in S : t <= s

Beats(p, s, q, t) == Less(q, p) \/ (p = q /\ s < t)

Init ==
  /\ stage = "announcing"
  /\ contenders = {}
  /\ leader = NoSeat
  /\ price = NoPrice
  /\ asked = 0

Speak(wants) ==
  /\ stage = "announcing"
  /\ asked \in Seats
  /\ contenders' = IF wants THEN contenders \cup {asked} ELSE contenders
  /\ asked' = asked + 1
  /\ UNCHANGED <<stage, leader, price>>

Open ==
  /\ stage = "announcing"
  /\ asked \notin Seats
  /\ contenders # {}
  /\ stage' = "auction"
  /\ leader' = Highest(contenders)
  /\ price' \in Prices
  /\ asked' = Highest(contenders \ {leader'})
  /\ UNCHANGED contenders

NobodyPlays ==
  /\ stage = "announcing"
  /\ asked \notin Seats
  /\ contenders = {}
  /\ stage' = "over"
  /\ UNCHANGED <<contenders, leader, price, asked>>

Bid ==
  /\ stage = "auction"
  /\ asked \in contenders \ {leader}
  /\ price' \in Prices
  /\ Beats(price', asked, price, leader)
  /\ leader' = asked
  /\ asked' = leader
  /\ UNCHANGED <<stage, contenders>>

GiveUp ==
  /\ stage = "auction"
  /\ asked \in contenders \ {leader}
  /\ contenders' = contenders \ {asked}
  /\ asked' = Highest(contenders' \ {leader})
  /\ UNCHANGED <<stage, leader, price>>

Close ==
  /\ stage = "auction"
  /\ contenders = {leader}
  /\ stage' = "over"
  /\ UNCHANGED <<contenders, leader, price, asked>>

Next ==
  \/ \E wants \in BOOLEAN : Speak(wants)
  \/ Open
  \/ NobodyPlays
  \/ Bid
  \/ GiveUp
  \/ Close

Spec == Init /\ [][Next]_avars
==============================================================================
