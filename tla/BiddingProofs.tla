---------------------------- MODULE BiddingProofs ----------------------------
(***************************************************************************)
(* Theorems about Bidding, for every number of seats, rule set and hands.  *)
(***************************************************************************)
EXTENDS BiddingPhases, SequenceTheorems, TLAPS

(***************************************************************************)
(* The stack of queued bids.                                               *)
(***************************************************************************)
\* The queue without its last entry is a queue, one shorter, with the other entries.
LEMMA PoppedProperties ==
  ASSUME NEW S, NEW s \in Seq(S), s # <<>>
  PROVE  /\ Popped(s) \in Seq(S)
         /\ Len(s) \in Nat \ {0}
         /\ Len(Popped(s)) = Len(s) - 1
         /\ \A i \in 1 .. Len(s) - 1 : Popped(s)[i] = s[i]
         /\ Last(s) \in S
<1> DEFINE n == Len(s) - 1
<1>1. Len(s) \in Nat \ {0} /\ n \in Nat /\ n <= Len(s)
  BY EmptySeq
<1>2. Last(s) \in S
  BY <1>1 DEF Last
<1> HIDE DEF n
<1>3. SubSeq(s, 1, n) \in Seq(S)
  BY <1>1
<1>4. Len(SubSeq(s, 1, n)) = n
  BY <1>1
<1>5. \A i \in 1 .. n : SubSeq(s, 1, n)[i] = s[i]
  BY <1>1
<1>6. QED
  BY <1>1, <1>2, <1>3, <1>4, <1>5 DEF Popped, n

\* What the two operations on the queue leave in it.
LEMMA PoppedQueue ==
  ASSUME queued \in Seq(Bids), queued # <<>>, queued' = Popped(queued)
  PROVE  /\ queued' \in Seq(Bids)
         /\ Len(queued) \in Nat \ {0}
         /\ Len(queued') = Len(queued) - 1
         /\ \A i \in 1 .. Len(queued') : queued'[i] = queued[i]
<1>1. /\ queued' \in Seq(Bids) /\ Len(queued') = Len(queued) - 1
      /\ Len(queued) \in Nat \ {0}
      /\ \A i \in 1 .. Len(queued) - 1 : queued'[i] = queued[i]
  BY PoppedProperties
<1>2. QED
  BY <1>1

\* Popping the queue and appending one bid: what announce_game makes of it.
LEMMA SwappedQueue ==
  ASSUME queued \in Seq(Bids), queued # <<>>, current_bid \in Bids,
         queued' = Append(Popped(queued), current_bid)
  PROVE  /\ queued' \in Seq(Bids)
         /\ Len(queued) \in Nat \ {0}
         /\ Len(queued') = Len(queued)
         /\ \A i \in 1 .. Len(queued) - 1 : queued'[i] = queued[i]
         /\ queued'[Len(queued)] = current_bid
<1> DEFINE popped == Popped(queued)
<1>1. /\ popped \in Seq(Bids) /\ Len(popped) = Len(queued) - 1
      /\ Len(queued) \in Nat \ {0}
      /\ \A i \in 1 .. Len(queued) - 1 : popped[i] = queued[i]
  BY PoppedProperties
<1> HIDE DEF popped
<1>2. queued' = Append(popped, current_bid)
  BY DEF popped
<1>3. QED
  BY <1>1, <1>2

\* An entry of the queue is a bid.
LEMMA QueuedAreBids ==
  ASSUME NEW q \in Seq(Bids), NEW i \in 1 .. Len(q)
  PROVE  q[i] \in Bids /\ q[i].epi \in Seats /\ q[i].epi \in Nat
<1>1. q[i] \in Bids
  BY ElementOfSeq
<1>2. q[i].epi \in Seats
  BY <1>1 DEF Bids
<1>3. QED
  BY <1>1, <1>2, ConstantsAssumption DEF Seats

\* A priority is a class and a number.
LEMMA PriosArePairs ==
  ASSUME NEW p \in Prios
  PROVE  p[1] \in Int /\ p[2] \in Int /\ p = <<p[1], p[2]>>
  BY DEF Prios, RufspielLike, SoloSie

\* What a game can cost is a priority.
LEMMA PricesOfArePrios ==
  ASSUME NEW game \in Games, NEW p \in PricesOf(game)
  PROVE  p \in Prios
  BY ConstantsAssumption
  DEF PricesOf, Prios, RufspielLike, SoloSteigern, SoloSie, MinPoints, MaxPoints

\* What a game is offered at is one of its prices, and no lower than the bid
\* that has to be beaten; it is as low only for a seat that may equal it.
LEMMA HigherPrio ==
  ASSUME NEW game \in Games, NEW other \in Games, NEW prio \in PricesOf(other),
         NEW ebid \in {"AtLeast", "Higher"},
         NEW p \in WithHigherPrioThan(game, prio, ebid)
  PROVE  /\ p \in PricesOf(game)
         /\ PrioLess(prio, p) \/ (p = prio /\ ebid = "AtLeast")
<1>1. /\ prio \in Prios /\ BasePrio[game] \in Prios
      /\ BasePrio[game] \in PricesOf(game)
  BY PricesOfArePrios, ConstantsAssumption DEF PricesOf
<1> DEFINE unraised == \/ ebid = "AtLeast" /\ PrioLeq(prio, BasePrio[game])
                       \/ ebid = "Higher" /\ PrioLess(prio, BasePrio[game])
<1>0. p \in IF unraised THEN {BasePrio[game]} ELSE WithIncreasedPrio(game, prio, ebid)
  BY DEF WithHigherPrioThan
<1>2. CASE unraised
  <2>1. p = BasePrio[game]
    BY <1>0, <1>2
  <2>2. QED
    BY <1>1, <1>2, <2>1 DEF PrioLeq
<1>3. CASE ~ unraised
  <2> DEFINE points == prio[2] + (IF ebid = "AtLeast" THEN 0 ELSE Step)
  <2>1. /\ p = <<SoloSteigern, points>>
        /\ BasePrio[game][1] = SoloSteigern
        /\ prio[1] = SoloSteigern
        /\ points <= MaxPoints
    BY <1>0, <1>3 DEF WithIncreasedPrio
  <2>2. prio[2] \in MinPoints .. MaxPoints
    <3>1. CASE prio = BasePrio[other]
      BY <3>1, <2>1, ConstantsAssumption DEF MinPoints, MaxPoints
    <3>2. CASE prio \in {SoloSteigern} \X (MinPoints .. MaxPoints)
      BY <3>2
    <3>3. QED
      BY <3>1, <3>2 DEF PricesOf
  <2>3. points \in MinPoints .. MaxPoints
    BY <2>1, <2>2, ConstantsAssumption, SMTT(60) DEF MinPoints, MaxPoints
  <2>4. p \in PricesOf(game)
    BY <2>1, <2>3 DEF PricesOf
  <2>5. prio = <<SoloSteigern, prio[2]>> /\ prio[2] \in Int
    BY <1>1, <2>1, PriosArePairs
  <2>6. CASE ebid = "AtLeast"
    BY <2>1, <2>4, <2>5, <2>6
  <2>7. CASE ebid = "Higher"
    <3>1. p[1] = prio[1] /\ prio[2] < p[2]
      BY <2>1, <2>5, <2>7, ConstantsAssumption
    <3>2. QED
      BY <2>4, <3>1 DEF PrioLess
  <2>8. QED
    BY <2>6, <2>7
<1>4. QED
  BY <1>2, <1>3

\* The offers in a state of the auction.
LEMMA OffersProperties ==
  ASSUME TypeOK, phase = "DetermineRules", queued # <<>>, NEW bid \in Offers
  PROVE  /\ bid \in Bids
         /\ bid.epi = Asked
         /\ bid.game \in playable[Asked]
         /\ bid.prio \in PricesOf(bid.game)
         /\ \/ PrioLess(current_bid.prio, bid.prio)
            \/ bid.prio = current_bid.prio /\ Asked < current_bid.epi
<1>1. /\ current_bid \in Bids
      /\ current_bid.prio \in PricesOf(current_bid.game)
      /\ Last(queued) \in Bids
  BY PoppedProperties DEF TypeOK
<1>2. Asked \in Seats /\ current_bid.game \in Games
  BY <1>1 DEF Asked, Bids
<1>3. PICK game \in playable[Asked] :
        \E p \in WithHigherPrioThan(game, current_bid.prio, EBid(Asked)) :
          bid = [epi |-> Asked, game |-> game, prio |-> p]
  BY DEF Offers
<1>4. game \in Games
  BY <1>2, ConstantsAssumption DEF TypeOK
<1>5. PICK p \in WithHigherPrioThan(game, current_bid.prio, EBid(Asked)) :
        bid = [epi |-> Asked, game |-> game, prio |-> p]
  BY <1>3
<1>6. EBid(Asked) \in {"AtLeast", "Higher"}
  BY DEF EBid
<1>7. /\ p \in PricesOf(game)
      /\ PrioLess(current_bid.prio, p)
         \/ (p = current_bid.prio /\ EBid(Asked) = "AtLeast")
  BY <1>1, <1>2, <1>4, <1>6, HigherPrio
<1>8. p \in Prios
  BY <1>4, <1>7, PricesOfArePrios
<1>9. QED
  BY <1>2, <1>4, <1>5, <1>7, <1>8 DEF Bids, EBid

------------------------------------------------------------------------------
(***************************************************************************)
(* Types.                                                                  *)
(***************************************************************************)

\* The bids keep their types and stay within what the rule set can yield.
THEOREM TypeCorrect == Spec => []TypeOK
<1>1. Init => TypeOK
  BY ConstantsAssumption DEF Init, TypeOK, Seats
<1>2. TypeOK /\ [Next]_vars => TypeOK'
  <2> SUFFICES ASSUME TypeOK, [Next]_vars PROVE TypeOK'
    OBVIOUS
  <2> USE DEF TypeOK
  <2>1. ASSUME NEW ogame \in Games \cup {NoGame}, AnnounceGame(ogame) PROVE TypeOK'
    <3>1. CASE ogame = NoGame
      BY <2>1, <3>1, ConstantsAssumption DEF AnnounceGame
    <3>2. CASE ogame # NoGame
      <4> DEFINE bid == [epi |-> n_announced, game |-> ogame, prio |-> BasePrio[ogame]]
      <4>1. bid \in Bids /\ bid.prio \in PricesOf(bid.game)
        BY <2>1, <3>2, ConstantsAssumption DEF AnnounceGame, Bids, Seats, PricesOf
      <4> HIDE DEF bid
      <4>2. queued' = Append(queued, bid)
        BY <2>1, <3>2 DEF AnnounceGame, bid
      <4>3. /\ queued' \in Seq(Bids)
            /\ Len(queued') = Len(queued) + 1
            /\ \A i \in 1 .. Len(queued) : queued'[i] = queued[i]
            /\ queued'[Len(queued) + 1] = bid
        BY <4>1, <4>2
      <4>4. \A i \in 1 .. Len(queued') : queued'[i].prio \in PricesOf(queued'[i].game)
        <5> SUFFICES ASSUME NEW i \in 1 .. Len(queued')
                     PROVE  queued'[i].prio \in PricesOf(queued'[i].game)
          OBVIOUS
        <5>1. CASE i \in 1 .. Len(queued)
          BY <5>1, <4>3
        <5>2. CASE i = Len(queued) + 1
          BY <5>2, <4>1, <4>3
        <5>3. QED
          BY <5>1, <5>2, <4>3
      <4>5. QED
        BY <2>1, <4>3, <4>4, ConstantsAssumption DEF AnnounceGame, PricesOf
    <3>3. QED
      BY <3>1, <3>2
  <2>2. CASE FinishPreparations
    <3>1. CASE queued = <<>>
      BY <2>2, <3>1 DEF FinishPreparations
    <3>2. CASE queued # <<>>
      <4>1. /\ current_bid' = Last(queued) /\ Last(queued) \in Bids
            /\ Last(queued).prio \in PricesOf(Last(queued).game)
        BY <2>2, <3>2, PoppedProperties DEF FinishPreparations, Last
      <4>2. /\ queued' \in Seq(Bids) /\ Len(queued') = Len(queued) - 1
            /\ Len(queued) \in Nat \ {0}
            /\ \A i \in 1 .. Len(queued') : queued'[i] = queued[i]
        BY <2>2, <3>2, PoppedQueue DEF FinishPreparations
      <4>3. \A i \in 1 .. Len(queued') : queued'[i].prio \in PricesOf(queued'[i].game)
        <5> SUFFICES ASSUME NEW i \in 1 .. Len(queued')
                     PROVE  queued'[i].prio \in PricesOf(queued'[i].game)
          OBVIOUS
        <5>1. i \in 1 .. Len(queued) /\ queued'[i] = queued[i]
          BY <4>2
        <5> QED
          BY <5>1
      <4>4. current_bid' # NoBid
        BY <4>1, ConstantsAssumption
      <4>5. QED
        BY <2>2, <3>2, <4>1, <4>2, <4>3, <4>4 DEF FinishPreparations, PricesOf
    <3>3. QED
      BY <3>1, <3>2
  <2>3. CASE BidHigher
    <3>1. PICK bid \in Offers :
            queued' = Append(Popped(queued), current_bid) /\ current_bid' = bid
      BY <2>3 DEF BidHigher
    <3>2. bid \in Bids /\ bid.prio \in PricesOf(bid.game)
      BY <2>3, OffersProperties DEF BidHigher
    <3>3. /\ queued # <<>> /\ current_bid \in Bids
          /\ current_bid.prio \in PricesOf(current_bid.game)
      BY <2>3 DEF BidHigher
    <3>4. /\ queued' \in Seq(Bids)
          /\ Len(queued) \in Nat \ {0}
          /\ Len(queued') = Len(queued)
          /\ \A i \in 1 .. Len(queued) - 1 : queued'[i] = queued[i]
          /\ queued'[Len(queued)] = current_bid
      BY <3>1, <3>3, SwappedQueue
    <3>5. \A i \in 1 .. Len(queued') : queued'[i].prio \in PricesOf(queued'[i].game)
      <4> SUFFICES ASSUME NEW i \in 1 .. Len(queued')
                   PROVE  queued'[i].prio \in PricesOf(queued'[i].game)
        OBVIOUS
      <4>1. CASE i = Len(queued)
        BY <3>3, <3>4, <4>1
      <4>2. CASE i \in 1 .. Len(queued) - 1
        BY <3>4, <4>2
      <4>3. QED
        BY <3>4, <4>1, <4>2
    <3>6. current_bid' # NoBid
      BY <3>1, <3>2, ConstantsAssumption
    <3>7. QED
      BY <2>3, <3>1, <3>2, <3>4, <3>5, <3>6 DEF BidHigher, PricesOf
  <2>4. CASE Resign
    <3>1. /\ queued' \in Seq(Bids) /\ Len(queued') = Len(queued) - 1
          /\ Len(queued) \in Nat \ {0}
          /\ \A i \in 1 .. Len(queued') : queued'[i] = queued[i]
      BY <2>4, PoppedQueue DEF Resign
    <3>2. \A i \in 1 .. Len(queued') : queued'[i].prio \in PricesOf(queued'[i].game)
      <4> SUFFICES ASSUME NEW i \in 1 .. Len(queued')
                   PROVE  queued'[i].prio \in PricesOf(queued'[i].game)
        OBVIOUS
      <4>1. i \in 1 .. Len(queued) /\ queued'[i] = queued[i]
        BY <3>1
      <4> QED
        BY <4>1
    <3>3. QED
      BY <2>4, <3>1, <3>2 DEF Resign, PricesOf
  <2>5. CASE FinishDetermineRules
    BY <2>5 DEF FinishDetermineRules, PricesOf
  <2>6. CASE UNCHANGED vars
    BY <2>6 DEF vars, PricesOf
  <2>7. QED
    BY <2>1, <2>2, <2>3, <2>4, <2>5, <2>6 DEF Next, Terminated
<1>3. QED
  BY <1>1, <1>2, PTL DEF Spec
------------------------------------------------------------------------------
(***************************************************************************)
(* The order of the queue, and what follows from it.                       *)
(***************************************************************************)

\* Nobody is queued twice or against the own bid, and only the two that duel
\* may be out of order.
THEOREM QueueShapeInvariant == Spec => []QueueShape
<1>1. Init => QueueShape
  BY DEF Init, QueueShape
<1>2. TypeOK /\ QueueShape /\ [Next]_vars => QueueShape'
  <2> SUFFICES ASSUME TypeOK, QueueShape, [Next]_vars PROVE QueueShape'
    OBVIOUS
  <2>0. queued \in Seq(Bids) /\ n_announced \in Nat /\ Len(queued) \in Nat
    BY ConstantsAssumption DEF TypeOK
  <2>1. ASSUME NEW ogame \in Games \cup {NoGame}, AnnounceGame(ogame)
        PROVE  QueueShape'
    <3>1. CASE ogame = NoGame
      <4>1. \A i \in 1 .. Len(queued) : queued[i].epi \in Nat
        BY <2>0, QueuedAreBids
      <4>2. QED
        BY <2>0, <2>1, <3>1, <4>1 DEF AnnounceGame, QueueShape
    <3>2. CASE ogame # NoGame
      <4> DEFINE bid == [epi |-> n_announced, game |-> ogame, prio |-> BasePrio[ogame]]
      <4>1. bid.epi = n_announced
        OBVIOUS
      <4>2. queued' = Append(queued, bid) /\ n_announced' = n_announced + 1
            /\ phase = "GamePreparations" /\ phase' = phase
        BY <2>1, <3>2 DEF AnnounceGame
      <4> HIDE DEF bid
      <4>3. /\ Len(queued') = Len(queued) + 1
            /\ \A i \in 1 .. Len(queued) : queued'[i] = queued[i]
            /\ queued'[Len(queued) + 1] = bid
        BY <2>0, <4>2
      <4>4. \A i \in 1 .. Len(queued) : queued[i].epi < n_announced
        BY <4>2 DEF QueueShape
      <4>5. \A i \in 1 .. Len(queued) : queued[i].epi \in Nat
        BY <2>0, QueuedAreBids
      <4>6. \A i \in 1 .. Len(queued') : queued'[i].epi < n_announced'
        BY <2>0, <4>1, <4>2, <4>3, <4>4, <4>5
      <4>7. \A i, j \in 1 .. Len(queued') : i < j => queued'[i].epi < queued'[j].epi
        BY <2>0, <4>1, <4>3, <4>4 DEF QueueShape
      <4>8. QED
        BY <4>2, <4>6, <4>7 DEF QueueShape
    <3>3. QED
      BY <3>1, <3>2
  <2>2. CASE FinishPreparations
    <3>1. CASE queued = <<>>
      BY <2>2, <3>1 DEF FinishPreparations, QueueShape
    <3>2. CASE queued # <<>>
      <4>1. /\ Len(queued') = Len(queued) - 1
            /\ Len(queued) \in Nat \ {0}
            /\ \A i \in 1 .. Len(queued') : queued'[i] = queued[i]
        BY <2>0, <2>2, <3>2, PoppedQueue DEF FinishPreparations
      <4>2. /\ current_bid' = queued[Len(queued)]
            /\ phase' = "DetermineRules"
        BY <2>2, <3>2 DEF FinishPreparations, Last
      <4>3. \A i \in 1 .. Len(queued') : queued'[i].epi < current_bid'.epi
        BY <4>1, <4>2 DEF QueueShape
      <4>4. \A i \in 1 .. Len(queued') : queued'[i].epi \in Nat
        BY <2>0, <4>1, QueuedAreBids
      <4>5. current_bid'.epi \in Nat
        BY <2>0, <4>1, <4>2, QueuedAreBids
      <4>6. QED
        BY <4>1, <4>2, <4>3, <4>4, <4>5 DEF QueueShape
    <3>3. QED
      BY <3>1, <3>2
  <2>3. CASE BidHigher
    <3>1. PICK bid \in Offers :
            queued' = Append(Popped(queued), current_bid) /\ current_bid' = bid
      BY <2>3 DEF BidHigher
    <3>2. /\ queued # <<>> /\ phase = "DetermineRules" /\ phase' = phase
          /\ current_bid \in Bids
      BY <2>3 DEF BidHigher, TypeOK
    <3>3. current_bid'.epi = queued[Len(queued)].epi
      BY <3>1, <3>2, OffersProperties DEF Asked, Last
    <3>4. /\ Len(queued) \in Nat \ {0}
          /\ Len(queued') = Len(queued)
          /\ \A i \in 1 .. Len(queued) - 1 : queued'[i] = queued[i]
          /\ queued'[Len(queued)] = current_bid
      BY <2>0, <3>1, <3>2, SwappedQueue
    <3>5. /\ \A i \in 1 .. Len(queued) : queued[i].epi # current_bid.epi
          /\ \A i \in 1 .. Len(queued) - 1 : queued[i].epi < current_bid.epi
          /\ \A i, j \in 1 .. Len(queued) : i < j => queued[i].epi < queued[j].epi
      BY <3>2 DEF QueueShape
    <3>6. \A i \in 1 .. Len(queued) : queued[i].epi \in Nat
      BY <2>0, QueuedAreBids
    <3>7. \A i \in 1 .. Len(queued') :
            /\ queued'[i].epi # current_bid'.epi
            /\ i < Len(queued') => queued'[i].epi < current_bid'.epi
      BY <3>3, <3>4, <3>5, <3>6
    <3>8. \A i, j \in 1 .. Len(queued') : i < j => queued'[i].epi < queued'[j].epi
      BY <3>4, <3>5
    <3>9. QED
      BY <3>2, <3>7, <3>8 DEF QueueShape
  <2>4. CASE Resign
    <3>1. /\ Len(queued') = Len(queued) - 1
          /\ \A i \in 1 .. Len(queued') : queued'[i] = queued[i]
      BY <2>0, <2>4, PoppedQueue DEF Resign
    <3>2. QED
      BY <2>0, <2>4, <3>1 DEF Resign, QueueShape
  <2>5. CASE FinishDetermineRules
    BY <2>5 DEF FinishDetermineRules, QueueShape
  <2>6. CASE UNCHANGED vars
    BY <2>6 DEF vars, QueueShape
  <2>7. QED
    BY <2>1, <2>2, <2>3, <2>4, <2>5, <2>6 DEF Next, Terminated
<1>3. QED
  BY <1>1, <1>2, TypeCorrect, PTL DEF Spec

\* announce_game refuses nothing a seat was offered.
THEOREM OffersAccepted == Spec => []OfferedIsAccepted
<1>1. TypeOK => OfferedIsAccepted
  <2> SUFFICES ASSUME TypeOK, phase = "DetermineRules", queued # <<>>,
                      NEW bid \in Offers
               PROVE  Accepts(bid)
    BY DEF OfferedIsAccepted
  <2>1. /\ bid.epi = Asked /\ bid.game \in playable[Asked]
        /\ bid \in Bids /\ current_bid \in Bids
        /\ \/ PrioLess(current_bid.prio, bid.prio)
           \/ bid.prio = current_bid.prio
    BY OffersProperties DEF TypeOK
  <2>2. bid.prio \in Prios /\ current_bid.prio \in Prios
    BY <2>1 DEF Bids
  <2>3. ~ PrioLess(bid.prio, current_bid.prio)
    BY <2>1, <2>2, PriosArePairs DEF PrioLess
  <2>4. QED
    BY <2>1, <2>3 DEF Accepts
<1>2. QED
  BY <1>1, TypeCorrect, PTL

\* Every bid beats the one before: higher, or equal and from a lower seat.
THEOREM BidsAlwaysRise == Spec => BidsRise
<1>1. TypeOK /\ [Next]_vars =>
        [phase = "DetermineRules" /\ current_bid' # current_bid =>
           Beats(current_bid', current_bid)]_vars
  <2> SUFFICES ASSUME TypeOK, Next, phase = "DetermineRules",
                      current_bid' # current_bid
               PROVE  Beats(current_bid', current_bid)
    OBVIOUS
  <2>1. BidHigher
    BY DEF Next, AnnounceGame, FinishPreparations, Resign, FinishDetermineRules,
           Terminated, vars
  <2>2. current_bid' \in Offers /\ queued # <<>>
    BY <2>1 DEF BidHigher
  <2>3. QED
    BY <2>2, OffersProperties DEF Beats
<1>2. QED
  BY <1>1, TypeCorrect, PTL DEF Spec, BidsRise

------------------------------------------------------------------------------
(***************************************************************************)
(* The refinement.                                                         *)
(***************************************************************************)
\* The highest seat of a set is the one no other exceeds.
LEMMA HighestIs ==
  ASSUME NEW S, NEW s \in S, S \subseteq Int, \A t \in S : t <= s
  PROVE  A!Highest(S) = s
<1>1. \A t \in S : (\A u \in S : u <= t) => t = s
  BY SMT
<1>2. S # {}
  OBVIOUS
<1>3. QED
  BY <1>1, <1>2 DEF A!Highest

\* The initial states are those of the auction.
LEMMA InitRefines == Init => A!Init
<1> SUFFICES ASSUME Init PROVE A!Init
  OBVIOUS
<1>1. QueuedSeats = {}
  BY DEF Init, QueuedSeats
<1>2. QED
  BY <1>1 DEF Init, A!Init, A!NoSeat

\* The seats in the queue after its last entry is popped.
LEMMA SeatsAfterPop ==
  ASSUME queued \in Seq(Bids), QueueShape, queued # <<>>,
         Len(queued') = Len(queued) - 1,
         \A i \in 1 .. Len(queued') : queued'[i] = queued[i]
  PROVE  QueuedSeats' = QueuedSeats \ {Asked}
<1>1. Len(queued) \in Nat \ {0}
  BY EmptySeq
<1>2. \A i \in 1 .. Len(queued) : queued[i].epi \in Nat
  BY QueuedAreBids
<1>3. \A i \in 1 .. Len(queued) - 1 : queued[i].epi < Asked
  BY <1>1 DEF QueueShape, Asked, Last
<1>4. Asked = queued[Len(queued)].epi
  BY DEF Asked, Last
<1>5. \A i \in 1 .. Len(queued) - 1 : queued[i].epi # Asked
  BY <1>1, <1>2, <1>3, <1>4
<1>6. QueuedSeats' = { queued[i].epi : i \in 1 .. Len(queued) - 1 }
  BY DEF QueuedSeats
<1>7. QueuedSeats = { queued[i].epi : i \in 1 .. Len(queued) - 1 } \cup {Asked}
  BY <1>1, <1>4 DEF QueuedSeats
<1>8. QED
  BY <1>5, <1>6, <1>7

\* The seat that is asked stands in the queue.
LEMMA AskedIsQueued ==
  ASSUME queued \in Seq(Bids), queued # <<>>
  PROVE  Asked \in QueuedSeats
<1>1. Len(queued) \in 1 .. Len(queued)
  BY EmptySeq
<1>2. QED
  BY <1>1 DEF Asked, Last, QueuedSeats

\* The seat the refinement maps asked to, when the bidding is open.  Stated for
\* any queue, to be used in the state before a step and in the one after it.
LEMMA AskedMapped ==
  ASSUME NEW q \in Seq(Bids),
         \A i, j \in 1 .. Len(q) : i < j => q[i].epi < q[j].epi
  PROVE  A!Highest({ q[i].epi : i \in 1 .. Len(q) }) =
           IF q = <<>> THEN N ELSE Last(q).epi
<1> DEFINE seats == { q[i].epi : i \in 1 .. Len(q) }
<1>1. CASE q = <<>>
  BY <1>1 DEF A!Highest, A!NoSeat
<1>2. CASE q # <<>>
  <2>1. Len(q) \in Nat \ {0}
    BY <1>2, EmptySeq
  <2>2. \A i \in 1 .. Len(q) : q[i].epi \in Nat
    BY QueuedAreBids
  <2>3. \A i \in 1 .. Len(q) : q[i].epi <= q[Len(q)].epi
    BY <2>1, <2>2
  <2>4. /\ q[Len(q)].epi \in seats /\ seats \subseteq Int
        /\ \A s \in seats : s <= q[Len(q)].epi
    BY <2>1, <2>2, <2>3
  <2> HIDE DEF seats
  <2>5. A!Highest(seats) = q[Len(q)].epi
    BY <2>4, HighestIs
  <2>6. QED
    BY <1>2, <2>5 DEF seats, Last
<1>3. QED
  BY <1>1, <1>2

\* An announcement is a seat speaking.
LEMMA AnnounceRefines ==
  ASSUME TypeOK, NEW ogame \in Games \cup {NoGame}, AnnounceGame(ogame)
  PROVE  A!Speak(ogame # NoGame)
<1>1. /\ phase = "GamePreparations" /\ phase' = phase
      /\ current_bid = NoBid /\ current_bid' = current_bid
      /\ n_announced \in 0 .. N - 1 /\ n_announced' = n_announced + 1
      /\ queued \in Seq(Bids)
  BY ConstantsAssumption DEF AnnounceGame, TypeOK
<1>2. CASE ogame = NoGame
  <2>1. QueuedSeats' = QueuedSeats
    BY <1>2 DEF AnnounceGame, QueuedSeats
  <2>2. QED
    BY <1>1, <1>2, <2>1 DEF A!Speak, A!Seats
<1>3. CASE ogame # NoGame
  <2> DEFINE bid == [epi |-> n_announced, game |-> ogame, prio |-> BasePrio[ogame]]
  <2>1. bid.epi = n_announced /\ queued' = Append(queued, bid)
    BY <1>3 DEF AnnounceGame
  <2> HIDE DEF bid
  <2>2. /\ Len(queued) \in Nat
        /\ Len(queued') = Len(queued) + 1
        /\ \A i \in 1 .. Len(queued) : queued'[i] = queued[i]
        /\ queued'[Len(queued) + 1] = bid
    BY <1>1, <2>1
  <2>3. QueuedSeats' = QueuedSeats \cup {n_announced}
    BY <2>1, <2>2 DEF QueuedSeats
  <2>4. QED
    BY <1>1, <1>3, <2>3 DEF A!Speak, A!Seats
<1>4. QED
  BY <1>2, <1>3

\* The end of the preparations opens the auction, or nobody plays.
LEMMA FinishPreparationsRefines ==
  ASSUME TypeOK, QueueShape, QueueShape', TypeOK', FinishPreparations
  PROVE  A!Open \/ A!NobodyPlays
<1>1. /\ phase = "GamePreparations" /\ n_announced = N /\ n_announced' = N
      /\ current_bid = NoBid /\ queued \in Seq(Bids) /\ queued' \in Seq(Bids)
      /\ N \notin 0 .. N - 1
  BY ConstantsAssumption DEF FinishPreparations, TypeOK
<1>2. CASE queued = <<>>
  BY <1>1, <1>2 DEF FinishPreparations, A!NobodyPlays, A!Seats, QueuedSeats
<1>3. CASE queued # <<>>
  <2>1. /\ phase' = "DetermineRules" /\ current_bid' = Last(queued)
        /\ current_bid' # NoBid
        /\ current_bid'.epi = Asked
    BY <1>3 DEF FinishPreparations, Asked, TypeOK
  <2>2. /\ Len(queued') = Len(queued) - 1
        /\ \A i \in 1 .. Len(queued') : queued'[i] = queued[i]
    BY <1>1, <1>3, PoppedQueue DEF FinishPreparations
  <2>3. QueuedSeats' = QueuedSeats \ {Asked}
    BY <1>1, <1>3, <2>2, SeatsAfterPop
  <2>4. Asked \in QueuedSeats /\ A!Highest(QueuedSeats) = Asked
    BY <1>1, <1>3, AskedIsQueued, AskedMapped DEF QueueShape, QueuedSeats, Asked
  <2>5. A!Highest(QueuedSeats') = IF queued' = <<>> THEN N ELSE Asked'
    BY <1>1, AskedMapped DEF QueueShape, QueuedSeats, Asked
  <2>6. QueuedSeats' \cup {Asked} = QueuedSeats
    BY <2>3, <2>4
  <2>7. current_bid'.prio \in Prios
    BY <2>1 DEF TypeOK, Bids
  <2>8. A!Open
    BY <1>1, <1>3, <2>1, <2>3, <2>4, <2>5, <2>6, <2>7 DEF A!Open, A!Seats
  <2>9. QED
    BY <2>8
<1>4. QED
  BY <1>2, <1>3

\* A new bid is a challenger taking the lead.
LEMMA BidHigherRefines ==
  ASSUME TypeOK, QueueShape, QueueShape', TypeOK', BidHigher
  PROVE  A!Bid
<1>1. PICK bid \in Offers :
        queued' = Append(Popped(queued), current_bid) /\ current_bid' = bid
  BY DEF BidHigher
<1>2. /\ phase = "DetermineRules" /\ phase' = phase /\ queued # <<>>
      /\ queued \in Seq(Bids) /\ queued' \in Seq(Bids)
      /\ current_bid \in Bids /\ current_bid # NoBid
      /\ current_bid' \in Bids /\ current_bid' # NoBid
  BY DEF BidHigher, TypeOK
<1>3. current_bid'.epi = Asked /\ Beats(current_bid', current_bid)
  BY <1>1, <1>2, OffersProperties DEF Beats
<1>4. /\ Len(queued) \in Nat \ {0}
      /\ Len(queued') = Len(queued)
      /\ \A i \in 1 .. Len(queued) - 1 : queued'[i] = queued[i]
      /\ queued'[Len(queued)] = current_bid
  BY <1>1, <1>2, SwappedQueue
<1>5. /\ queued' # <<>>
      /\ Asked' = current_bid.epi
  BY <1>4 DEF Asked, Last
<1>6. QueuedSeats' \cup {Asked} = QueuedSeats \cup {current_bid.epi}
  BY <1>4 DEF QueuedSeats, Asked, Last
<1>7. Asked \in QueuedSeats /\ Asked # current_bid.epi
  BY <1>2, <1>4, AskedIsQueued DEF QueueShape, Asked, Last
<1>8. current_bid'.prio \in Prios
  BY <1>2 DEF Bids
<1>9. QED
  BY <1>2, <1>3, <1>5, <1>6, <1>7, <1>8 DEF A!Bid, A!Beats, Beats

\* To resign is to give up.
LEMMA ResignRefines ==
  ASSUME TypeOK, QueueShape, QueueShape', TypeOK', Resign
  PROVE  A!GiveUp
<1>1. /\ phase = "DetermineRules" /\ phase' = phase /\ queued # <<>>
      /\ queued \in Seq(Bids) /\ queued' \in Seq(Bids)
      /\ current_bid \in Bids /\ current_bid # NoBid /\ current_bid' = current_bid
  BY DEF Resign, TypeOK
<1>2. /\ Len(queued) \in Nat \ {0}
      /\ Len(queued') = Len(queued) - 1
      /\ \A i \in 1 .. Len(queued') : queued'[i] = queued[i]
  BY <1>1, PoppedQueue DEF Resign
<1>3. QueuedSeats' = QueuedSeats \ {Asked}
  BY <1>1, <1>2, SeatsAfterPop
<1>4. Asked \in QueuedSeats /\ Asked # current_bid.epi
  BY <1>1, <1>2, AskedIsQueued DEF QueueShape, Asked, Last
<1>5. current_bid.epi \notin QueuedSeats'
  BY <1>1, <1>2 DEF QueueShape, QueuedSeats
<1>6. A!Highest(QueuedSeats') = IF queued' = <<>> THEN N ELSE Asked'
  BY <1>1, AskedMapped DEF QueueShape, QueuedSeats, Asked
<1>7. QueuedSeats' = (QueuedSeats' \cup {current_bid.epi}) \ {current_bid.epi}
  BY <1>5
<1>8. QueuedSeats' \cup {current_bid.epi} =
        (QueuedSeats \cup {current_bid.epi}) \ {Asked}
  BY <1>3, <1>4
<1>9. QED
  BY <1>1, <1>4, <1>6, <1>7, <1>8 DEF A!GiveUp

\* The end of the bidding closes the auction.
LEMMA FinishDetermineRulesRefines ==
  ASSUME TypeOK, FinishDetermineRules
  PROVE  A!Close
<1>1. /\ queued = <<>> /\ queued' = queued /\ current_bid # NoBid
      /\ current_bid' = current_bid
      /\ phase = "DetermineRules" /\ phase' = "Game"
  BY DEF FinishDetermineRules, TypeOK
<1>2. QueuedSeats = {} /\ QueuedSeats' = {}
  BY <1>1 DEF QueuedSeats
<1>3. QED
  BY <1>1, <1>2 DEF A!Close

\* The bidding implements the auction: whatever the program does with its queue,
\* the highest remaining seat challenges the leader until one of them gives up.
THEOREM ImplementsAuction == Spec => AuctionSpec
<1>1. /\ TypeOK /\ TypeOK' /\ QueueShape /\ QueueShape' /\ [Next]_vars
      => [A!Next]_A!avars
  <2> SUFFICES ASSUME TypeOK, TypeOK', QueueShape, QueueShape', [Next]_vars
               PROVE  [A!Next]_A!avars
    OBVIOUS
  <2>1. ASSUME NEW ogame \in Games \cup {NoGame}, AnnounceGame(ogame)
        PROVE  A!Next
    BY <2>1, AnnounceRefines DEF A!Next
  <2>2. CASE FinishPreparations
    BY <2>2, FinishPreparationsRefines DEF A!Next
  <2>3. CASE BidHigher
    BY <2>3, BidHigherRefines DEF A!Next
  <2>4. CASE Resign
    BY <2>4, ResignRefines DEF A!Next
  <2>5. CASE FinishDetermineRules
    BY <2>5, FinishDetermineRulesRefines DEF A!Next
  <2>6. CASE UNCHANGED vars
    BY <2>6 DEF vars, A!avars, QueuedSeats, Asked
  <2>7. QED
    BY <2>1, <2>2, <2>3, <2>4, <2>5, <2>6 DEF Next, Terminated
<1>2. QED
  BY <1>1, InitRefines, TypeCorrect, QueueShapeInvariant, PTL
  DEF Spec, AuctionSpec, A!Spec

------------------------------------------------------------------------------
(***************************************************************************)
(* The phases of a table (GamePhases), which know nothing of the queue.    *)
(***************************************************************************)
\* Both modules mean the same by the highest seat.
LEMMA SameHighest == \A S : P!Highest(S) = A!Highest(S)
  BY DEF P!Highest, A!Highest, P!NoSeat, A!NoSeat

\* What P calls a turn of a seat.
LEMMA TurnOf ==
  /\ \A epi \in Seats : P!Turn(epi) = {epi}
  /\ P!Turn(N) = {}
  /\ P!NoSeat = N
  /\ Seats # {}
<1>1. N \notin Seats /\ 0 \in Seats
  BY ConstantsAssumption DEF Seats
<1> QED BY <1>1 DEF P!Turn, P!Seats, P!NoSeat, Seats

\* An announcement is an answer to the preparations.
LEMMA AnnounceIsAnswer ==
  ASSUME TypeOK, NEW ogame \in Games \cup {NoGame}, AnnounceGame(ogame)
  PROVE  Answered
<1>1. /\ phase = "GamePreparations"
      /\ n_announced \in Seats /\ n_announced' = n_announced + 1
  BY ConstantsAssumption DEF AnnounceGame, TypeOK, Seats
<1>2. Preparations.asked = {n_announced}
  BY <1>1, TurnOf DEF Preparations, P!GamePreparations
<1>3. QueuedSeats' \in {QueuedSeats, QueuedSeats \cup {n_announced}}
  <2>1. CASE ogame = NoGame
    BY <2>1 DEF AnnounceGame, QueuedSeats
  <2>2. CASE ogame # NoGame
    <3> DEFINE bid == [epi |-> n_announced, game |-> ogame, prio |-> BasePrio[ogame]]
    <3>1. bid.epi = n_announced /\ queued' = Append(queued, bid)
      BY <2>2 DEF AnnounceGame
    <3> HIDE DEF bid
    <3>2. /\ Len(queued) \in Nat
          /\ Len(queued') = Len(queued) + 1
          /\ \A i \in 1 .. Len(queued) : queued'[i] = queued[i]
          /\ queued'[Len(queued) + 1] = bid
      BY <3>1 DEF TypeOK
    <3> QED BY <3>1, <3>2 DEF QueuedSeats
  <2> QED BY <2>1, <2>2
<1>4. Preparations' \in P!AfterAnswer(Preparations, n_announced)
  <2>1. Preparations' = P!GamePreparations(n_announced + 1, QueuedSeats')
    BY <1>1 DEF Preparations
  <2>2. Preparations.kind = "GamePreparations" /\ Preparations.contenders = QueuedSeats
    BY DEF Preparations, P!GamePreparations
  <2>3. P!AfterAnswer(Preparations, n_announced) =
          {P!GamePreparations(n_announced + 1, QueuedSeats),
           P!GamePreparations(n_announced + 1, QueuedSeats \cup {n_announced})}
    BY <2>2 DEF P!AfterAnswer, P!AfterDefault, P!AfterChoice
  <2> QED BY <1>3, <2>1, <2>3
<1> QED BY <1>1, <1>2, <1>4 DEF Answered

\* The end of the preparations is where the phase settles.
LEMMA FinishPreparationsSettles ==
  ASSUME TypeOK, QueueShape, QueueShape', TypeOK', FinishPreparations
  PROVE  Settling
<1>1. /\ phase = "GamePreparations" /\ n_announced = N
      /\ queued \in Seq(Bids) /\ queued' \in Seq(Bids)
  BY DEF FinishPreparations, TypeOK
<1>2. /\ Preparations.kind = "GamePreparations"
      /\ Preparations.contenders = QueuedSeats
      /\ Preparations.asked = {}
  BY <1>1, TurnOf DEF Preparations, P!GamePreparations
<1>3. CASE queued = <<>>
  <2>1. QueuedSeats = {} /\ phase' = "NoBids"
    BY <1>1, <1>3 DEF FinishPreparations, QueuedSeats
  <2>2. P!Settled(Preparations) =
          { IF what = "Ramsch" THEN P!Game({}, 0, 0, 0) ELSE P!NextGame :
              what \in {"Stock", "Ramsch"} }
    BY <1>2, <2>1 DEF P!Settled
  <2>3. P!NextGame \in P!Settled(Preparations)
    BY <2>2
  <2> QED BY <1>1, <1>2, <2>1, <2>3 DEF Settling
<1>4. CASE queued # <<>>
  <2>1. /\ phase' = "DetermineRules" /\ current_bid' = Last(queued)
        /\ current_bid'.epi = Asked
    BY <1>4 DEF FinishPreparations, Asked
  <2>2. /\ Len(queued') = Len(queued) - 1
        /\ \A i \in 1 .. Len(queued') : queued'[i] = queued[i]
    BY <1>1, <1>4, PoppedQueue DEF FinishPreparations
  <2>3. QueuedSeats' = QueuedSeats \ {Asked}
    BY <1>1, <1>4, <2>2, SeatsAfterPop
  <2>4. Asked \in QueuedSeats /\ P!Highest(QueuedSeats) = Asked
    BY <1>1, <1>4, AskedIsQueued, AskedMapped, SameHighest DEF QueueShape, QueuedSeats, Asked
  <2>5. P!Highest(QueuedSeats') = IF queued' = <<>> THEN N ELSE Asked'
    BY <1>1, AskedMapped, SameHighest DEF QueueShape, QueuedSeats, Asked
  <2>6. P!Settled(Preparations) = P!Auctioned(QueuedSeats)
    BY <1>2, <2>4 DEF P!Settled
  <2>7. CASE queued' # <<>>
    <3>1. QueuedSeats' # {}
      <4>1. Len(queued') \in 1 .. Len(queued')
        BY <1>1, <2>7, EmptySeq
      <4> QED BY <4>1 DEF QueuedSeats
    <3>2. P!Auctioned(QueuedSeats) =
            {P!DetermineRules(QueuedSeats, Asked, P!Highest(QueuedSeats'), 0)}
      BY <2>3, <2>4, <3>1 DEF P!Auctioned
    <3>3. Determining(0)' = P!DetermineRules(QueuedSeats' \cup {Asked}, Asked, Asked', 0)
      BY <2>1, <2>7 DEF Determining
    <3>4. QueuedSeats' \cup {Asked} = QueuedSeats
      BY <2>3, <2>4
    <3>5. Determining(0)' \in P!Settled(Preparations)
      BY <2>5, <2>6, <2>7, <3>2, <3>3, <3>4
    <3> QED BY <1>1, <1>2, <2>1, <2>7, <3>5 DEF Settling
  <2>8. CASE queued' = <<>>
    <3>1. QueuedSeats' = {}
      BY <2>8 DEF QueuedSeats
    <3>2. P!Settled(Preparations) = P!Begun(Asked)
      BY <2>3, <2>4, <2>6, <3>1 DEF P!Auctioned
    <3>3. P!Game({Asked, 0}, 0, 0, 0) \in P!Begun(Asked)
      <4>1. 0 \in P!Seats
        BY ConstantsAssumption DEF P!Seats
      <4> QED BY <4>1 DEF P!Begun
    <3> QED BY <1>1, <1>2, <2>1, <2>8, <3>2, <3>3 DEF Settling
  <2> QED BY <2>7, <2>8
<1> QED BY <1>3, <1>4

\* What the table knows of the auction.
LEMMA DeterminingIs ==
  ASSUME TypeOK, phase = "DetermineRules", queued # <<>>
  PROVE  /\ Asked \in Seats
         /\ Determining(0).kind = "DetermineRules"
         /\ Determining(0).asked = {Asked}
         /\ Determining(0).contenders = QueuedSeats \cup {current_bid.epi}
         /\ Determining(0).leader = current_bid.epi
         /\ Determining(0).n_raise = 0
<1>1. Asked \in Seats
  <2>1. Last(queued) \in Bids
    BY PoppedProperties DEF TypeOK
  <2> QED BY <2>1 DEF Asked, Bids
<1>2. Determining(0) = P!DetermineRules(QueuedSeats \cup {current_bid.epi}, current_bid.epi, Asked, 0)
  BY DEF Determining
<1> QED BY <1>1, <1>2, TurnOf DEF P!DetermineRules

\* A new bid is the choice to take the lead.
LEMMA BidHigherIsAnswer ==
  ASSUME TypeOK, BidHigher
  PROVE  Answered
<1>1. PICK bid \in Offers :
        queued' = Append(Popped(queued), current_bid) /\ current_bid' = bid
  BY DEF BidHigher
<1>2. /\ phase = "DetermineRules" /\ queued # <<>>
      /\ queued \in Seq(Bids) /\ current_bid \in Bids
  BY DEF BidHigher, TypeOK
<1>3. current_bid'.epi = Asked
  BY <1>1, <1>2, OffersProperties
<1>4. /\ Len(queued) \in Nat \ {0}
      /\ Len(queued') = Len(queued)
      /\ \A i \in 1 .. Len(queued) - 1 : queued'[i] = queued[i]
      /\ queued'[Len(queued)] = current_bid
  BY <1>1, <1>2, SwappedQueue
<1>5. queued' # <<>> /\ Asked' = current_bid.epi
  BY <1>4 DEF Asked, Last
<1>6. QueuedSeats' \cup {Asked} = QueuedSeats \cup {current_bid.epi}
  BY <1>4 DEF QueuedSeats, Asked, Last
<1>7. Determining(1)' =
        P!DetermineRules(QueuedSeats' \cup {Asked}, Asked, current_bid.epi, 1)
  BY <1>3, <1>5 DEF Determining
<1>8. P!DetermineRules(QueuedSeats \cup {current_bid.epi}, Asked, current_bid.epi, 1)
        \in P!AfterAnswer(Determining(0), Asked)
  <2> DEFINE d == Determining(0)
  <2>1. /\ d.kind = "DetermineRules" /\ d.n_raise = 0 /\ d.leader = current_bid.epi
        /\ d.contenders = QueuedSeats \cup {current_bid.epi}
    BY <1>2, DeterminingIs
  <2> HIDE DEF d
  <2>2. P!AfterChoice(d, Asked) = {P!DetermineRules(d.contenders, Asked, d.leader, d.n_raise + 1)}
    BY <2>1 DEF P!AfterChoice
  <2>3. P!DetermineRules(d.contenders, Asked, d.leader, 0 + 1) \in P!AfterAnswer(d, Asked)
    BY <2>1, <2>2 DEF P!AfterAnswer
  <2> QED BY <2>1, <2>3 DEF d
<1>9. Determining(1)' \in P!AfterAnswer(Determining(0), Asked)
  BY <1>6, <1>7, <1>8
<1> QED BY <1>2, <1>9, DeterminingIs DEF Answered

\* To resign is the default answer.
LEMMA ResignIsAnswer ==
  ASSUME TypeOK, QueueShape, QueueShape', TypeOK', Resign
  PROVE  Answered
<1>1. /\ phase = "DetermineRules" /\ queued # <<>>
      /\ queued \in Seq(Bids) /\ queued' \in Seq(Bids)
      /\ current_bid' = current_bid /\ phase' = phase
  BY DEF Resign, TypeOK
<1>2. /\ Len(queued) \in Nat \ {0}
      /\ Len(queued') = Len(queued) - 1
      /\ \A i \in 1 .. Len(queued') : queued'[i] = queued[i]
  BY <1>1, PoppedQueue DEF Resign
<1>3. QueuedSeats' = QueuedSeats \ {Asked}
  BY <1>1, <1>2, SeatsAfterPop
<1>4. Asked \in QueuedSeats /\ Asked # current_bid.epi
  BY <1>1, <1>2, AskedIsQueued DEF QueueShape, Asked, Last
<1>5. current_bid.epi \notin QueuedSeats'
  BY <1>1, <1>2 DEF QueueShape, QueuedSeats
<1>6. P!Highest(QueuedSeats') = IF queued' = <<>> THEN N ELSE Asked'
  BY <1>1, AskedMapped, SameHighest DEF QueueShape, QueuedSeats, Asked
<1> DEFINE left == (QueuedSeats \cup {current_bid.epi}) \ {Asked}
<1>7. left = QueuedSeats' \cup {current_bid.epi} /\ left \ {current_bid.epi} = QueuedSeats'
  BY <1>3, <1>4, <1>5
<1> HIDE DEF left
<1>8. P!DetermineRules(left, current_bid.epi, P!Highest(left \ {current_bid.epi}), 0)
        \in P!AfterAnswer(Determining(0), Asked)
  BY <1>1, DeterminingIs DEF P!AfterAnswer, P!AfterDefault, left
<1>9. Determining(0)' = P!DetermineRules(left, current_bid.epi, P!Highest(QueuedSeats'), 0)
  BY <1>1, <1>6, <1>7, TurnOf DEF Determining
<1>10. Determining(0)' \in P!AfterAnswer(Determining(0), Asked)
  BY <1>7, <1>8, <1>9
<1> QED BY <1>1, <1>10, DeterminingIs DEF Answered

\* When the queue is empty, the one whose bid stands begins the game.
LEMMA FinishDetermineRulesSettles ==
  ASSUME TypeOK, FinishDetermineRules
  PROVE  Settling
<1>1. phase = "DetermineRules" /\ phase' = "Game" /\ queued = <<>>
  BY DEF FinishDetermineRules
<1>2. Determining(0) =
        P!DetermineRules(QueuedSeats \cup {current_bid.epi}, current_bid.epi, N, 0)
  BY <1>1, TurnOf DEF Determining
<1>3. /\ Determining(0).asked = {} /\ Determining(0).kind = "DetermineRules"
      /\ Determining(0).leader = current_bid.epi
  BY <1>2, TurnOf DEF P!DetermineRules
<1>4. P!Settled(Determining(0)) = P!Begun(current_bid.epi)
  BY <1>3 DEF P!Settled
<1> QED BY <1>1, <1>3, <1>4 DEF Settling

\* A table that knows only who still wants to play and whose bid stands asks the seats
\* that the queue of SDetermineRules asks, and sees the bidding end where it does.
THEOREM BiddingIsGamePhases == Spec => BidsAsGamePhases
<1>1. /\ TypeOK /\ TypeOK' /\ QueueShape /\ QueueShape' /\ [Next]_vars
      => [Answered \/ Settling]_vars
  <2> SUFFICES ASSUME TypeOK, TypeOK', QueueShape, QueueShape', Next
               PROVE  Answered \/ Settling \/ UNCHANGED vars
    OBVIOUS
  <2>1. ASSUME NEW ogame \in Games \cup {NoGame}, AnnounceGame(ogame)
        PROVE  Answered
    BY <2>1, AnnounceIsAnswer
  <2>2. CASE FinishPreparations
    BY <2>2, FinishPreparationsSettles
  <2>3. CASE BidHigher
    BY <2>3, BidHigherIsAnswer
  <2>4. CASE Resign
    BY <2>4, ResignIsAnswer
  <2>5. CASE FinishDetermineRules
    BY <2>5, FinishDetermineRulesSettles
  <2> QED BY <2>1, <2>2, <2>3, <2>4, <2>5 DEF Next, Terminated
<1> QED BY <1>1, TypeCorrect, QueueShapeInvariant, PTL DEF Spec, BidsAsGamePhases
==============================================================================
