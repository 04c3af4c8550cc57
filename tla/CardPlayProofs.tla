---------------------------- MODULE CardPlayProofs ----------------------------
(***************************************************************************)
(* Theorems about playing the cards (CardPlay).  They come in four parts,  *)
(* each with a stronger invariant than the one before:                     *)
(*   IInv   a Stich follows the winner of the one before, and the cards of *)
(*          every hand are counted: whoever has to play finds an allowed   *)
(*          card, and each Stich goes to the card that nothing in it beats *)
(*   FInv   what the Stichs say of the hands: suit is followed, the Rufsau *)
(*          is kept, and the search can take its last card back            *)
(*   DInv   what a seat holds and has played is what it was dealt: the     *)
(*          type invariant, and that a table sees a Game of GamePhases     *)
(*   RInv   the Rufsau is found                                            *)
(***************************************************************************)
EXTENDS CardPlay, TLAPS, FiniteSetTheorems, SequenceTheorems, WellFoundedInduction

(***************************************************************************)
(* The order of the cards, for every decider: it is transitive across      *)
(* Schlaege, Trumpf and Farben, no card beats itself, and only Trumpf and  *)
(* cards of its own Farbe beat a card.                                     *)
(***************************************************************************)
\* The place of an element in a sequence is a number.
LEMMA PositionIsNumber ==
  ASSUME NEW s, Len(s) \in Nat, NEW x \in Elements(s)
  PROVE  Position(s, x) \in 1 .. Len(s) /\ s[Position(s, x)] = x
BY DEF Position, Elements

\* The Farben have an order, and every decider orders the Schlaege.
LEMMA Orders ==
  /\ \A f \in Elements(Farben) : Position(Farben, f) \in Nat
  /\ \A d \in Deciders : \A s \in Elements(Schlaege) : Position(d.order, s) \in Nat
<1>1. ASSUME NEW f \in Elements(Farben) PROVE Position(Farben, f) \in Nat
  <2>1. Len(Farben) = 4
    BY DEF Farben
  <2> QED
    BY <2>1, PositionIsNumber
<1>2. ASSUME NEW d \in Deciders, NEW s \in Elements(Schlaege) PROVE Position(d.order, s) \in Nat
  <2>1. d.order = Simple \/ d.order = Bettel
    BY DEF Deciders, SoloOf, WenzOf, GeierOf, BettelDecider
  <2>2. Len(Simple) = 8 /\ Len(Bettel) = 8
    BY DEF Simple, Bettel
  <2>3. s \in {"Ass", "Zehn", "Koenig", "Ober", "Unter", "S9", "S8", "S7"}
    BY DEF Schlaege, Elements
  <2>4. s \in Elements(Simple)
    <3>1. \A i \in 1 .. 8 : Simple[i] \in Elements(Simple)
      BY <2>2 DEF Elements
    <3> QED
      BY <2>3, <3>1 DEF Simple
  <2>5. s \in Elements(Bettel)
    <3>1. \A i \in 1 .. 8 : Bettel[i] \in Elements(Bettel)
      BY <2>2 DEF Elements
    <3> QED
      BY <2>3, <3>1 DEF Bettel
  <2> QED
    BY <2>1, <2>2, <2>4, <2>5, PositionIsNumber
<1> QED
  BY <1>1, <1>2

\* A decider has at most two Schlaege that are Trumpf.
LEMMA SchlaegeOfDecider ==
  ASSUME NEW d \in Deciders
  PROVE  d.schlaege \in {<<>>, <<"Unter">>, <<"Ober">>, <<"Ober", "Unter">>}
BY DEF Deciders, SoloOf, WenzOf, GeierOf, BettelDecider

\* One of the Schlaege of the decider decides between two cards, or none does.
LEMMA DecidingCases ==
  ASSUME NEW d \in Deciders, NEW a \in AllCards, NEW b \in AllCards
  PROVE  LET i == Deciding(d, a, b)
         IN  /\ i \in 1 .. Len(d.schlaege) + 1
             /\ i <= Len(d.schlaege) => d.schlaege[i] \in {a.schlag, b.schlag}
             /\ \A j \in 1 .. i - 1 : d.schlaege[j] \notin {a.schlag, b.schlag}
<1> DEFINE OK(i) == /\ i <= Len(d.schlaege) => d.schlaege[i] \in {a.schlag, b.schlag}
                    /\ \A j \in 1 .. i - 1 : d.schlaege[j] \notin {a.schlag, b.schlag}
<1>1. \E i \in 1 .. Len(d.schlaege) + 1 : OK(i)
  <2>1. CASE d.schlaege = <<>>
    <3>1. OK(1)
      BY <2>1
    <3> QED
      BY <2>1, <3>1
  <2>2. CASE d.schlaege = <<"Unter">> \/ d.schlaege = <<"Ober">>
    <3>1. Len(d.schlaege) = 1
      BY <2>2
    <3>2. OK(1) \/ OK(2)
      BY <3>1
    <3> QED
      BY <3>1, <3>2
  <2>3. CASE d.schlaege = <<"Ober", "Unter">>
    <3>1. Len(d.schlaege) = 2
      BY <2>3
    <3>2. OK(1) \/ OK(2) \/ OK(3)
      BY <3>1
    <3> QED
      BY <3>1, <3>2
  <2> QED
    BY <2>1, <2>2, <2>3, SchlaegeOfDecider
<1> QED
  BY <1>1 DEF Deciding

\* compare_cards is transitive, across Schlaege, Trumpf and the other Farben.
LEMMA LessIsTransitive ==
  ASSUME NEW d \in Deciders, NEW a \in AllCards, NEW b \in AllCards, NEW c \in AllCards,
         Less(d, a, b), Less(d, b, c)
  PROVE  Less(d, a, c)
<1>1. /\ \A x \in {a, b, c} : x.farbe \in Elements(Farben) /\ x.schlag \in Elements(Schlaege)
  BY DEF AllCards
<1>2. /\ \A x \in {a, b, c} : Position(Farben, x.farbe) \in Nat /\ Position(d.order, x.schlag) \in Nat
  BY <1>1, Orders
<1> DEFINE L == Len(d.schlaege)
<1>3. L \in Nat
  BY SchlaegeOfDecider
<1> DEFINE i == Deciding(d, a, b)
           j == Deciding(d, b, c)
           k == Deciding(d, a, c)
<1>4. /\ i \in 1 .. L + 1
      /\ i <= L => d.schlaege[i] \in {a.schlag, b.schlag}
      /\ \A m \in 1 .. i - 1 : d.schlaege[m] \notin {a.schlag, b.schlag}
  BY DecidingCases
<1>5. /\ j \in 1 .. L + 1
      /\ j <= L => d.schlaege[j] \in {b.schlag, c.schlag}
      /\ \A m \in 1 .. j - 1 : d.schlaege[m] \notin {b.schlag, c.schlag}
  BY DecidingCases
<1>6. /\ k \in 1 .. L + 1
      /\ k <= L => d.schlaege[k] \in {a.schlag, c.schlag}
      /\ \A m \in 1 .. k - 1 : d.schlaege[m] \notin {a.schlag, c.schlag}
  BY DecidingCases
<1>7. \A x, y \in {a, b, c} : FarbcardLess(d, x, y) <=> Position(d.order, x.schlag) < Position(d.order, y.schlag)
  BY DEF FarbcardLess
<1> HIDE DEF i, j, k, L
<1>8. (IF i <= L THEN SchlagLess(d.schlaege[i], a, b) ELSE FarbeLess(d, a, b))
  BY DEF Less, i, L
<1>9. (IF j <= L THEN SchlagLess(d.schlaege[j], b, c) ELSE FarbeLess(d, b, c))
  BY DEF Less, j, L
<1>10. CASE i <= L /\ j <= L
  <2>1. k = j
    BY <1>3, <1>4, <1>5, <1>6, <1>8, <1>9, <1>10 DEF SchlagLess
  <2>2. SchlagLess(d.schlaege[j], a, c)
    BY <1>2, <1>3, <1>4, <1>5, <1>8, <1>9, <1>10 DEF SchlagLess
  <2> QED
    BY <2>1, <2>2, <1>10 DEF Less, k, L
<1>11. CASE i <= L /\ j > L
  BY <1>3, <1>4, <1>5, <1>8, <1>11 DEF SchlagLess
<1>12. CASE i > L /\ j <= L
  <2>1. k = j
    BY <1>3, <1>4, <1>5, <1>6, <1>8, <1>9, <1>12 DEF SchlagLess
  <2>2. SchlagLess(d.schlaege[j], a, c)
    BY <1>2, <1>3, <1>4, <1>5, <1>8, <1>9, <1>12 DEF SchlagLess
  <2> QED
    BY <2>1, <2>2, <1>12 DEF Less, k, L
<1>13. CASE i > L /\ j > L
  <2>1. k > L
    BY <1>3, <1>4, <1>5, <1>6, <1>13
  <2>2. FarbeLess(d, a, b) /\ FarbeLess(d, b, c)
    BY <1>3, <1>4, <1>5, <1>8, <1>9, <1>13
  <2>3. FarbeLess(d, a, c)
    BY <1>2, <1>7, <2>2 DEF FarbeLess
  <2> QED
    BY <1>3, <1>6, <2>1, <2>3 DEF Less, k, L
<1> QED
  BY <1>3, <1>4, <1>5, <1>10, <1>11, <1>12, <1>13

\* No card beats itself.
LEMMA LessIsIrreflexive ==
  ASSUME NEW d \in Deciders, NEW a \in AllCards
  PROVE  ~ Less(d, a, a)
<1>1. a.farbe \in Elements(Farben) /\ a.schlag \in Elements(Schlaege)
  BY DEF AllCards
<1>2. Position(Farben, a.farbe) \in Nat /\ Position(d.order, a.schlag) \in Nat
  BY <1>1, Orders
<1>3. Len(d.schlaege) \in Nat
  BY SchlaegeOfDecider
<1> QED
  BY <1>2, <1>3, DecidingCases DEF Less, SchlagLess, FarbeLess, FarbcardLess

\* Only Trumpf and cards of its own Farbe beat a card, and every Trumpf beats what is none.
LEMMA LessBySuit ==
  ASSUME NEW d \in Deciders, NEW a \in AllCards, NEW b \in AllCards
  PROVE  /\ Less(d, a, b) => \/ TrumpfOrFarbe(d, b) = "Trumpf"
                             \/ TrumpfOrFarbe(d, a) = TrumpfOrFarbe(d, b)
         /\ TrumpfOrFarbe(d, b) = "Trumpf" /\ TrumpfOrFarbe(d, a) # "Trumpf" => Less(d, a, b)
<1> DEFINE L == Len(d.schlaege)
           i == Deciding(d, a, b)
<1>1. L \in Nat
  BY SchlaegeOfDecider
<1>2. /\ i \in 1 .. L + 1
      /\ i <= L => d.schlaege[i] \in {a.schlag, b.schlag}
      /\ \A m \in 1 .. i - 1 : d.schlaege[m] \notin {a.schlag, b.schlag}
  BY DecidingCases
<1>3. Less(d, a, b) <=> IF i <= L THEN SchlagLess(d.schlaege[i], a, b) ELSE FarbeLess(d, a, b)
  BY DEF Less
<1>4. \A x : x \in Elements(d.schlaege) <=> \E m \in 1 .. L : d.schlaege[m] = x
  BY DEF Elements
<1>5. a.farbe # "Trumpf" /\ b.farbe # "Trumpf"
  BY DEF AllCards, Elements, Farben
<1> HIDE DEF i, L
<1>6. CASE i <= L
  <2>1. d.schlaege[i] \in Elements(d.schlaege)
    BY <1>1, <1>2, <1>4, <1>6
  <2> QED
    BY <1>2, <1>3, <1>6, <2>1 DEF SchlagLess, TrumpfOrFarbe
<1>7. CASE i > L
  <2>1. a.schlag \notin Elements(d.schlaege) /\ b.schlag \notin Elements(d.schlaege)
    BY <1>1, <1>2, <1>4, <1>7
  <2> QED
    BY <1>1, <1>2, <1>3, <1>5, <1>7, <2>1 DEF FarbeLess, TrumpfOrFarbe
<1> QED
  BY <1>1, <1>2, <1>6, <1>7

(***************************************************************************)
(* The winner of a Stich.                                                  *)
(***************************************************************************)
\* Every set of numbers that has an element has a smallest one.
LEMMA SmallestOf ==
  ASSUME NEW T \in SUBSET Nat, T # {}
  PROVE  \E m \in T : \A k \in T : m <= k
<1>1. PICK m \in T : \A k \in T : ~ (<<k, m>> \in OpToRel(<, Nat))
  BY WFMin, NatLessThanWellFounded
<1>2. ASSUME NEW k \in T
      PROVE  m <= k
  <2>1. ~ (<<k, m>> \in OpToRel(<, Nat))
    BY <1>1
  <2>2. ~ (k < m)
    BY <2>1 DEF OpToRel
  <2> QED
    BY <2>2
<1> QED
  BY <1>2

\* the loop over the cards of a Stich: best is what PreliminaryWinner defines
IsLoop(stich, n, best) ==
  best = [i \in 1 .. n |-> IF i = 1 \/ BeatsBest(stich, best[i - 1], i) THEN i ELSE best[i - 1]]

\* The loop goes on over one card more.
LEMMA LoopGoesOn ==
  ASSUME NEW stich, NEW n \in Nat \ {0}, NEW f, IsLoop(stich, n - 1, f)
  PROVE  \E best : IsLoop(stich, n, best)
<1> DEFINE last == IF n = 1 \/ BeatsBest(stich, f[n - 1], n) THEN n ELSE f[n - 1]
           best == [i \in 1 .. n |-> IF i = n THEN last ELSE f[i]]
<1>1. ASSUME NEW i \in 1 .. n
      PROVE  best[i] = IF i = 1 \/ BeatsBest(stich, best[i - 1], i) THEN i ELSE best[i - 1]
  <2>1. i # 1 => best[i - 1] = f[i - 1]
    OBVIOUS
  <2>2. CASE i = n
    BY <2>1, <2>2
  <2>3. CASE i # n
    <3>1. i \in 1 .. n - 1
      BY <2>3
    <3>2. f[i] = IF i = 1 \/ BeatsBest(stich, f[i - 1], i) THEN i ELSE f[i - 1]
      BY <3>1 DEF IsLoop
    <3> QED
      BY <2>1, <2>3, <3>2
  <2> QED
    BY <2>2, <2>3
<1>2. best = [i \in 1 .. n |-> best[i]]
  OBVIOUS
<1> HIDE DEF best
<1>3. best = [i \in 1 .. n |-> IF i = 1 \/ BeatsBest(stich, best[i - 1], i) THEN i ELSE best[i - 1]]
  BY <1>1, <1>2
<1> QED
  BY <1>3 DEF IsLoop

\* The recursive function of PreliminaryWinner is defined, for Stichs of every length: of
\* the lengths without such a function there is no smallest one.
LEMMA LoopExists ==
  ASSUME NEW stich, NEW n \in Nat
  PROVE  \E best : IsLoop(stich, n, best)
<1> DEFINE Without == { m \in Nat : ~ \E best : IsLoop(stich, m, best) }
<1>1. ASSUME Without # {} PROVE FALSE
  <2>1. PICK m \in Without : \A k \in Without : m <= k
    BY <1>1, SmallestOf
  <2>2. m # 0
    <3>1. IsLoop(stich, 0, [i \in 1 .. 0 |-> 0])
      BY DEF IsLoop
    <3> QED
      BY <3>1
  <2>3. m - 1 \in Nat /\ m - 1 \notin Without
    BY <2>1, <2>2
  <2>4. PICK f : IsLoop(stich, m - 1, f)
    BY <2>3
  <2>5. \E best : IsLoop(stich, m, best)
    BY <2>2, <2>4, LoopGoesOn
  <2> QED
    BY <2>5
<1> QED
  BY <1>1

\* Nothing the loop has seen beats its best card, which has the suit that wins.
BestSoFar(d, stich, k, i) ==
  /\ k \in 1 .. i
  /\ \A j \in 1 .. i : ~ Less(d, stich.cards[k], stich.cards[j])
  /\ TrumpfOrFarbe(d, stich.cards[k]) =
       IF \E j \in 1 .. i : TrumpfOrFarbe(d, stich.cards[j]) = "Trumpf"
       THEN "Trumpf" ELSE TrumpfOrFarbe(d, stich.cards[1])

\* One more card keeps the best card best, because the order is transitive.
LEMMA BestIsReplaced ==
  ASSUME rules.decider \in Deciders, NEW stich, stich.cards \in Seq(AllCards),
         NEW i \in 2 .. Len(stich.cards), NEW k, BestSoFar(rules.decider, stich, k, i - 1)
  PROVE  BestSoFar(rules.decider, stich, IF BeatsBest(stich, k, i) THEN i ELSE k, i)
<1>1. \A j \in 1 .. i : stich.cards[j] \in AllCards
  OBVIOUS
<1>2. k \in 1 .. i - 1
  BY DEF BestSoFar
<1>3. \A j \in 1 .. i : j = i \/ j \in 1 .. i - 1
  OBVIOUS
<1>4. BeatsBest(stich, k, i) <=> Less(rules.decider, stich.cards[k], stich.cards[i])
  BY DEF BeatsBest
<1>5. CASE BeatsBest(stich, k, i)
  <2>1. \A j \in 1 .. i - 1 : ~ Less(rules.decider, stich.cards[i], stich.cards[j])
    BY <1>1, <1>2, <1>4, <1>5, LessIsTransitive, SMTT(60) DEF BestSoFar
  <2>2. ~ Less(rules.decider, stich.cards[i], stich.cards[i])
    BY <1>1, LessIsIrreflexive
  <2>3. TrumpfOrFarbe(rules.decider, stich.cards[i]) = "Trumpf" \/ TrumpfOrFarbe(rules.decider, stich.cards[i]) = TrumpfOrFarbe(rules.decider, stich.cards[k])
    BY <1>1, <1>2, <1>4, <1>5, LessBySuit
  <2>4. TrumpfOrFarbe(rules.decider, stich.cards[i]) =
          IF \E j \in 1 .. i : TrumpfOrFarbe(rules.decider, stich.cards[j]) = "Trumpf"
          THEN "Trumpf" ELSE TrumpfOrFarbe(rules.decider, stich.cards[1])
    BY <1>3, <2>3 DEF BestSoFar
  <2> QED
    BY <1>3, <1>5, <2>1, <2>2, <2>4 DEF BestSoFar
<1>6. CASE ~ BeatsBest(stich, k, i)
  <2>1. TrumpfOrFarbe(rules.decider, stich.cards[i]) = "Trumpf" => TrumpfOrFarbe(rules.decider, stich.cards[k]) = "Trumpf"
    BY <1>1, <1>2, <1>4, <1>6, LessBySuit
  <2>2. TrumpfOrFarbe(rules.decider, stich.cards[k]) =
          IF \E j \in 1 .. i : TrumpfOrFarbe(rules.decider, stich.cards[j]) = "Trumpf"
          THEN "Trumpf" ELSE TrumpfOrFarbe(rules.decider, stich.cards[1])
    BY <1>3, <2>1 DEF BestSoFar
  <2> QED
    BY <1>2, <1>3, <1>4, <1>6, <2>2 DEF BestSoFar
<1> QED
  BY <1>5, <1>6

\* After every card the loop holds the best one: there is no first place where it does not.
LEMMA LoopFindsBest ==
  ASSUME rules.decider \in Deciders, NEW stich, stich.cards \in Seq(AllCards),
         NEW best, IsLoop(stich, Len(stich.cards), best)
  PROVE  \A i \in 1 .. Len(stich.cards) : BestSoFar(rules.decider, stich, best[i], i)
<1> DEFINE Wrong == { i \in 1 .. Len(stich.cards) : ~ BestSoFar(rules.decider, stich, best[i], i) }
<1>1. ASSUME Wrong # {} PROVE FALSE
  <2>1. Wrong \in SUBSET Nat
    OBVIOUS
  <2>2. PICK i \in Wrong : \A k \in Wrong : i <= k
    BY <1>1, <2>1, SmallestOf
  <2>3. i \in 1 .. Len(stich.cards)
    OBVIOUS
  <2>4. best[i] = IF i = 1 \/ BeatsBest(stich, best[i - 1], i) THEN i ELSE best[i - 1]
    BY <2>3 DEF IsLoop
  <2>5. CASE i = 1
    <3>1. stich.cards[1] \in AllCards
      BY <2>3
    <3>2. BestSoFar(rules.decider, stich, 1, 1)
      BY <3>1, LessIsIrreflexive DEF BestSoFar
    <3> QED
      BY <2>4, <2>5, <3>2
  <2>6. CASE i # 1
    <3>1. i \in 2 .. Len(stich.cards) /\ i - 1 \in 1 .. Len(stich.cards)
      BY <2>3, <2>6
    <3>2. i - 1 \notin Wrong
      BY <2>1, <2>2, <3>1
    <3>3. BestSoFar(rules.decider, stich, best[i - 1], i - 1)
      BY <3>1, <3>2
    <3> QED
      BY <2>4, <2>6, <3>1, <3>3, BestIsReplaced
  <2> QED
    BY <2>5, <2>6
<1> QED
  BY <1>1

\* preliminary_winner_index finds the seat whose card is the best one of the Stich.
LEMMA WinnerIsBest ==
  ASSUME rules.decider \in Deciders, NEW stich, stich.cards \in Seq(AllCards), stich.cards # <<>>
  PROVE  \E k \in 1 .. Len(stich.cards) :
           PreliminaryWinner(stich) = SeatAt(stich, k) /\ BestSoFar(rules.decider, stich, k, Len(stich.cards))
<1> DEFINE n == Len(stich.cards)
           best == CHOOSE best : best =
                     [i \in 1 .. n |-> IF i = 1 \/ BeatsBest(stich, best[i - 1], i) THEN i ELSE best[i - 1]]
<1>1. IsLoop(stich, n, best)
  <2>1. \E f : f = [i \in 1 .. n |-> IF i = 1 \/ BeatsBest(stich, f[i - 1], i) THEN i ELSE f[i - 1]]
    <3>1. n \in Nat
      OBVIOUS
    <3>2. PICK f : IsLoop(stich, n, f)
      BY <3>1, LoopExists
    <3>3. f = [i \in 1 .. n |-> IF i = 1 \/ BeatsBest(stich, f[i - 1], i) THEN i ELSE f[i - 1]]
      BY <3>2 DEF IsLoop
    <3> QED
      BY <3>3
  <2>2. best = [i \in 1 .. n |-> IF i = 1 \/ BeatsBest(stich, best[i - 1], i) THEN i ELSE best[i - 1]]
    BY <2>1
  <2> QED
    BY <2>2 DEF IsLoop
<1>2. PreliminaryWinner(stich) = SeatAt(stich, best[n])
  BY DEF PreliminaryWinner
<1>3. n \in 1 .. n
  OBVIOUS
<1> HIDE DEF best
<1>4. BestSoFar(rules.decider, stich, best[n], n)
  BY <1>1, <1>3, LoopFindsBest
<1> QED
  BY <1>2, <1>4 DEF BestSoFar
------------------------------------------------------------------------------
(***************************************************************************)
(* The Stichs and the sizes of the hands.                                  *)
(***************************************************************************)
Stiche == [epi_first : Seats, cards : Seq(Deck)]

\* all Stichs but the current one are full (SStichSequence::assert_invariant)
StichsInOrder ==
  /\ rules \in GameRules
  /\ ahand \in [Seats -> SUBSET Deck]
  /\ vecstich \in Seq(Stiche) /\ vecstich # <<>>
  /\ vecstich[1].epi_first = 0
  /\ \A i \in 1 .. Len(vecstich) - 1 : Len(vecstich[i].cards) = N
  /\ Len(CurrentStich.cards) < N
  /\ Len(vecstich) <= CardsPerPlayer + 1
  /\ GameFinished => CurrentStich.cards = <<>>

\* each Stich is led by the seat that won the one before it
WinnersLead ==
  \A i \in 1 .. Len(vecstich) - 1 : \E k \in 1 .. N :
    vecstich[i + 1].epi_first = SeatAt(vecstich[i], k) /\ BestSoFar(rules.decider, vecstich[i], k, N)

\* epi has a card in the current Stich
HasPlayed(epi) == \E i \in 1 .. Len(CurrentStich.cards) : SeatAt(CurrentStich, i) = epi

\* every Stich costs every seat a card, the current one only those that have played
HandSizes ==
  \A epi \in Seats :
    Cardinality(ahand[epi]) = CardsPerPlayer - (Len(vecstich) - 1) - (IF HasPlayed(epi) THEN 1 ELSE 0)

\* What the proofs need of the constants.
LEMMA Constants ==
  /\ N \in Nat /\ N > 1
  /\ CardsPerPlayer \in Nat /\ CardsPerPlayer > 0
  /\ IsFiniteSet(Deck) /\ Deck \subseteq AllCards
  /\ \A r \in GameRules : r.decider \in Deciders
<1>1. N \in Nat /\ N > 1 /\ IsFiniteSet(Deck) /\ Deck \subseteq AllCards
  BY CardPlayAssumption
<1>2. Cardinality(Deck) \in Nat
  BY <1>1, FS_CardinalityType
<1>3. CardsPerPlayer \in Nat
  BY <1>1, <1>2 DEF CardsPerPlayer
<1>4. CardsPerPlayer > 0
  BY CardPlayAssumption
<1>5. \A r \in GameRules : r.decider \in Deciders
  BY CardPlayAssumption
<1> QED
  BY <1>1, <1>3, <1>4, <1>5

\* Going around the table once, forwards and backwards.
LEMMA ModuloOfRound ==
  ASSUME NEW a \in Seats, NEW k \in Seats
  PROVE  /\ (a + k) % N = IF a + k < N THEN a + k ELSE a + k - N
         /\ (a - k) % N = IF a >= k THEN a - k ELSE a - k + N
<1>1. N \in Nat /\ N > 1 /\ a \in 0 .. N - 1 /\ k \in 0 .. N - 1
  BY Constants DEF Seats
<1>2. (a + k) % N = IF a + k < N THEN a + k ELSE a + k - N
  BY <1>1
<1>3. (a - k) % N = IF a >= k THEN a - k ELSE a - k + N
  BY <1>1
<1> QED
  BY <1>2, <1>3

\* The cards of a Stich are those of different seats, and every seat has its place.
LEMMA SeatsOfStich ==
  ASSUME NEW stich \in Stiche
  PROVE  /\ \A i \in 1 .. N : SeatAt(stich, i) \in Seats
         /\ \A i, j \in 1 .. N : SeatAt(stich, i) = SeatAt(stich, j) => i = j
         /\ \A epi \in Seats : /\ ((epi - stich.epi_first) % N) + 1 \in 1 .. N
                               /\ SeatAt(stich, ((epi - stich.epi_first) % N) + 1) = epi
<1> DEFINE first == stich.epi_first
<1>1. first \in Seats
  BY DEF Stiche
<1>2. \A i \in 1 .. N : i - 1 \in Seats /\ first + i - 1 = first + (i - 1)
  BY <1>1, Constants DEF Seats
<1>3. \A i \in 1 .. N : SeatAt(stich, i) = (first + (i - 1)) % N
  BY <1>2 DEF SeatAt
<1>4. \A i \in 1 .. N : SeatAt(stich, i) = IF first + i - 1 < N THEN first + i - 1 ELSE first + i - 1 - N
  BY <1>1, <1>2, <1>3, ModuloOfRound
<1>5. \A i \in 1 .. N : SeatAt(stich, i) \in Seats
  BY <1>1, <1>4, Constants DEF Seats
<1>6. \A i, j \in 1 .. N : SeatAt(stich, i) = SeatAt(stich, j) => i = j
  BY <1>1, <1>4, Constants DEF Seats
<1>7. ASSUME NEW epi \in Seats
      PROVE  /\ ((epi - first) % N) + 1 \in 1 .. N
             /\ SeatAt(stich, ((epi - first) % N) + 1) = epi
  <2>1. (epi - first) % N = IF epi >= first THEN epi - first ELSE epi - first + N
    BY <1>1, ModuloOfRound
  <2>2. ((epi - first) % N) + 1 \in 1 .. N
    BY <1>1, <2>1, Constants DEF Seats
  <2> QED
    BY <1>1, <1>4, <2>1, <2>2, Constants DEF Seats
<1> QED
  BY <1>5, <1>6, <1>7

\* Every rule allows cards of the hand only.
LEMMA AllowedIsOnHand ==
  ASSUME NEW epi
  PROVE  AllAllowedCards(epi) \subseteq ahand[epi]
BY DEF AllAllowedCards, RufspielFirst, RufspielWithin, Stichzwang, Following

\* The completed Stichs are all but the last one.
LEMMA CompletedAreFirst ==
  ASSUME StichsInOrder
  PROVE  /\ CompletedStichs \in Seq(Stiche)
         /\ Len(CompletedStichs) = Len(vecstich) - 1
         /\ \A i \in 1 .. Len(vecstich) - 1 : CompletedStichs[i] = vecstich[i]
<1> DEFINE m == Len(vecstich)
<1>1. m \in Nat /\ m > 0
  BY DEF StichsInOrder
<1>2. \A i \in 1 .. m - 1 : vecstich[i] \in Stiche
  BY <1>1 DEF StichsInOrder
<1>3. /\ SubSeq(vecstich, 1, m - 1) \in Seq(Stiche)
      /\ Len(SubSeq(vecstich, 1, m - 1)) = IF 1 <= m - 1 THEN m - 1 - 1 + 1 ELSE 0
      /\ \A i \in 1 .. m - 1 - 1 + 1 : SubSeq(vecstich, 1, m - 1)[i] = vecstich[1 + i - 1]
  BY <1>2, <1>1, SubSeqProperties
<1>4. CompletedStichs = SubSeq(vecstich, 1, m - 1)
  BY DEF CompletedStichs
<1>5. CompletedStichs \in Seq(Stiche)
  BY <1>3, <1>4
<1>6. Len(CompletedStichs) = m - 1
  <2>1. Len(CompletedStichs) = IF 1 <= m - 1 THEN m - 1 - 1 + 1 ELSE 0
    BY <1>3, <1>4
  <2> HIDE DEF m
  <2> QED
    BY <1>1, <2>1
<1>7. ASSUME NEW i \in 1 .. m - 1
      PROVE  CompletedStichs[i] = vecstich[i]
  <2>1. i \in 1 .. m - 1 - 1 + 1 /\ 1 + i - 1 = i
    BY <1>2
  <2> QED
    BY <1>3, <1>4, <2>1
<1> QED
  BY <1>7, <1>5, <1>6

\* the current Stich with one card more
StichWith(card) == [CurrentStich EXCEPT !.cards = Append(@, card)]

\* The Stichs after a card: the current one has it, and if it is full another one begins.
LEMMA StichsAfterCard ==
  ASSUME StichsInOrder, NEW card \in Deck
  PROVE  LET m == Len(vecstich)
             stich == StichWith(card)
         IN  /\ stich \in Stiche
             /\ stich.epi_first = CurrentStich.epi_first
             /\ stich.cards = Append(CurrentStich.cards, card)
             /\ Len(stich.cards) = Len(CurrentStich.cards) + 1
             /\ StichsAfter(card)[m] = stich
             /\ \A i \in 1 .. m - 1 : StichsAfter(card)[i] = vecstich[i]
             /\ Len(stich.cards) < N => /\ Len(StichsAfter(card)) = m
                                       /\ StichsAfter(card) \in Seq(Stiche)
             /\ Len(stich.cards) = N =>
                  /\ Len(StichsAfter(card)) = m + 1
                  /\ StichsAfter(card)[m + 1] = Stich(PreliminaryWinner(stich), <<>>)
                  /\ StichsAfter(card) \in Seq(Stiche)
                  /\ \E k \in 1 .. N : PreliminaryWinner(stich) = SeatAt(stich, k) /\ BestSoFar(rules.decider, stich, k, N)
<1> DEFINE m == Len(vecstich)
           stich == StichWith(card)
<1>1. m \in Nat /\ m > 0 /\ CurrentStich \in Stiche /\ CurrentStich = vecstich[m]
  BY DEF StichsInOrder, CurrentStich
<1>2. /\ stich \in Stiche
      /\ stich.epi_first = CurrentStich.epi_first
      /\ stich.cards = Append(CurrentStich.cards, card)
      /\ Len(stich.cards) = Len(CurrentStich.cards) + 1
  <2>1. CurrentStich \in [epi_first : Seats, cards : Seq(Deck)]
    BY <1>1 DEF Stiche
  <2>2. /\ Append(CurrentStich.cards, card) \in Seq(Deck)
        /\ Len(Append(CurrentStich.cards, card)) = Len(CurrentStich.cards) + 1
    BY <2>1
  <2>3. /\ stich.epi_first = CurrentStich.epi_first
        /\ stich.cards = Append(CurrentStich.cards, card)
    BY <2>1 DEF StichWith
  <2>4. stich \in [epi_first : Seats, cards : Seq(Deck)]
    BY <2>1, <2>2 DEF StichWith
  <2> QED
    BY <2>2, <2>3, <2>4 DEF Stiche
<1>3. /\ CompletedStichs \in Seq(Stiche)
      /\ Len(CompletedStichs) = m - 1
      /\ \A i \in 1 .. m - 1 : CompletedStichs[i] = vecstich[i]
  BY CompletedAreFirst
<1> DEFINE upto == Append(CompletedStichs, stich)
<1>4. /\ upto \in Seq(Stiche) /\ Len(upto) = m /\ upto[m] = stich
      /\ \A i \in 1 .. m - 1 : upto[i] = vecstich[i]
  BY <1>1, <1>2, <1>3
<1>5. StichsAfter(card) = upto \o (IF IsFull(stich) THEN <<Stich(PreliminaryWinner(stich), <<>>)>> ELSE <<>>)
  BY DEF StichsAfter, StichWith
<1> HIDE DEF upto
<1>6. CASE Len(stich.cards) = N
  <2>1. stich.cards \in Seq(AllCards) /\ stich.cards # <<>> /\ rules.decider \in Deciders
    <3>1. stich.cards \in Seq(Deck) /\ Deck \subseteq AllCards
      BY <1>2, Constants DEF Stiche
    <3>2. stich.cards \in Seq(AllCards)
      BY <3>1, SeqMonotonic
    <3> QED
      BY <1>6, <3>1, <3>2, Constants DEF StichsInOrder
  <2>2. PICK k \in 1 .. N : PreliminaryWinner(stich) = SeatAt(stich, k) /\ BestSoFar(rules.decider, stich, k, N)
    BY <1>6, <2>1, WinnerIsBest
  <2>3. PreliminaryWinner(stich) \in Seats
    BY <1>2, <2>2, SeatsOfStich
  <2>4. Stich(PreliminaryWinner(stich), <<>>) \in Stiche
    BY <2>3 DEF Stich, Stiche
  <2>5. StichsAfter(card) = upto \o <<Stich(PreliminaryWinner(stich), <<>>)>>
    BY <1>5, <1>6 DEF IsFull
  <2>6. /\ StichsAfter(card) \in Seq(Stiche)
        /\ Len(StichsAfter(card)) = m + 1
        /\ StichsAfter(card)[m + 1] = Stich(PreliminaryWinner(stich), <<>>)
        /\ \A i \in 1 .. m : StichsAfter(card)[i] = upto[i]
    <3> DEFINE next == Stich(PreliminaryWinner(stich), <<>>)
    <3> HIDE DEF next, m, stich
    <3> QED
      BY <1>1, <1>4, <2>4, <2>5 DEF next
  <2>7. StichsAfter(card)[m] = stich /\ \A i \in 1 .. m - 1 : StichsAfter(card)[i] = vecstich[i]
    BY <1>1, <1>4, <2>6
  <2> QED
    BY <1>2, <1>6, <2>2, <2>6, <2>7, Constants
<1>7. CASE Len(stich.cards) # N
  <2>1. StichsAfter(card) = upto
    BY <1>4, <1>5, <1>7 DEF IsFull
  <2> QED
    BY <1>1, <1>2, <1>4, <1>7, <2>1
<1> QED
  BY <1>6, <1>7

\* What Zugeben does, in terms of the Stichs.
LEMMA ZugebenStep ==
  ASSUME StichsInOrder, NEW epi \in Seats, NEW card, Zugeben(epi, card)
  PROVE  /\ card \in ahand[epi] /\ card \in Deck
         /\ epi = SeatAt(CurrentStich, Len(CurrentStich.cards) + 1)
         /\ ~ HasPlayed(epi)
         /\ Len(vecstich) <= CardsPerPlayer
         /\ CurrentStich \in Stiche /\ CurrentStich = vecstich[Len(vecstich)]
<1>1. /\ ~ GameFinished /\ epi = Current /\ card \in AllAllowedCards(epi)
  BY DEF Zugeben
<1>2. card \in ahand[epi] /\ card \in Deck
  BY <1>1, AllowedIsOnHand DEF StichsInOrder
<1>3. epi = SeatAt(CurrentStich, Len(CurrentStich.cards) + 1)
  BY <1>1 DEF Current
<1>4. CurrentStich \in Stiche /\ CurrentStich = vecstich[Len(vecstich)]
  BY DEF StichsInOrder, CurrentStich
<1>5. Len(CurrentStich.cards) \in Nat /\ Len(CurrentStich.cards) + 1 \in 1 .. N
  BY <1>4, Constants DEF Stiche, StichsInOrder
<1>6. ~ HasPlayed(epi)
  BY <1>3, <1>4, <1>5, Constants, SeatsOfStich DEF HasPlayed
<1>7. Len(vecstich) <= CardsPerPlayer
  BY <1>1, CompletedAreFirst, Constants DEF GameFinished, StichsInOrder
<1> QED
  BY <1>2, <1>3, <1>4, <1>6, <1>7

\* A card keeps the Stichs in order, and the winner of a full Stich leads the next one.
LEMMA ZugebenKeepsOrder ==
  ASSUME StichsInOrder, NEW epi \in Seats, NEW card, Zugeben(epi, card)
  PROVE  StichsInOrder' /\ (WinnersLead => WinnersLead')
<1> DEFINE m == Len(vecstich)
<1>1. /\ card \in Deck /\ m <= CardsPerPlayer /\ m \in Nat /\ m > 0
      /\ CurrentStich \in Stiche
  BY ZugebenStep DEF StichsInOrder
<1>2. /\ rules' = rules /\ vecstich' = StichsAfter(card)
      /\ ahand' = [ahand EXCEPT ![epi] = @ \ {card}]
  BY DEF Zugeben
<1>3. rules' \in GameRules /\ ahand' \in [Seats -> SUBSET Deck]
  BY <1>2 DEF StichsInOrder
<1>4. /\ vecstich'[m] = StichWith(card)
      /\ StichWith(card) \in Stiche
      /\ StichWith(card).epi_first = CurrentStich.epi_first
      /\ Len(StichWith(card).cards) = Len(CurrentStich.cards) + 1
      /\ \A i \in 1 .. m - 1 : vecstich'[i] = vecstich[i]
  BY <1>1, <1>2, StichsAfterCard
<1>5. vecstich'[1].epi_first = 0
  BY <1>1, <1>4 DEF StichsInOrder, CurrentStich
<1>6. CurrentStich' = vecstich'[Len(vecstich')] /\ Len(CurrentStich.cards) \in Nat
  BY <1>1 DEF CurrentStich, Stiche
<1>7. /\ \A i \in 1 .. m : vecstich'[i].epi_first = vecstich[i].epi_first
      /\ \A i \in 1 .. m - 1 : i \in 1 .. m /\ i + 1 \in 1 .. m
  BY <1>1, <1>4 DEF CurrentStich
<1>8. CASE Len(StichWith(card).cards) < N
  <2>1. Len(vecstich') = m /\ vecstich' \in Seq(Stiche)
    BY <1>1, <1>2, <1>8, StichsAfterCard
  <2>2. StichsInOrder'
    <3>1. \A i \in 1 .. Len(vecstich') - 1 : Len(vecstich'[i].cards) = N
      BY <1>4, <2>1 DEF StichsInOrder
    <3>2. ~ GameFinished'
      <4>1. vecstich' # <<>>
        BY <1>1, <2>1
      <4>2. Len(CompletedStichs)' = m - 1
        <5>1. \A i \in 1 .. m - 1 : vecstich'[i] \in Stiche
          BY <1>1, <2>1
        <5> QED
          BY <1>1, <2>1, <5>1, SubSeqProperties DEF CompletedStichs
      <4> QED
        BY <1>1, <4>2, Constants DEF GameFinished, CardsPerPlayer
    <3> QED
      BY <1>1, <1>3, <1>4, <1>5, <1>6, <1>8, <2>1, <3>1, <3>2, Constants DEF StichsInOrder, CardsPerPlayer
  <2>3. WinnersLead => WinnersLead'
    <3> SUFFICES ASSUME WinnersLead, NEW i \in 1 .. m - 1
                 PROVE  \E k \in 1 .. N : /\ vecstich'[i + 1].epi_first = SeatAt(vecstich'[i], k)
                                           /\ BestSoFar(rules'.decider, vecstich'[i], k, N)
      BY <2>1 DEF WinnersLead
    <3> QED
      BY <1>2, <1>4, <1>7 DEF WinnersLead
  <2> QED
    BY <2>2, <2>3
<1>9. CASE Len(StichWith(card).cards) = N
  <2>1. /\ Len(vecstich') = m + 1 /\ vecstich' \in Seq(Stiche)
        /\ vecstich'[m + 1] = Stich(PreliminaryWinner(StichWith(card)), <<>>)
    BY <1>1, <1>2, <1>9, StichsAfterCard
  <2>2. CurrentStich'.cards = <<>>
    BY <1>6, <2>1 DEF Stich
  <2>3. StichsInOrder'
    <3>1. \A i \in 1 .. Len(vecstich') - 1 : Len(vecstich'[i].cards) = N
      BY <1>1, <1>4, <1>9, <2>1 DEF StichsInOrder
    <3> QED
      BY <1>1, <1>3, <1>5, <2>1, <2>2, <3>1, Constants DEF StichsInOrder, CardsPerPlayer
  <2>4. \E k \in 1 .. N : /\ PreliminaryWinner(StichWith(card)) = SeatAt(StichWith(card), k)
                          /\ BestSoFar(rules.decider, StichWith(card), k, N)
    BY <1>1, <1>9, StichsAfterCard
  <2>5. WinnersLead => WinnersLead'
    <3> SUFFICES ASSUME WinnersLead, NEW i \in 1 .. m
                 PROVE  \E k \in 1 .. N : /\ vecstich'[i + 1].epi_first = SeatAt(vecstich'[i], k)
                                           /\ BestSoFar(rules'.decider, vecstich'[i], k, N)
      BY <1>1, <2>1 DEF WinnersLead
    <3>1. CASE i = m
      BY <1>2, <1>4, <2>1, <2>4, <3>1 DEF Stich
    <3>2. CASE i # m
      <4>1. i \in 1 .. m - 1
        BY <1>1, <3>2
      <4> QED
        BY <1>2, <1>4, <1>7, <4>1 DEF WinnersLead
    <3> QED
      BY <3>1, <3>2
  <2> QED
    BY <2>3, <2>5
<1> QED
  BY <1>4, <1>6, <1>8, <1>9, Constants DEF StichsInOrder

\* A card is one card less in the hand of the seat that plays it.
LEMMA ZugebenKeepsSizes ==
  ASSUME StichsInOrder, HandSizes, NEW epi \in Seats, NEW card, Zugeben(epi, card)
  PROVE  HandSizes'
<1> DEFINE m == Len(vecstich)
           n == Len(CurrentStich.cards)
<1>1. /\ card \in ahand[epi] /\ card \in Deck /\ m \in Nat /\ m > 0
      /\ CurrentStich \in Stiche /\ n \in Nat /\ n < N
      /\ epi = SeatAt(CurrentStich, n + 1) /\ ~ HasPlayed(epi)
  BY ZugebenStep DEF StichsInOrder, Stiche
<1>2. /\ vecstich' = StichsAfter(card) /\ ahand' = [ahand EXCEPT ![epi] = @ \ {card}]
      /\ ahand \in [Seats -> SUBSET Deck]
  BY DEF Zugeben, StichsInOrder
<1>3. /\ vecstich'[m] = StichWith(card)
      /\ StichWith(card) \in Stiche
      /\ StichWith(card).epi_first = CurrentStich.epi_first
      /\ Len(StichWith(card).cards) = n + 1
  BY <1>1, <1>2, StichsAfterCard
<1>4. CurrentStich' = vecstich'[Len(vecstich')]
  BY DEF CurrentStich
<1>5. \A e \in Seats : /\ Cardinality(ahand[e]) \in Nat
                       /\ Cardinality(ahand'[e]) = Cardinality(ahand[e]) - (IF e = epi THEN 1 ELSE 0)
  <2> SUFFICES ASSUME NEW e \in Seats
               PROVE  /\ Cardinality(ahand[e]) \in Nat
                      /\ Cardinality(ahand'[e]) = Cardinality(ahand[e]) - (IF e = epi THEN 1 ELSE 0)
    OBVIOUS
  <2>1. ahand[e] \in SUBSET Deck
    BY <1>2
  <2>2. IsFiniteSet(ahand[e])
    BY <2>1, Constants, FS_Subset
  <2>3. Cardinality(ahand[e]) \in Nat
    BY <2>2, FS_CardinalityType
  <2>4. CASE e = epi
    <3>1. ahand'[e] = ahand[e] \ {card}
      BY <1>2, <2>4
    <3> QED
      <4>1. Cardinality(ahand[e] \ {card}) = Cardinality(ahand[e]) - 1
        BY <1>1, <2>2, <2>4, FS_RemoveElement
      <4> QED
        BY <2>3, <2>4, <3>1, <4>1
  <2>5. CASE e # epi
    BY <1>2, <2>3, <2>5
  <2> QED
    BY <2>3, <2>4, <2>5
<1>6. \A i \in 1 .. N : SeatAt(StichWith(card), i) = SeatAt(CurrentStich, i)
  BY <1>3 DEF SeatAt
<1>7. CASE n + 1 < N
  <2>1. Len(vecstich') = m
    BY <1>1, <1>2, <1>3, <1>7, StichsAfterCard
  <2>2. CurrentStich' = StichWith(card)
    BY <1>3, <1>4, <2>1
  <2>3. \A e \in Seats : HasPlayed(e)' <=> HasPlayed(e) \/ e = epi
    BY <1>1, <1>3, <1>6, <2>2, Constants, SMTT(60) DEF HasPlayed
  <2> QED
    BY <1>1, <1>5, <2>1, <2>3, Constants DEF HandSizes, CardsPerPlayer
<1>8. CASE n + 1 = N
  <2>1. /\ Len(vecstich') = m + 1
        /\ vecstich'[m + 1] = Stich(PreliminaryWinner(StichWith(card)), <<>>)
    BY <1>1, <1>2, <1>3, <1>8, StichsAfterCard
  <2>2. CurrentStich'.cards = <<>>
    BY <1>4, <2>1 DEF Stich
  <2>3. \A e \in Seats : ~ HasPlayed(e)'
    BY <2>2 DEF HasPlayed
  <2>4. ASSUME NEW e \in Seats, e # epi
        PROVE  HasPlayed(e)
    <3>1. PICK i \in 1 .. N : SeatAt(CurrentStich, i) = e
      BY <1>1, SeatsOfStich
    <3>2. i \in 1 .. n
      BY <1>1, <1>8, <2>4, <3>1, Constants
    <3> QED
      BY <3>1, <3>2 DEF HasPlayed
  <2>5. ASSUME NEW e \in Seats
        PROVE  Cardinality(ahand'[e]) = CardsPerPlayer - m
    <3>1. CASE e = epi
      <4>1. Cardinality(ahand[e]) = CardsPerPlayer - m + 1
        BY <1>1, <3>1, Constants DEF HandSizes
      <4> QED
        BY <1>1, <1>5, <3>1, <4>1, Constants
    <3>2. CASE e # epi
      <4>1. Cardinality(ahand[e]) = CardsPerPlayer - m
        BY <1>1, <2>4, <3>2, Constants DEF HandSizes
      <4> QED
        BY <1>5, <3>2, <4>1, Constants
    <3> QED
      BY <3>1, <3>2
  <2> QED
    BY <1>1, <2>1, <2>3, <2>5, Constants DEF HandSizes, CardsPerPlayer
<1> QED
  BY <1>1, <1>7, <1>8, Constants

\* the stakes are doubled by seats of the table, up to the maximum
StossOK == vecstoss \in Seq(Seats) /\ Len(vecstoss) <= MaxStoss

(***************************************************************************)
(* The invariant.                                                          *)
(***************************************************************************)
IInv == StichsInOrder /\ WinnersLead /\ HandSizes /\ StossOK

\* The invariant holds before the first card.
LEMMA InitIInv == Init => IInv
<1> SUFFICES ASSUME Init PROVE IInv
  OBVIOUS
<1>1. vecstich = <<Stich(0, <<>>)>> /\ vecstoss = <<>> /\ rules \in GameRules
  BY DEF Init
<1>2. /\ ahand \in [Seats -> SUBSET Deck]
      /\ \A epi \in Seats : Cardinality(ahand[epi]) = CardsPerPlayer
  BY CardPlayAssumption DEF Init
<1>3. Len(vecstich) = 1 /\ CurrentStich = Stich(0, <<>>) /\ vecstich[1] = Stich(0, <<>>)
  BY <1>1 DEF CurrentStich
<1>4. Stich(0, <<>>) \in Stiche /\ Stich(0, <<>>).cards = <<>> /\ Stich(0, <<>>).epi_first = 0
  BY Constants DEF Stich, Stiche, Seats
<1>5. vecstich \in Seq(Stiche)
  BY <1>1, <1>4
<1>6. StichsInOrder
  BY <1>1, <1>2, <1>3, <1>4, <1>5, Constants DEF StichsInOrder
<1>7. WinnersLead
  BY <1>3 DEF WinnersLead
<1>8. \A epi \in Seats : ~ HasPlayed(epi)
  BY <1>3, <1>4 DEF HasPlayed
<1>9. HandSizes
  BY <1>2, <1>3, <1>8, Constants DEF HandSizes
<1>10. StossOK
  <2>1. MaxStoss \in Nat
    BY CardPlayAssumption
  <2> QED
    BY <1>1, <2>1 DEF StossOK
<1> QED
  BY <1>6, <1>7, <1>9, <1>10 DEF IInv

\* Doubling the stakes touches neither hands nor Stichs.
LEMMA StossKeepsIInv ==
  ASSUME IInv, NEW epi \in Seats, DoStoss(epi)
  PROVE  IInv'
<1>1. UNCHANGED <<rules, ahand, vecstich>> /\ vecstoss' = Append(vecstoss, epi) /\ Len(vecstoss) < MaxStoss
  BY DEF DoStoss, MayStoss
<1>2. StossOK'
  <2>1. MaxStoss \in Nat
    BY CardPlayAssumption
  <2> QED
    BY <1>1, <2>1 DEF IInv, StossOK
<1>3. StichsInOrder'
  BY <1>1 DEF IInv, StichsInOrder, CurrentStich, GameFinished, CompletedStichs, CardsPerPlayer
<1>4. WinnersLead'
  BY <1>1 DEF IInv, WinnersLead
<1>5. HandSizes'
  BY <1>1 DEF IInv, HandSizes, HasPlayed, CurrentStich, CardsPerPlayer
<1> QED
  BY <1>2, <1>3, <1>4, <1>5 DEF IInv

\* Every step keeps the invariant.
LEMMA NextIInv == IInv /\ [Next]_vars => IInv'
<1> SUFFICES ASSUME IInv, [Next]_vars
             PROVE  IInv'
  OBVIOUS
<1>1. ASSUME NEW epi \in Seats, DoStoss(epi)
      PROVE  IInv'
  BY <1>1, StossKeepsIInv
<1>2. ASSUME NEW epi \in Seats, NEW card \in ahand[epi], Zugeben(epi, card)
      PROVE  IInv'
  <2>1. StichsInOrder' /\ WinnersLead'
    BY <1>2, ZugebenKeepsOrder DEF IInv
  <2>2. HandSizes'
    BY <1>2, ZugebenKeepsSizes DEF IInv
  <2>3. StossOK'
    BY <1>2 DEF IInv, StossOK, Zugeben
  <2> QED
    BY <2>1, <2>2, <2>3 DEF IInv
<1>3. CASE UNCHANGED vars
  BY <1>3 DEF vars, IInv, StossOK, StichsInOrder, WinnersLead, HandSizes, HasPlayed, CurrentStich,
    GameFinished, CompletedStichs, CardsPerPlayer
<1> QED
  BY <1>1, <1>2, <1>3 DEF Next, Finished

\* The Stichs are in order, their winners lead, and the hands have the sizes they must have.
THEOREM Inductive == Spec => []IInv
  BY InitIInv, NextIInv, PTL DEF Spec

------------------------------------------------------------------------------
\* Whoever has to play has a card.
LEMMA HandNonempty ==
  ASSUME IInv, ~ GameFinished
  PROVE  Current \in Seats /\ ahand[Current] # {} /\ IsFiniteSet(ahand[Current])
<1>1. CurrentStich \in Stiche /\ Len(CurrentStich.cards) \in Nat /\ Len(CurrentStich.cards) < N
  <2>1. vecstich \in Seq(Stiche) /\ Len(vecstich) \in Nat /\ Len(vecstich) > 0
    BY DEF IInv, StichsInOrder
  <2>2. CurrentStich \in Stiche
    BY <2>1 DEF CurrentStich
  <2>3. Len(CurrentStich.cards) \in Nat
    BY <2>2 DEF Stiche
  <2> QED
    BY <2>2, <2>3 DEF IInv, StichsInOrder
<1>2. Len(CurrentStich.cards) + 1 \in 1 .. N
  BY <1>1, Constants
<1>3. Current \in Seats /\ ~ HasPlayed(Current)
  BY <1>1, <1>2, Constants, SeatsOfStich DEF Current, HasPlayed
<1>4. Len(vecstich) \in Nat /\ Len(vecstich) <= CardsPerPlayer
  BY CompletedAreFirst, Constants DEF IInv, GameFinished, StichsInOrder
<1>5. Cardinality(ahand[Current]) > 0
  BY <1>3, <1>4, Constants DEF IInv, HandSizes
<1>6. ahand[Current] # {}
  BY <1>5, FS_EmptySet
<1>7. ahand[Current] \in SUBSET Deck
  BY <1>3 DEF IInv, StichsInOrder
<1> QED
  BY <1>3, <1>6, <1>7, Constants, FS_Subset

\* The rules allow one of the cards of a hand, whatever was led and whoever has run away.
LEMMA SomeCardIsAllowed ==
  ASSUME NEW epi, ahand[epi] # {}, IsFiniteSet(ahand[epi])
  PROVE  AllAllowedCards(epi) # {}
<1> DEFINE hand == ahand[epi]
<1>1. RufspielFirst(hand) # {}
  BY DEF RufspielFirst
<1>2. RufspielWithin(epi, hand) # {}
  <2>1. hand \ {Rufsau} = {} => hand = {Rufsau}
    OBVIOUS
  <2>2. hand = {Rufsau} => Cardinality(hand) = 1
    BY FS_Singleton
  <2>3. Cardinality(hand) \in Nat
    BY FS_CardinalityType
  <2>4. Cardinality(hand) <= 1 \/ hand \ {Rufsau} # {}
    BY <2>1, <2>2, <2>3
  <2> QED
    BY <2>4 DEF RufspielWithin
<1>3. Following(hand) # {}
  BY DEF Following
<1>4. Stichzwang(hand) # {}
  BY <1>3 DEF Stichzwang
<1> QED
  BY <1>1, <1>2, <1>3, <1>4 DEF AllAllowedCards

\* all_allowed_cards never comes back empty, which it asserts: nobody is ever stuck.
THEOREM SomethingIsAlwaysAllowed == Spec => []AllowedNonempty
<1>1. IInv => AllowedNonempty
  BY HandNonempty, SomeCardIsAllowed DEF AllowedNonempty
<1> QED
  BY <1>1, Inductive, PTL

\* preliminary_winner_index gives each Stich to the seat whose card nothing in it beats,
\* for every order of cards a game is played with.
THEOREM HighestAlwaysWins == Spec => []StichGoesToHighest
<1>1. ASSUME IInv PROVE StichGoesToHighest
  <2> SUFFICES ASSUME NEW i \in 1 .. Len(CompletedStichs)
               PROVE  LET cards == CompletedStichs[i].cards
                          best == CardOf(CompletedStichs[i], vecstich[i + 1].epi_first)
                      IN  /\ \A j \in 1 .. N : ~ Less(rules.decider, best, cards[j])
                          /\ Suit(best) = IF \E j \in 1 .. N : Suit(cards[j]) = "Trumpf"
                                          THEN "Trumpf" ELSE Suit(cards[1])
    BY DEF StichGoesToHighest
  <2>1. /\ i \in 1 .. Len(vecstich) - 1 /\ CompletedStichs[i] = vecstich[i] /\ vecstich[i] \in Stiche
    BY <1>1, CompletedAreFirst DEF IInv, StichsInOrder
  <2>2. PICK k \in 1 .. N : /\ vecstich[i + 1].epi_first = SeatAt(vecstich[i], k)
                           /\ BestSoFar(rules.decider, vecstich[i], k, N)
    BY <1>1, <2>1 DEF IInv, WinnersLead
  <2>3. CardOf(vecstich[i], SeatAt(vecstich[i], k)) = vecstich[i].cards[k]
    BY <2>1, SeatsOfStich DEF CardOf
  <2> QED
    BY <2>1, <2>2, <2>3 DEF BestSoFar, Suit
<1> QED
  BY <1>1, Inductive, PTL
------------------------------------------------------------------------------
(***************************************************************************)
(* What the Stichs say of the hands.  The invariants are stated of hands   *)
(* and Stichs given as parameters, and with the place of a card in a Stich *)
(* instead of the seat: CardPlay goes from seat to place by a remainder,   *)
(* which only the last steps need.                                         *)
(***************************************************************************)
\* card is not of the suit that was led, unless it is the Rufsau
Excused(r, led, card) ==
  TrumpfOrFarbe(r.decider, card) = TrumpfOrFarbe(r.decider, led) =>
    r.kind = "Rufspiel" /\ card = Card(r.farbe, "Ass")

\* who played cards[j] of Stich i without following suit has nothing of it later
Followed(r, hands, stichs) ==
  \A i \in 1 .. Len(stichs) : \A j \in 1 .. Len(stichs[i].cards) :
    LET led == stichs[i].cards[1]
        epi == SeatAt(stichs[i], j)
    IN  TrumpfOrFarbe(r.decider, stichs[i].cards[j]) # TrumpfOrFarbe(r.decider, led) =>
          /\ \A card \in hands[epi] : Excused(r, led, card)
          /\ \A k \in i + 1 .. Len(stichs) : \A l \in 1 .. Len(stichs[k].cards) :
               SeatAt(stichs[k], l) = epi => Excused(r, led, stichs[k].cards[l])

\* the Rufsau falls when its Farbe is led or was led before, or it is the last card
Kept(r, stichs) ==
  r.kind = "Rufspiel" =>
    \A i \in 1 .. Len(stichs) : \A j \in 1 .. Len(stichs[i].cards) :
      stichs[i].cards[j] = Card(r.farbe, "Ass") =>
        \/ i = CardsPerPlayer
        \/ \E k \in 1 .. i : /\ Len(stichs[k].cards) > 0
                             /\ TrumpfOrFarbe(r.decider, stichs[k].cards[1]) = r.farbe

FInv == IInv /\ Followed(rules, ahand, vecstich) /\ Kept(rules, vecstich)

------------------------------------------------------------------------------
(***************************************************************************)
(* What a rule allows says of the hand.                                    *)
(***************************************************************************)
\* The Rufsau is not Trumpf but a card of its Farbe, and of no other suit.
LEMMA RufsauIsOfItsFarbe ==
  ASSUME NEW r \in GameRules, r.kind = "Rufspiel"
  PROVE  TrumpfOrFarbe(r.decider, Card(r.farbe, "Ass")) = r.farbe
<1>1. r.farbe # r.decider.farbe /\ r.decider \in Deciders
  BY CardPlayAssumption, Constants
<1>2. \A i \in 1 .. Len(r.decider.schlaege) : r.decider.schlaege[i] # "Ass"
  BY <1>1, SchlaegeOfDecider
<1>3. "Ass" \notin Elements(r.decider.schlaege)
  BY <1>2 DEF Elements
<1> QED
  BY <1>1, <1>3 DEF TrumpfOrFarbe, Card

\* Who is allowed a card of another suit than the one that was led holds none of it.
LEMMA AllowedFollows ==
  ASSUME rules \in GameRules, CurrentStich.cards # <<>>, NEW epi, NEW card,
         card \in AllAllowedCards(epi), IsFiniteSet(ahand[epi]),
         Suit(card) # Suit(First(CurrentStich)), NEW other \in ahand[epi], other # card
  PROVE  Excused(rules, First(CurrentStich), other)
<1> DEFINE hand == ahand[epi]
           led == First(CurrentStich)
<1>1. CASE rules.kind = "Rufspiel"
  <2>1. card \in RufspielWithin(epi, hand)
    BY <1>1 DEF AllAllowedCards
  <2>2. Cardinality(hand) > 1
    <3>1. Cardinality({card, other}) = 2
      <4>1. Cardinality({card}) = 1 /\ IsFiniteSet({card})
        BY FS_Singleton
      <4>2. {card} \cup {other} = {card, other} /\ other \notin {card}
        OBVIOUS
      <4>3. Cardinality({card} \cup {other}) = Cardinality({card}) + 1
        BY <4>1, <4>2, FS_AddElement
      <4> QED
        BY <4>1, <4>2, <4>3
    <3>2. card \in hand
      BY AllowedIsOnHand
    <3>3. Cardinality({card, other}) <= Cardinality(hand)
      BY <3>2, FS_Subset
    <3> QED
      BY <3>1, <3>3, FS_CardinalityType
  <2>3. ~ (IsRuffarbe(led) /\ Rufsau \in hand /\ ~ HasRunAway(epi))
    BY <1>1, <2>1, <2>2, RufsauIsOfItsFarbe, FS_CardinalityType DEF RufspielWithin, Suit, IsRuffarbe, Rufsau
  <2>4. { c \in hand \ {Rufsau} : Suit(c) = Suit(led) } = {}
    BY <2>1, <2>2, <2>3, FS_CardinalityType DEF RufspielWithin
  <2> QED
    BY <1>1, <2>4 DEF Excused, Suit, Rufsau
<1>2. CASE rules.kind # "Rufspiel"
  <2>1. card \in Following(hand)
    BY <1>2 DEF AllAllowedCards, Stichzwang
  <2>2. { c \in hand : Suit(c) = Suit(led) } = {}
    BY <2>1 DEF Following
  <2> QED
    BY <2>2 DEF Excused, Suit
<1> QED
  BY <1>1, <1>2

\* The Rufsau is allowed when it leads or is the last card, and otherwise only when its
\* Farbe is led or was led before.
LEMMA AllowedRufsau ==
  ASSUME rules \in GameRules, rules.kind = "Rufspiel", CurrentStich.cards # <<>>,
         NEW epi, IsFiniteSet(ahand[epi]), Rufsau \in AllAllowedCards(epi)
  PROVE  \/ Cardinality(ahand[epi]) <= 1
         \/ IsRuffarbe(First(CurrentStich))
         \/ HasRunAway(epi)
<1>1. Rufsau \in RufspielWithin(epi, ahand[epi])
  BY DEF AllAllowedCards
<1> QED
  BY <1>1, FS_CardinalityType DEF RufspielWithin

------------------------------------------------------------------------------
(***************************************************************************)
(* A card more.                                                            *)
(***************************************************************************)
\* A place in the Stichs after a card was one before, or is that of the card.
LEMMA PlacesAfterCard ==
  ASSUME StichsInOrder, NEW epi \in Seats, NEW card, Zugeben(epi, card),
         NEW i \in 1 .. Len(vecstich'), NEW j \in 1 .. Len(vecstich'[i].cards)
  PROVE  /\ i \in 1 .. Len(vecstich)
         /\ SeatAt(vecstich'[i], j) = SeatAt(vecstich[i], j)
         /\ \/ /\ j \in 1 .. Len(vecstich[i].cards)
               /\ vecstich'[i].cards[j] = vecstich[i].cards[j]
               /\ vecstich'[i].cards[1] = vecstich[i].cards[1]
            \/ /\ i = Len(vecstich) /\ j = Len(CurrentStich.cards) + 1
               /\ vecstich'[i].cards[j] = card /\ SeatAt(vecstich[i], j) = epi
               /\ CurrentStich.cards # <<>> => vecstich'[i].cards[1] = First(CurrentStich)
<1> DEFINE m == Len(vecstich)
           n == Len(CurrentStich.cards)
<1>1. /\ card \in Deck /\ m \in Nat /\ m > 0 /\ CurrentStich \in Stiche
      /\ CurrentStich = vecstich[m] /\ epi = SeatAt(CurrentStich, n + 1) /\ n \in Nat
  BY ZugebenStep DEF StichsInOrder, Stiche
<1>2. vecstich' = StichsAfter(card)
  BY DEF Zugeben
<1>3. /\ vecstich'[m].epi_first = vecstich[m].epi_first
      /\ vecstich'[m].cards = Append(CurrentStich.cards, card)
      /\ \A k \in 1 .. m - 1 : vecstich'[k] = vecstich[k]
  BY <1>1, <1>2, StichsAfterCard
<1>4. i \in 1 .. m
  <2>1. CASE n + 1 < N
    BY <1>1, <1>2, <2>1, StichsAfterCard
  <2>2. CASE n + 1 = N
    <3>1. Len(StichWith(card).cards) = N
      BY <1>1, <2>2, StichsAfterCard
    <3>2. Len(vecstich') = m + 1 /\ vecstich'[m + 1] = Stich(PreliminaryWinner(StichWith(card)), <<>>)
      BY <1>1, <1>2, <3>1, StichsAfterCard
    <3>3. vecstich'[m + 1].cards = <<>>
      BY <3>2 DEF Stich
    <3> QED
      BY <1>1, <3>2, <3>3
  <2> QED
    BY <1>1, <2>1, <2>2, Constants DEF StichsInOrder
<1>5. CASE i = m
  <2>1. CurrentStich.cards \in Seq(Deck)
    BY <1>1 DEF Stiche
  <2>2. /\ j \in 1 .. n + 1
        /\ \A k \in 1 .. n : vecstich'[m].cards[k] = CurrentStich.cards[k]
        /\ vecstich'[m].cards[n + 1] = card
    BY <1>1, <1>3, <1>5, <2>1
  <2>3. n > 0 <=> CurrentStich.cards # <<>>
    BY <2>1
  <2>4. n > 0 => vecstich'[m].cards[1] = CurrentStich.cards[1]
    BY <1>1, <2>2
  <2>5. SeatAt(vecstich'[i], j) = SeatAt(vecstich[i], j)
    BY <1>3, <1>5 DEF SeatAt
  <2>6. CASE j = n + 1
    <3>1. vecstich'[i].cards[j] = card /\ SeatAt(vecstich[i], j) = epi
      BY <1>1, <1>5, <2>2, <2>6
    <3>2. CurrentStich.cards # <<>> => vecstich'[i].cards[1] = First(CurrentStich)
      BY <1>5, <2>3, <2>4 DEF First
    <3> QED
      BY <1>4, <1>5, <2>5, <2>6, <3>1, <3>2
  <2>7. CASE j # n + 1
    <3>1. j \in 1 .. n /\ 1 \in 1 .. n
      BY <1>1, <2>2, <2>7
    <3>2. vecstich'[i].cards[j] = vecstich[i].cards[j] /\ vecstich'[i].cards[1] = vecstich[i].cards[1]
      BY <1>1, <1>5, <2>2, <3>1
    <3> QED
      BY <1>1, <1>4, <1>5, <2>5, <3>1, <3>2
  <2> QED
    BY <2>6, <2>7
<1>6. CASE i # m
  BY <1>1, <1>3, <1>4, <1>6
<1> QED
  BY <1>5, <1>6

\* A card keeps it so: it was in the hand before, and what it says of the hand is true.
LEMMA ZugebenKeepsFollowed ==
  ASSUME IInv, Followed(rules, ahand, vecstich), NEW epi \in Seats, NEW card, Zugeben(epi, card)
  PROVE  Followed(rules', ahand', vecstich')
<1>1. /\ rules' = rules /\ ahand' = [ahand EXCEPT ![epi] = @ \ {card}]
      /\ card \in AllAllowedCards(epi)
  BY DEF Zugeben
<1>2. /\ StichsInOrder /\ rules \in GameRules /\ ahand \in [Seats -> SUBSET Deck]
  BY DEF IInv, StichsInOrder
<1>3. card \in ahand[epi]
  BY <1>2, ZugebenStep
<1>4. \A e : ahand'[e] \subseteq ahand[e]
  <2>1. TAKE e
  <2>2. CASE e \in Seats
    BY <1>1, <1>2, <2>2
  <2> QED
    BY <1>1, <1>2, <2>2
<1> SUFFICES ASSUME NEW i \in 1 .. Len(vecstich'), NEW j \in 1 .. Len(vecstich'[i].cards),
                    TrumpfOrFarbe(rules.decider, vecstich'[i].cards[j])
                      # TrumpfOrFarbe(rules.decider, vecstich'[i].cards[1])
             PROVE  /\ \A other \in ahand'[SeatAt(vecstich'[i], j)] :
                         Excused(rules, vecstich'[i].cards[1], other)
                    /\ \A k \in i + 1 .. Len(vecstich') : \A l \in 1 .. Len(vecstich'[k].cards) :
                         SeatAt(vecstich'[k], l) = SeatAt(vecstich'[i], j) =>
                           Excused(rules, vecstich'[i].cards[1], vecstich'[k].cards[l])
  BY <1>1 DEF Followed
<1> DEFINE m == Len(vecstich)
           n == Len(CurrentStich.cards)
           led == vecstich'[i].cards[1]
           e == SeatAt(vecstich[i], j)
<1>5. i \in 1 .. m /\ SeatAt(vecstich'[i], j) = e
  BY <1>2, PlacesAfterCard
<1>6. CASE /\ j \in 1 .. Len(vecstich[i].cards)
           /\ vecstich'[i].cards[j] = vecstich[i].cards[j]
           /\ vecstich'[i].cards[1] = vecstich[i].cards[1]
  <2>1. /\ \A other \in ahand[e] : Excused(rules, led, other)
        /\ \A k \in i + 1 .. m : \A l \in 1 .. Len(vecstich[k].cards) :
             SeatAt(vecstich[k], l) = e => Excused(rules, led, vecstich[k].cards[l])
    BY <1>5, <1>6 DEF Followed
  <2>2. ASSUME NEW k \in i + 1 .. Len(vecstich'), NEW l \in 1 .. Len(vecstich'[k].cards),
               SeatAt(vecstich'[k], l) = e
        PROVE  Excused(rules, led, vecstich'[k].cards[l])
    <3>1. k \in 1 .. Len(vecstich')
      BY <1>5
    <3>2. /\ k \in 1 .. m /\ SeatAt(vecstich[k], l) = e
          /\ \/ l \in 1 .. Len(vecstich[k].cards) /\ vecstich'[k].cards[l] = vecstich[k].cards[l]
             \/ vecstich'[k].cards[l] = card /\ SeatAt(vecstich[k], l) = epi
      <4>1. /\ k \in 1 .. m /\ SeatAt(vecstich'[k], l) = SeatAt(vecstich[k], l)
            /\ \/ l \in 1 .. Len(vecstich[k].cards) /\ vecstich'[k].cards[l] = vecstich[k].cards[l]
               \/ vecstich'[k].cards[l] = card /\ SeatAt(vecstich[k], l) = epi
        BY <1>2, <3>1, PlacesAfterCard
      <4> QED
        BY <2>2, <4>1
    <3>3. CASE l \in 1 .. Len(vecstich[k].cards) /\ vecstich'[k].cards[l] = vecstich[k].cards[l]
      <4>1. k \in i + 1 .. m
        <5> HIDE DEF m
        <5> QED
          BY <3>2
      <4> QED
        BY <2>1, <3>2, <3>3, <4>1
    <3>4. CASE vecstich'[k].cards[l] = card /\ SeatAt(vecstich[k], l) = epi
      <4>1. card \in ahand[e]
        BY <1>3, <3>2, <3>4
      <4> QED
        BY <2>1, <3>4, <4>1
    <3> QED
      BY <3>2, <3>3, <3>4
  <2> QED
    BY <1>4, <1>5, <2>1, <2>2
<1>7. CASE /\ i = m /\ j = n + 1
           /\ vecstich'[i].cards[j] = card /\ e = epi
           /\ CurrentStich.cards # <<>> => led = First(CurrentStich)
  <2>1. CurrentStich.cards # <<>>
    <3>1. CurrentStich.cards = <<>> => n = 0
      OBVIOUS
    <3> QED
      BY <1>7, <3>1
  <2>2. Suit(card) # Suit(First(CurrentStich))
    BY <1>7, <2>1 DEF Suit
  <2>3. ahand[epi] \in SUBSET Deck /\ IsFiniteSet(ahand[epi])
    BY <1>2, Constants, FS_Subset
  <2>4. \A other \in ahand'[epi] : other \in ahand[epi] /\ other # card
    BY <1>1, <1>2
  <2>5. \A other \in ahand'[epi] : Excused(rules, led, other)
    BY <1>1, <1>2, <1>7, <2>1, <2>2, <2>3, <2>4, AllowedFollows
  <2>6. \A k \in i + 1 .. Len(vecstich') : \A l \in 1 .. Len(vecstich'[k].cards) : FALSE
    <3> SUFFICES ASSUME NEW k \in i + 1 .. Len(vecstich'), NEW l \in 1 .. Len(vecstich'[k].cards)
                 PROVE  FALSE
      OBVIOUS
    <3>1. k \in 1 .. Len(vecstich')
      BY <1>5
    <3>2. k \in 1 .. m
      BY <1>2, <3>1, PlacesAfterCard
    <3> QED
      BY <1>7, <3>2
  <2> QED
    BY <1>5, <1>7, <2>5, <2>6
<1> QED
  BY <1>2, <1>6, <1>7, PlacesAfterCard

\* A Rufsau that falls is led itself, is the last card of a hand, or its Farbe was led.
LEMMA ZugebenKeepsKept ==
  ASSUME IInv, Kept(rules, vecstich), NEW epi \in Seats, NEW card, Zugeben(epi, card)
  PROVE  Kept(rules', vecstich')
<1>1. rules' = rules /\ card \in AllAllowedCards(epi)
  BY DEF Zugeben
<1>2. StichsInOrder /\ rules \in GameRules /\ ahand \in [Seats -> SUBSET Deck]
  BY DEF IInv, StichsInOrder
<1> SUFFICES ASSUME rules.kind = "Rufspiel",
                    NEW i \in 1 .. Len(vecstich'), NEW j \in 1 .. Len(vecstich'[i].cards),
                    vecstich'[i].cards[j] = Rufsau
             PROVE  \/ i = CardsPerPlayer
                    \/ \E k \in 1 .. i : /\ Len(vecstich'[k].cards) > 0
                                         /\ TrumpfOrFarbe(rules.decider, vecstich'[k].cards[1]) = rules.farbe
  BY <1>1 DEF Kept, Rufsau
<1> DEFINE m == Len(vecstich)
           n == Len(CurrentStich.cards)
           RuffarbeLed(stichs, k) == /\ Len(stichs[k].cards) > 0
                                     /\ TrumpfOrFarbe(rules.decider, stichs[k].cards[1]) = rules.farbe
<1>3. /\ m \in Nat /\ m > 0 /\ m <= CardsPerPlayer /\ card \in ahand[epi] /\ ~ HasPlayed(epi)
      /\ CurrentStich = vecstich[m] /\ CurrentStich \in Stiche /\ n \in Nat
      /\ vecstich'[m].cards = Append(CurrentStich.cards, card)
      /\ \A k \in 1 .. m - 1 : vecstich'[k] = vecstich[k]
  <2>1. vecstich' = StichsAfter(card)
    BY DEF Zugeben
  <2>2. /\ m \in Nat /\ m > 0 /\ m <= CardsPerPlayer /\ card \in ahand[epi] /\ ~ HasPlayed(epi)
        /\ CurrentStich = vecstich[m] /\ CurrentStich \in Stiche /\ n \in Nat /\ card \in Deck
    BY <1>2, ZugebenStep DEF StichsInOrder, Stiche
  <2> QED
    BY <1>2, <2>1, <2>2, StichsAfterCard
<1>4. ASSUME NEW k \in 1 .. m, RuffarbeLed(vecstich, k)
      PROVE  RuffarbeLed(vecstich', k)
  <2>1. CASE k = m
    <3>1. CurrentStich.cards \in Seq(Deck) /\ n > 0
      BY <1>3, <1>4, <2>1 DEF Stiche
    <3>2. vecstich'[m].cards[1] = CurrentStich.cards[1] /\ Len(vecstich'[m].cards) = n + 1
      BY <1>3, <3>1
    <3>3. vecstich'[k].cards[1] = vecstich[k].cards[1] /\ Len(vecstich'[k].cards) > 0
      BY <1>3, <2>1, <3>1, <3>2
    <3> QED
      BY <1>4, <3>3
  <2>2. CASE k # m
    <3>1. k \in 1 .. m - 1
      BY <1>3, <2>2
    <3>2. vecstich'[k] = vecstich[k]
      BY <1>3, <3>1
    <3> QED
      BY <1>4, <3>2
  <2> QED
    BY <2>1, <2>2
<1>5. i \in 1 .. m
  BY <1>2, PlacesAfterCard
<1>6. CASE j \in 1 .. Len(vecstich[i].cards) /\ vecstich'[i].cards[j] = vecstich[i].cards[j]
  <2>1. i = CardsPerPlayer \/ \E k \in 1 .. i : RuffarbeLed(vecstich, k)
    BY <1>5, <1>6 DEF Kept, Rufsau
  <2>2. ASSUME NEW k \in 1 .. i, RuffarbeLed(vecstich, k)
        PROVE  RuffarbeLed(vecstich', k)
    <3>1. k \in 1 .. m
      BY <1>3, <1>5
    <3> HIDE DEF RuffarbeLed
    <3> QED
      BY <1>4, <2>2, <3>1
  <2> QED
    BY <2>1, <2>2
<1>7. CASE /\ i = m /\ j = n + 1 /\ vecstich'[i].cards[j] = card
  <2>1. card = Rufsau
    BY <1>7
  <2>2. CASE CurrentStich.cards = <<>>
    <3>1. vecstich'[m].cards = <<card>>
      BY <1>3, <2>2
    <3>2. TrumpfOrFarbe(rules.decider, card) = rules.farbe
      BY <1>2, <2>1, RufsauIsOfItsFarbe DEF Rufsau
    <3>3. Len(vecstich'[m].cards) > 0 /\ vecstich'[m].cards[1] = card
      BY <3>1
    <3>4. RuffarbeLed(vecstich', m)
      BY <3>2, <3>3
    <3>5. m \in 1 .. m
      BY <1>3
    <3> QED
      BY <1>7, <3>4, <3>5
  <2>3. CASE CurrentStich.cards # <<>>
    <3>1. IsFiniteSet(ahand[epi]) /\ Cardinality(ahand[epi]) \in Nat
      <4>1. ahand[epi] \in SUBSET Deck
        BY <1>2
      <4> QED
        BY <4>1, Constants, FS_Subset, FS_CardinalityType
    <3>2. \/ Cardinality(ahand[epi]) <= 1
          \/ IsRuffarbe(First(CurrentStich))
          \/ HasRunAway(epi)
      BY <1>1, <1>2, <2>1, <2>3, <3>1, AllowedRufsau
    <3>3. CASE Cardinality(ahand[epi]) <= 1
      <4>1. Cardinality(ahand[epi]) = CardsPerPlayer - (m - 1)
        <5>1. Cardinality(ahand[epi])
                = CardsPerPlayer - (Len(vecstich) - 1) - (IF HasPlayed(epi) THEN 1 ELSE 0)
          BY DEF IInv, HandSizes
        <5> HIDE DEF n
        <5> QED
          BY <1>3, <5>1, Constants
      <4>2. m = CardsPerPlayer
        BY <1>3, <3>3, <4>1, Constants
      <4> QED
        BY <1>7, <4>2
    <3>4. CASE IsRuffarbe(First(CurrentStich))
      <4>1. n > 0
        BY <1>3, <2>3 DEF Stiche
      <4>2. RuffarbeLed(vecstich, m)
        BY <1>3, <3>4, <4>1 DEF IsRuffarbe, Suit, First
      <4> QED
        BY <1>3, <1>4, <1>7, <4>2
    <3>5. CASE HasRunAway(epi)
      <4>1. PICK k \in 1 .. Len(CompletedStichs) : IsRuffarbe(First(CompletedStichs[k]))
        BY <3>5 DEF HasRunAway
      <4>2. k \in 1 .. m - 1 /\ CompletedStichs[k] = vecstich[k] /\ Len(vecstich[k].cards) = N
        BY <1>2, <4>1, CompletedAreFirst DEF StichsInOrder
      <4>3. RuffarbeLed(vecstich, k)
        BY <4>1, <4>2, Constants DEF IsRuffarbe, Suit, First
      <4> QED
        BY <1>3, <1>4, <1>7, <4>2, <4>3
    <3> QED
      BY <3>2, <3>3, <3>4, <3>5
  <2> QED
    BY <2>2, <2>3
<1> QED
  BY <1>2, <1>6, <1>7, PlacesAfterCard

------------------------------------------------------------------------------
(***************************************************************************)
(* The theorems.                                                           *)
(***************************************************************************)
\* Before the first card nothing has been led.
LEMMA InitFInv == Init => FInv
<1> SUFFICES ASSUME Init PROVE FInv
  OBVIOUS
<1>1. vecstich = <<Stich(0, <<>>)>>
  BY DEF Init
<1>2. Len(vecstich) = 1 /\ vecstich[1].cards = <<>>
  BY <1>1 DEF Stich
<1>3. \A i \in 1 .. Len(vecstich) : \A j \in 1 .. Len(vecstich[i].cards) : FALSE
  BY <1>2
<1> QED
  BY <1>3, InitIInv DEF FInv, Followed, Kept

\* Every step keeps what the Stichs say of the hands.
LEMMA NextFInv == FInv /\ [Next]_vars => FInv'
<1> SUFFICES ASSUME FInv, [Next]_vars PROVE FInv'
  OBVIOUS
<1>1. IInv /\ IInv' /\ Followed(rules, ahand, vecstich) /\ Kept(rules, vecstich)
  BY NextIInv DEF FInv
<1>2. CASE UNCHANGED <<rules, ahand, vecstich>>
  <2>1. Followed(rules', ahand', vecstich') /\ Kept(rules', vecstich')
    BY <1>1, <1>2
  <2> QED
    BY <1>1, <2>1 DEF FInv
<1>3. ASSUME NEW epi \in Seats, NEW card \in ahand[epi], Zugeben(epi, card) PROVE FInv'
  <2>1. Followed(rules', ahand', vecstich')
    BY <1>1, <1>3, ZugebenKeepsFollowed
  <2>2. Kept(rules', vecstich')
    BY <1>1, <1>3, ZugebenKeepsKept
  <2>3. Followed(rules, ahand, vecstich)' /\ Kept(rules, vecstich)'
    BY <2>1, <2>2 DEF Followed, Kept, Excused, SeatAt
  <2> QED
    BY <1>1, <2>3 DEF FInv
<1> QED
  BY <1>2, <1>3 DEF Next, DoStoss, Finished, vars

\* The card of a seat in a full Stich, by its place.
LEMMA PlaceOf ==
  ASSUME NEW stich \in Stiche, Len(stich.cards) = N, NEW epi \in Seats
  PROVE  \E k \in 1 .. Len(stich.cards) :
           SeatAt(stich, k) = epi /\ CardOf(stich, epi) = stich.cards[k]
BY SeatsOfStich DEF CardOf

\* The completed Stichs and what is said of them.
LEMMA FInvImplies == FInv => SuitIsFollowed /\ RufsauIsKept
<1> SUFFICES ASSUME FInv PROVE SuitIsFollowed /\ RufsauIsKept
  OBVIOUS
<1>1. StichsInOrder /\ Followed(rules, ahand, vecstich) /\ Kept(rules, vecstich)
  BY DEF FInv, IInv
<1>2. Len(CompletedStichs) = Len(vecstich) - 1 /\ Len(vecstich) \in Nat
  BY <1>1, CompletedAreFirst DEF StichsInOrder
<1>3. \A i \in 1 .. Len(CompletedStichs) :
         /\ i \in 1 .. Len(vecstich) /\ CompletedStichs[i] = vecstich[i]
         /\ vecstich[i] \in Stiche /\ Len(vecstich[i].cards) = N
  BY <1>1, <1>2, CompletedAreFirst DEF StichsInOrder
<1>4. SuitIsFollowed
  <2> SUFFICES ASSUME NEW i \in 1 .. Len(CompletedStichs), NEW epi \in Seats,
                      Suit(CardOf(CompletedStichs[i], epi)) # Suit(First(CompletedStichs[i])),
                      NEW card \in ahand[epi] \cup
                         { CardOf(CompletedStichs[j], epi) : j \in i + 1 .. Len(CompletedStichs) },
                      Suit(card) = Suit(First(CompletedStichs[i]))
               PROVE  rules.kind = "Rufspiel" /\ card = Rufsau
    BY DEF SuitIsFollowed
  <2>1. PICK k \in 1 .. Len(vecstich[i].cards) :
          SeatAt(vecstich[i], k) = epi /\ CardOf(vecstich[i], epi) = vecstich[i].cards[k]
    BY <1>3, PlaceOf
  <2>2. /\ \A c \in ahand[epi] : Excused(rules, First(vecstich[i]), c)
        /\ \A j \in i + 1 .. Len(vecstich) : \A l \in 1 .. Len(vecstich[j].cards) :
             SeatAt(vecstich[j], l) = epi => Excused(rules, First(vecstich[i]), vecstich[j].cards[l])
    <3>1. TrumpfOrFarbe(rules.decider, vecstich[i].cards[k])
            # TrumpfOrFarbe(rules.decider, vecstich[i].cards[1])
      BY <1>3, <2>1 DEF Suit, First
    <3>2. i \in 1 .. Len(vecstich) /\ k \in 1 .. Len(vecstich[i].cards)
      BY <1>3, <2>1
    <3> QED
      BY <1>1, <2>1, <3>1, <3>2 DEF Followed, First
  <2>3. Excused(rules, First(vecstich[i]), card)
    <3>1. CASE card \in ahand[epi]
      BY <2>2, <3>1
    <3>2. CASE card \notin ahand[epi]
      <4>1. PICK j \in i + 1 .. Len(CompletedStichs) : card = CardOf(CompletedStichs[j], epi)
        BY <3>2
      <4>2. j \in 1 .. Len(CompletedStichs) /\ j \in i + 1 .. Len(vecstich)
        BY <1>2
      <4>3. PICK l \in 1 .. Len(vecstich[j].cards) :
              SeatAt(vecstich[j], l) = epi /\ card = vecstich[j].cards[l]
        BY <1>3, <4>1, <4>2, PlaceOf
      <4> QED
        BY <2>2, <4>2, <4>3
    <3> QED
      BY <3>1, <3>2
  <2> QED
    BY <1>3, <2>3 DEF Excused, Suit, Rufsau
<1>5. RufsauIsKept
  <2> SUFFICES ASSUME rules.kind = "Rufspiel", NEW i \in 1 .. Len(CompletedStichs),
                      Rufsau \in Elements(CompletedStichs[i].cards)
               PROVE  i = CardsPerPlayer \/ \E k \in 1 .. i : IsRuffarbe(Led(k))
    BY DEF RufsauIsKept
  <2>1. PICK j \in 1 .. Len(vecstich[i].cards) : vecstich[i].cards[j] = Rufsau
    BY <1>3 DEF Elements
  <2>2. \/ i = CardsPerPlayer
        \/ \E k \in 1 .. i : TrumpfOrFarbe(rules.decider, vecstich[k].cards[1]) = rules.farbe
    BY <1>1, <1>3, <2>1 DEF Kept, Rufsau
  <2>3. \A k \in 1 .. i : k \in 1 .. Len(CompletedStichs)
    BY <1>2
  <2>4. \A k \in 1 .. i : Led(k) = vecstich[k].cards[1]
    BY <1>3, <2>3 DEF Led, First
  <2> QED
    BY <2>2, <2>4 DEF IsRuffarbe, Suit
<1> QED
  BY <1>4, <1>5

\* all_allowed_cards makes everybody follow suit: who has not followed once never shows a
\* card of that suit again, however long the game goes on, but for the Rufsau.
THEOREM NobodyRevokes == Spec => []SuitIsFollowed
BY InitFInv, NextFInv, FInvImplies, PTL DEF Spec

\* The rules of SRulesRufspiel keep the Rufsau back until its Farbe is led.
THEOREM RufsauWaits == Spec => []RufsauIsKept
BY InitFInv, NextFInv, FInvImplies, PTL DEF Spec

------------------------------------------------------------------------------
(***************************************************************************)
(* Taking a card back.                                                     *)
(***************************************************************************)
\* A sequence without the element that was appended last is what it was.
LEMMA WithoutLast ==
  ASSUME NEW S, NEW s \in Seq(S), NEW x \in S
  PROVE  SubSeq(Append(s, x), 1, Len(Append(s, x)) - 1) = s
BY SMT

\* zugeben_and_restore leaves the Stichs as it found them, also after the last card of a
\* Stich, which has begun a new one.
LEMMA CardIsTakenBack ==
  ASSUME IInv, NEW card \in Deck
  PROVE  Restored(StichsAfter(card)) = vecstich
<1> DEFINE m == Len(vecstich)
           after == StichsAfter(card)
<1>1. /\ StichsInOrder /\ m \in Nat /\ m > 0 /\ vecstich \in Seq(Stiche)
      /\ CurrentStich \in Stiche /\ CurrentStich = vecstich[m]
  BY DEF IInv, StichsInOrder, CurrentStich
<1>2. /\ after[m] = StichWith(card) /\ StichWith(card) \in Stiche
      /\ \A i \in 1 .. m - 1 : after[i] = vecstich[i]
      /\ StichWith(card).epi_first = CurrentStich.epi_first
      /\ StichWith(card).cards = Append(CurrentStich.cards, card)
      /\ Len(StichWith(card).cards) = Len(CurrentStich.cards) + 1
  BY <1>1, StichsAfterCard
<1>3. CurrentStich.cards \in Seq(Deck) /\ StichWith(card).cards # <<>>
  <2>1. CurrentStich.cards \in Seq(Deck)
    BY <1>1 DEF Stiche
  <2>2. Append(CurrentStich.cards, card) # <<>>
    BY <2>1
  <2> QED
    BY <1>2, <2>1, <2>2
<1>4. after \in Seq(Stiche) /\ Len(after) - (IF after[Len(after)].cards = <<>> THEN 1 ELSE 0) = m
  <2>1. CASE Len(StichWith(card).cards) < N
    BY <1>1, <1>2, <1>3, <2>1, StichsAfterCard
  <2>2. CASE Len(StichWith(card).cards) = N
    <3>1. /\ Len(after) = m + 1 /\ after \in Seq(Stiche)
          /\ after[m + 1] = Stich(PreliminaryWinner(StichWith(card)), <<>>)
      BY <1>1, <2>2, StichsAfterCard
    <3>2. after[m + 1].cards = <<>>
      BY <3>1 DEF Stich
    <3> QED
      BY <1>1, <3>1, <3>2
  <2>3. Len(CurrentStich.cards) \in Nat /\ Len(CurrentStich.cards) < N
    BY <1>1, <1>3 DEF StichsInOrder
  <2> QED
    BY <1>2, <2>1, <2>2, <2>3, Constants
<1> DEFINE upto == SubSeq(after, 1, m)
<1>5. Restored(after) = [upto EXCEPT ![m].cards = SubSeq(@, 1, Len(@) - 1)]
  BY <1>4 DEF Restored
<1> HIDE DEF after
<1>6. m <= Len(after)
  BY <1>1, <1>4
<1>7. upto \in Seq(Stiche) /\ Len(upto) = m /\ \A i \in 1 .. m : upto[i] = after[i]
  <2>1. \A i \in 1 .. m : after[i] \in Stiche
    BY <1>4, <1>6
  <2> QED
    BY <1>1, <2>1, SubSeqProperties
<1> HIDE DEF upto
<1>8. [upto[m] EXCEPT !.cards = SubSeq(@, 1, Len(@) - 1)] = vecstich[m]
  <2>1. upto[m] = StichWith(card)
    BY <1>1, <1>2, <1>7
  <2>2. SubSeq(StichWith(card).cards, 1, Len(StichWith(card).cards) - 1) = CurrentStich.cards
    BY <1>2, <1>3, WithoutLast
  <2> QED
    BY <1>1, <1>2, <2>1, <2>2 DEF Stiche
<1>9. Restored(after) \in Seq(Stiche) /\ Len(Restored(after)) = m
  BY <1>1, <1>5, <1>7, <1>8
<1>10. \A i \in 1 .. m : Restored(after)[i] = vecstich[i]
  BY <1>1, <1>2, <1>5, <1>7, <1>8
<1> QED
  BY <1>1, <1>9, <1>10, SeqEqual DEF after

\* However deep the search of the AI goes, it comes back to the Stichs it started from.
THEOREM SearchComesBack == Spec => []SearchRestores
<1>1. IInv => SearchRestores
  <2> SUFFICES ASSUME IInv, ~ GameFinished, NEW card \in AllAllowedCards(Current)
               PROVE  Restored(StichsAfter(card)) = vecstich
    BY DEF SearchRestores
  <2>1. Current \in Seats
    BY HandNonempty
  <2>2. card \in Deck
    BY <2>1, AllowedIsOnHand DEF IInv, StichsInOrder
  <2> QED
    BY <2>2, CardIsTakenBack
<1> QED
  BY <1>1, Inductive, PTL
------------------------------------------------------------------------------
(***************************************************************************)
(* The cards of a seat: what it holds and what it has played is the hand it*)
(* was dealt, in every state.                                              *)
(***************************************************************************)
\* the cards epi has played
PlayedBy(stichs, epi) ==
  { card \in Deck : \E i \in 1 .. Len(stichs) : \E j \in 1 .. Len(stichs[i].cards) :
                      SeatAt(stichs[i], j) = epi /\ stichs[i].cards[j] = card }

HandOf(hands, stichs, epi) == hands[epi] \cup PlayedBy(stichs, epi)

\* the hands of a deal, and no card is both held and played
IsDeal(hands) ==
  /\ hands \in [Seats -> SUBSET Deck]
  /\ UNION { hands[epi] : epi \in Seats } = Deck
  /\ \A epi \in Seats : /\ Cardinality(hands[epi]) = CardsPerPlayer
                        /\ \A other \in Seats \ {epi} : hands[epi] \cap hands[other] = {}

NoCardLost(hands, stichs) ==
  /\ IsDeal([epi \in Seats |-> HandOf(hands, stichs, epi)])
  /\ \A epi \in Seats : hands[epi] \cap PlayedBy(stichs, epi) = {}

DInv == FInv /\ NoCardLost(ahand, vecstich)

------------------------------------------------------------------------------
(***************************************************************************)
(* A card more.                                                            *)
(***************************************************************************)
\* The card goes from the hand of its seat to what that seat has played; nothing else moves.
LEMMA CardMoves ==
  ASSUME StichsInOrder, NEW epi \in Seats, NEW card, Zugeben(epi, card), NEW e \in Seats
  PROVE  /\ card \in ahand[epi] /\ card \in Deck
         /\ ahand'[e] = IF e = epi THEN ahand[e] \ {card} ELSE ahand[e]
         /\ PlayedBy(vecstich', e) = IF e = epi THEN PlayedBy(vecstich, e) \cup {card}
                                     ELSE PlayedBy(vecstich, e)
<1> DEFINE m == Len(vecstich)
           n == Len(CurrentStich.cards)
<1>1. /\ card \in ahand[epi] /\ card \in Deck /\ m \in Nat /\ m > 0 /\ CurrentStich \in Stiche
      /\ CurrentStich = vecstich[m] /\ epi = SeatAt(CurrentStich, n + 1) /\ n \in Nat
  BY ZugebenStep DEF StichsInOrder, Stiche
<1>2. ahand'[e] = IF e = epi THEN ahand[e] \ {card} ELSE ahand[e]
  BY DEF Zugeben, StichsInOrder
<1>3. /\ vecstich'[m].epi_first = vecstich[m].epi_first
      /\ vecstich'[m].cards = Append(CurrentStich.cards, card)
      /\ \A k \in 1 .. m - 1 : vecstich'[k] = vecstich[k]
      /\ Len(vecstich') \in {m, m + 1}
  <2>1. vecstich' = StichsAfter(card)
    BY DEF Zugeben
  <2>2. Len(StichWith(card).cards) = n + 1 /\ n < N
    BY <1>1, StichsAfterCard DEF StichsInOrder
  <2>3. Len(vecstich') \in {m, m + 1}
    <3>1. Len(StichWith(card).cards) < N => Len(vecstich') = m
      BY <1>1, <2>1, StichsAfterCard
    <3>2. Len(StichWith(card).cards) = N => Len(vecstich') = m + 1
      BY <1>1, <2>1, StichsAfterCard
    <3> QED
      BY <1>1, <2>2, <3>1, <3>2, Constants
  <2> QED
    BY <1>1, <2>1, <2>3, StichsAfterCard
<1>4. ASSUME NEW c \in Deck
      PROVE  c \in PlayedBy(vecstich', e) <=> c \in PlayedBy(vecstich, e) \/ (e = epi /\ c = card)
  <2>1. ASSUME c \in PlayedBy(vecstich', e)
        PROVE  c \in PlayedBy(vecstich, e) \/ (e = epi /\ c = card)
    <3>1. PICK i \in 1 .. Len(vecstich') : \E j \in 1 .. Len(vecstich'[i].cards) :
            SeatAt(vecstich'[i], j) = e /\ vecstich'[i].cards[j] = c
      BY <2>1 DEF PlayedBy
    <3>2. PICK j \in 1 .. Len(vecstich'[i].cards) :
            SeatAt(vecstich'[i], j) = e /\ vecstich'[i].cards[j] = c
      BY <3>1
    <3> QED
      BY <3>2, PlacesAfterCard DEF PlayedBy
  <2>2. ASSUME c \in PlayedBy(vecstich, e)
        PROVE  c \in PlayedBy(vecstich', e)
    <3>1. PICK i \in 1 .. m : \E j \in 1 .. Len(vecstich[i].cards) :
            SeatAt(vecstich[i], j) = e /\ vecstich[i].cards[j] = c
      BY <2>2 DEF PlayedBy
    <3>2. PICK j \in 1 .. Len(vecstich[i].cards) :
            SeatAt(vecstich[i], j) = e /\ vecstich[i].cards[j] = c
      BY <3>1
    <3>3. i \in 1 .. Len(vecstich')
      BY <1>1, <1>3
    <3>4. /\ j \in 1 .. Len(vecstich'[i].cards) /\ vecstich'[i].cards[j] = c
          /\ SeatAt(vecstich'[i], j) = e
      <4>1. CASE i = m
        <5>1. CurrentStich.cards \in Seq(Deck)
          BY <1>1 DEF Stiche
        <5>2. j \in 1 .. n /\ CurrentStich.cards[j] = c
          BY <1>1, <3>2, <4>1
        <5>3. j \in 1 .. Len(vecstich'[m].cards) /\ vecstich'[m].cards[j] = c
          BY <1>1, <1>3, <5>1, <5>2
        <5>4. SeatAt(vecstich'[m], j) = e
          BY <1>3, <3>2, <4>1 DEF SeatAt
        <5> QED
          BY <4>1, <5>3, <5>4
      <4>2. CASE i # m
        BY <1>1, <1>3, <3>2, <4>2
      <4> QED
        BY <4>1, <4>2
    <3> QED
      BY <3>3, <3>4 DEF PlayedBy
  <2>3. card \in PlayedBy(vecstich', epi)
    <3>1. CurrentStich.cards \in Seq(Deck)
      BY <1>1 DEF Stiche
    <3>2. /\ n + 1 \in 1 .. Len(vecstich'[m].cards) /\ vecstich'[m].cards[n + 1] = card
      BY <1>1, <1>3, <3>1
    <3>3. m \in 1 .. Len(vecstich') /\ SeatAt(vecstich'[m], n + 1) = epi
      BY <1>1, <1>3 DEF SeatAt
    <3> QED
      BY <1>1, <3>2, <3>3 DEF PlayedBy
  <2> QED
    BY <2>1, <2>2, <2>3
<1>5. PlayedBy(vecstich', e) \subseteq Deck /\ PlayedBy(vecstich, e) \subseteq Deck
  BY DEF PlayedBy
<1> QED
  BY <1>1, <1>2, <1>4, <1>5

\* So what a seat holds and has played stays one hand of the deal.
LEMMA ZugebenLosesNone ==
  ASSUME StichsInOrder, NoCardLost(ahand, vecstich), NEW epi \in Seats, NEW card, Zugeben(epi, card)
  PROVE  /\ NoCardLost(ahand', vecstich')
         /\ \A e \in Seats : HandOf(ahand', vecstich', e) = HandOf(ahand, vecstich, e)
<1>1. \A e \in Seats : HandOf(ahand', vecstich', e) = HandOf(ahand, vecstich, e)
  BY CardMoves DEF HandOf
<1>2. [e \in Seats |-> HandOf(ahand', vecstich', e)] = [e \in Seats |-> HandOf(ahand, vecstich, e)]
  BY <1>1
<1>3. \A e \in Seats : ahand'[e] \cap PlayedBy(vecstich', e) = {}
  <2> SUFFICES ASSUME NEW e \in Seats PROVE ahand'[e] \cap PlayedBy(vecstich', e) = {}
    OBVIOUS
  <2>1. ahand[e] \cap PlayedBy(vecstich, e) = {}
    BY DEF NoCardLost
  <2> QED
    BY <2>1, CardMoves
<1> QED
  BY <1>1, <1>2, <1>3 DEF NoCardLost

\* Before the first card the hands are those that were dealt.
LEMMA InitDInv == Init => DInv
<1> SUFFICES ASSUME Init PROVE DInv
  OBVIOUS
<1>1. vecstich = <<Stich(0, <<>>)>> /\ ahand \in Deals
  BY DEF Init
<1>2. Len(vecstich) = 1 /\ vecstich[1].cards = <<>>
  BY <1>1 DEF Stich
<1>3. \A epi : PlayedBy(vecstich, epi) = {}
  BY <1>2 DEF PlayedBy
<1>4. IsDeal(ahand)
  BY <1>1, CardPlayAssumption DEF IsDeal
<1>5. [epi \in Seats |-> HandOf(ahand, vecstich, epi)] = ahand
  BY <1>3, <1>4 DEF HandOf, IsDeal
<1> QED
  BY <1>3, <1>4, <1>5, InitFInv DEF DInv, NoCardLost

\* No step loses a card.
LEMMA NextDInv == DInv /\ [Next]_vars => DInv'
<1> SUFFICES ASSUME DInv, [Next]_vars PROVE DInv'
  OBVIOUS
<1>1. FInv' /\ StichsInOrder /\ NoCardLost(ahand, vecstich)
  BY NextFInv DEF DInv, FInv, IInv
<1>2. CASE UNCHANGED <<rules, ahand, vecstich>>
  <2>1. NoCardLost(ahand', vecstich')
    BY <1>1, <1>2
  <2> QED
    BY <1>1, <2>1 DEF DInv, NoCardLost, HandOf, PlayedBy, SeatAt, IsDeal
<1>3. ASSUME NEW epi \in Seats, NEW card \in ahand[epi], Zugeben(epi, card) PROVE DInv'
  <2>1. NoCardLost(ahand', vecstich')
    BY <1>1, <1>3, ZugebenLosesNone
  <2> QED
    BY <1>1, <2>1 DEF DInv, NoCardLost, HandOf, PlayedBy, SeatAt, IsDeal
<1> QED
  BY <1>2, <1>3 DEF Next, DoStoss, Finished, vars

\* The cards a seat holds or has played, by their places.
LEMMA DealtIsHand ==
  ASSUME StichsInOrder, NEW epi \in Seats
  PROVE  Dealt(epi) = HandOf(ahand, vecstich, epi)
<1> DEFINE m == Len(vecstich)
           completed == { CardOf(CompletedStichs[i], epi) : i \in 1 .. Len(CompletedStichs) }
           current == { CurrentStich.cards[i] : i \in { j \in 1 .. Len(CurrentStich.cards) :
                                                          SeatAt(CurrentStich, j) = epi } }
<1>1. /\ m \in Nat /\ m > 0 /\ CurrentStich = vecstich[m]
      /\ \A i \in 1 .. m : vecstich[i] \in Stiche
      /\ Len(CompletedStichs) = m - 1
      /\ \A i \in 1 .. m - 1 : CompletedStichs[i] = vecstich[i] /\ Len(vecstich[i].cards) = N
  BY CompletedAreFirst DEF StichsInOrder, CurrentStich
<1>2. \A i \in 1 .. m : \A j \in 1 .. Len(vecstich[i].cards) : vecstich[i].cards[j] \in Deck
  BY <1>1 DEF Stiche
<1>3. ASSUME NEW c \in completed PROVE c \in PlayedBy(vecstich, epi)
  <2>1. PICK i \in 1 .. m - 1 : c = CardOf(vecstich[i], epi)
    BY <1>1
  <2>2. i \in 1 .. m /\ vecstich[i] \in Stiche /\ Len(vecstich[i].cards) = N
    BY <1>1, <2>1
  <2>3. PICK k \in 1 .. Len(vecstich[i].cards) : SeatAt(vecstich[i], k) = epi /\ c = vecstich[i].cards[k]
    BY <2>1, <2>2, PlaceOf
  <2> QED
    BY <1>2, <2>2, <2>3 DEF PlayedBy
<1>4. ASSUME NEW c \in current PROVE c \in PlayedBy(vecstich, epi)
  <2>1. PICK j \in 1 .. Len(vecstich[m].cards) : SeatAt(vecstich[m], j) = epi /\ c = vecstich[m].cards[j]
    BY <1>1
  <2>2. m \in 1 .. m
    BY <1>1
  <2> QED
    BY <1>2, <2>1, <2>2 DEF PlayedBy
<1>5. ASSUME NEW c \in PlayedBy(vecstich, epi) PROVE c \in completed \cup current
  <2>1. PICK i \in 1 .. m : \E j \in 1 .. Len(vecstich[i].cards) :
          SeatAt(vecstich[i], j) = epi /\ vecstich[i].cards[j] = c
    BY <1>5 DEF PlayedBy
  <2>2. PICK j \in 1 .. Len(vecstich[i].cards) : SeatAt(vecstich[i], j) = epi /\ vecstich[i].cards[j] = c
    BY <2>1
  <2>3. CASE i = m
    BY <1>1, <2>2, <2>3
  <2>4. CASE i # m
    <3>1. i \in 1 .. m - 1
      BY <1>1, <2>4
    <3>2. CardOf(vecstich[i], epi) = c
      BY <1>1, <2>2, <3>1, SeatsOfStich DEF CardOf
    <3> QED
      BY <1>1, <3>1, <3>2
  <2> QED
    BY <2>3, <2>4
<1> QED
  BY <1>3, <1>4, <1>5 DEF Dealt, HandOf

\* The invariant is stronger than the type invariant.
LEMMA DInvTypeOK == DInv => TypeOK
<1> SUFFICES ASSUME DInv PROVE TypeOK
  OBVIOUS
<1>1. StichsInOrder /\ StossOK /\ NoCardLost(ahand, vecstich)
  BY DEF DInv, FInv, IInv
<1>2. Len(CompletedStichs) = Len(vecstich) - 1 /\ Len(vecstich) \in Nat
  BY <1>1, CompletedAreFirst DEF StichsInOrder
<1>3. ASSUME NEW i \in 1 .. Len(vecstich)
      PROVE  /\ vecstich[i].epi_first \in Seats
             /\ vecstich[i].cards \in Seq(Deck)
             /\ IsFull(vecstich[i]) <=> i < Len(vecstich)
             /\ Len(vecstich[i].cards) <= N
  <2>1. vecstich[i] \in Stiche
    BY <1>1 DEF StichsInOrder
  <2>2. CASE i = Len(vecstich)
    BY <1>1, <2>1, <2>2, Constants DEF StichsInOrder, CurrentStich, Stiche, IsFull
  <2>3. CASE i # Len(vecstich)
    BY <1>1, <1>2, <2>1, <2>3, Constants DEF StichsInOrder, Stiche, IsFull
  <2> QED
    BY <2>2, <2>3
<1>4. UNION { Dealt(epi) : epi \in Seats } = Deck
  <2>1. UNION { HandOf(ahand, vecstich, epi) : epi \in Seats } = Deck
    BY <1>1 DEF NoCardLost, IsDeal
  <2> QED
    BY <1>1, <2>1, DealtIsHand
<1>5. \A epi \in Seats : Cardinality(Dealt(epi)) = CardsPerPlayer
  BY <1>1, DealtIsHand DEF NoCardLost, IsDeal
<1>6. \A epi \in Seats : ahand[epi] \cap CardsOf(vecstich) = {}
  <2> SUFFICES ASSUME NEW epi \in Seats, NEW card \in ahand[epi], card \in CardsOf(vecstich)
               PROVE  FALSE
    OBVIOUS
  <2>1. PICK i \in 1 .. Len(vecstich) : card \in Elements(vecstich[i].cards)
    BY DEF CardsOf
  <2>2. PICK j \in 1 .. Len(vecstich[i].cards) : vecstich[i].cards[j] = card
    BY <2>1 DEF Elements
  <2>3. vecstich[i] \in Stiche /\ j \in 1 .. N /\ card \in Deck
    BY <1>3, <2>2, Constants, <1>1 DEF StichsInOrder
  <2> DEFINE e == SeatAt(vecstich[i], j)
  <2>4. e \in Seats /\ card \in PlayedBy(vecstich, e)
    BY <2>2, <2>3, SeatsOfStich DEF PlayedBy
  <2>5. card \in HandOf(ahand, vecstich, e) /\ card \in HandOf(ahand, vecstich, epi)
    BY <2>4 DEF HandOf
  <2>6. e = epi
    BY <1>1, <2>4, <2>5 DEF NoCardLost, IsDeal
  <2> QED
    BY <1>1, <2>4, <2>6 DEF NoCardLost
<1>7. /\ rules \in GameRules
      /\ vecstoss \in Seq(Seats) /\ Len(vecstoss) <= MaxStoss
      /\ vecstich # <<>> /\ vecstich[1].epi_first = 0
      /\ Len(CompletedStichs) <= CardsPerPlayer
      /\ GameFinished => CurrentStich.cards = <<>>
  BY <1>1, <1>2, Constants DEF StichsInOrder, StossOK
<1> QED
  BY <1>3, <1>4, <1>5, <1>6, <1>7 DEF TypeOK

\* SStichSequence::assert_invariant, and every card of the deal is in one place: in the
\* hand it was dealt to or in the Stich its seat played it in.
THEOREM TypeCorrect == Spec => []TypeOK
BY InitDInv, NextDInv, DInvTypeOK, PTL DEF Spec

------------------------------------------------------------------------------
(***************************************************************************)
(* A Game as a table sees it.                                              *)
(***************************************************************************)
\* Counting cards by Stichs and by what is in the last one.
LEMMA CountedByStichs ==
  ASSUME NEW q \in Nat, NEW r \in 0 .. N - 1
  PROVE  /\ N * q + r \in Nat
         /\ \A c \in Nat : q < c => N * q + r < N * c
         /\ (N * q + r) % N = r
<1>1. N \in Nat /\ N > 1 /\ r \in Nat /\ r < N
  BY Constants
<1>2. N * q \in Nat
  BY <1>1
<1>3. ASSUME NEW c \in Nat, q < c
      PROVE  N * q + r < N * c
  <2>1. N * c = N * q + N * (c - q) /\ c - q >= 1
    BY <1>1, <1>3
  <2>2. N * (c - q) >= N
    BY <1>1, <2>1
  <2> QED
    BY <1>1, <1>2, <2>1, <2>2
<1>4. (N * q + r) % N = r
  BY <1>1, <1>2
<1> QED
  BY <1>1, <1>2, <1>3, <1>4

\* The Game of GamePhases by the Stichs.
LEMMA PhaseByStichs ==
  StichsInOrder =>
    /\ CardsPlayed = N * (Len(vecstich) - 1) + Len(CurrentStich.cards)
    /\ GamePhase = [kind |-> "Game",
                    asked |-> IF CardsPlayed < N * CardsPerPlayer THEN {Current} ELSE {},
                    active |-> Active, n_card |-> CardsPlayed, n_stoss |-> Len(vecstoss)]
BY CompletedAreFirst DEF CardsPlayed, GamePhase, P!Game

\* Who plays the game depends on what was dealt.
LEMMA ActiveByHands ==
  StichsInOrder =>
    Active = { epi \in Seats : epi = rules.epi \/
                 (rules.kind = "Rufspiel" /\ Rufsau \in HandOf(ahand, vecstich, epi)) }
BY DealtIsHand DEF Active

\* Both in the next state.
LEMMA NextPhase ==
  StichsInOrder' =>
    /\ CardsPlayed' = N * (Len(vecstich') - 1) + Len(CurrentStich'.cards)
    /\ GamePhase' = [kind |-> "Game",
                     asked |-> IF CardsPlayed' < N * CardsPerPlayer THEN {Current'} ELSE {},
                     active |-> Active', n_card |-> CardsPlayed', n_stoss |-> Len(vecstoss')]
    /\ Active' = { epi \in Seats : epi = rules'.epi \/
                     (rules'.kind = "Rufspiel"
                        /\ Card(rules'.farbe, "Ass") \in HandOf(ahand', vecstich', epi)) }
<1>1. StichsInOrder' => /\ (CardsPlayed = N * (Len(vecstich) - 1) + Len(CurrentStich.cards))'
                        /\ (GamePhase = [kind |-> "Game",
                              asked |-> IF CardsPlayed < N * CardsPerPlayer THEN {Current} ELSE {},
                              active |-> Active, n_card |-> CardsPlayed, n_stoss |-> Len(vecstoss)])'
  BY PhaseByStichs, PTL
<1>2. StichsInOrder' => (Active = { epi \in Seats : epi = rules.epi \/
                          (rules.kind = "Rufspiel" /\ Rufsau \in HandOf(ahand, vecstich, epi)) })'
  BY ActiveByHands, PTL
<1> QED
  BY <1>1, <1>2 DEF Rufsau, CardsPerPlayer, HandOf, PlayedBy, SeatAt, Seats

\* Doubling the stakes is doubling the stakes.
LEMMA StossIsStoss ==
  ASSUME DInv, NEW epi \in Seats, DoStoss(epi)
  PROVE  P!MayStoss(GamePhase, epi) /\ GamePhase' = P!AfterStoss(GamePhase)
<1>1. /\ UNCHANGED <<rules, ahand, vecstich>> /\ vecstoss' = Append(vecstoss, epi)
      /\ Len(vecstoss) < MaxStoss /\ StossAllowed(epi) /\ NoCardPlayed
  BY DEF DoStoss, MayStoss
<1>2. StichsInOrder /\ StichsInOrder' /\ vecstoss \in Seq(Seats) /\ rules \in GameRules
  BY NextIInv DEF DInv, FInv, IInv, StossOK, StichsInOrder, Next
<1>3. Len(vecstich) = 1 /\ CurrentStich.cards = <<>> /\ Len(vecstoss) \in Nat
  BY <1>1, <1>2 DEF NoCardPlayed
<1>4. CardsPlayed = 0
  BY <1>2, <1>3, PhaseByStichs, Constants
<1>5. GamePhase = [kind |-> "Game", asked |-> IF CardsPlayed < N * CardsPerPlayer THEN {Current} ELSE {},
                   active |-> Active, n_card |-> CardsPlayed, n_stoss |-> Len(vecstoss)]
  BY <1>2, PhaseByStichs
<1>6. Active # {} /\ (epi \in Active <=> Len(vecstoss) % 2 = 1)
  <2>1. \A e \in Seats : PlayedBy(vecstich, e) = {}
    <3>1. \A i \in 1 .. Len(vecstich) : vecstich[i].cards = <<>>
      BY <1>3 DEF CurrentStich
    <3> QED
      BY <3>1 DEF PlayedBy
  <2>2. rules.kind # "Ramsch" /\ rules.epi \in Seats
    BY <1>1, <1>2, Constants, CardPlayAssumption DEF StossAllowed, Seats
  <2>3. Active = { e \in Seats : e = rules.epi \/ (rules.kind = "Rufspiel" /\ Rufsau \in ahand[e]) }
    BY <1>2, <2>1, ActiveByHands DEF HandOf
  <2> QED
    BY <1>1, <2>2, <2>3 DEF StossAllowed
<1>7. P!MayStoss(GamePhase, epi)
  BY <1>1, <1>4, <1>5, <1>6 DEF P!MayStoss
<1>8. GamePhase' = [GamePhase EXCEPT !.n_stoss = @ + 1]
  <2>1. /\ CardsPlayed' = CardsPlayed /\ Active' = Active /\ Current' = Current
    BY <1>1 DEF CardsPlayed, Active, Current, Dealt, CompletedStichs, CurrentStich, CardOf, SeatAt, Rufsau
  <2>2. Len(vecstoss') = Len(vecstoss) + 1
    BY <1>1, <1>2
  <2>3. GamePhase' = [kind |-> "Game", asked |-> IF CardsPlayed < N * CardsPerPlayer THEN {Current} ELSE {},
                      active |-> Active, n_card |-> CardsPlayed, n_stoss |-> Len(vecstoss) + 1]
    BY <1>2, <2>1, <2>2, NextPhase
  <2> DEFINE asked == IF CardsPlayed < N * CardsPerPlayer THEN {Current} ELSE {}
  <2> HIDE DEF asked
  <2>4. GamePhase = [kind |-> "Game", asked |-> asked, active |-> Active, n_card |-> CardsPlayed,
                     n_stoss |-> Len(vecstoss)]
    BY <1>5 DEF asked
  <2>5. GamePhase' = [kind |-> "Game", asked |-> asked, active |-> Active, n_card |-> CardsPlayed,
                      n_stoss |-> Len(vecstoss) + 1]
    BY <2>3 DEF asked
  <2> QED
    BY <2>4, <2>5
<1> QED
  BY <1>7, <1>8 DEF P!AfterStoss

\* A card is an answer of the seat that is asked: the next one follows around the table,
\* and after a full Stich it is some seat.
LEMMA ZugebenIsAnswer ==
  ASSUME DInv, NEW epi \in Seats, NEW card \in ahand[epi], Zugeben(epi, card)
  PROVE  epi \in GamePhase.asked /\ GamePhase' \in P!AfterAnswer(GamePhase, epi)
<1> DEFINE m == Len(vecstich)
           n == Len(CurrentStich.cards)
<1>1. StichsInOrder /\ StichsInOrder' /\ NoCardLost(ahand, vecstich) /\ m \in Nat /\ m > 0
  BY NextIInv DEF DInv, FInv, IInv, StichsInOrder, Next
<1>2. /\ card \in Deck /\ m <= CardsPerPlayer /\ CurrentStich \in Stiche
      /\ n \in 0 .. N - 1 /\ epi = Current /\ rules' = rules /\ vecstoss' = vecstoss
      /\ vecstich' = StichsAfter(card)
  <2>1. card \in Deck /\ m <= CardsPerPlayer /\ CurrentStich \in Stiche
    BY <1>1, ZugebenStep
  <2>2. n \in 0 .. N - 1
    BY <1>1, <2>1, Constants DEF Stiche, StichsInOrder
  <2> QED
    BY <2>1, <2>2 DEF Zugeben
<1>3. CardsPlayed = N * (m - 1) + n /\ CardsPlayed \in Nat /\ CardsPlayed < N * CardsPerPlayer
  <2>1. CardsPlayed = N * (m - 1) + n
    BY <1>1, PhaseByStichs
  <2>2. m - 1 \in Nat /\ m - 1 < CardsPerPlayer
    BY <1>1, <1>2, Constants
  <2> HIDE DEF m, n
  <2>3. N * (m - 1) + n \in Nat /\ N * (m - 1) + n < N * CardsPerPlayer
    BY <1>2, <2>2, CountedByStichs, Constants
  <2> QED
    BY <2>1, <2>3
<1>4. GamePhase = [kind |-> "Game", asked |-> {epi}, active |-> Active, n_card |-> CardsPlayed,
                   n_stoss |-> Len(vecstoss)]
  BY <1>1, <1>2, <1>3, PhaseByStichs
<1>5. Active' = Active
  BY <1>1, <1>2, ActiveByHands, NextPhase, ZugebenLosesNone DEF Rufsau
<1> DEFINE before == N * (m - 1)
<1>6. CardsPlayed = before + n /\ before \in Nat
  <2>1. m - 1 \in Nat
    BY <1>1
  <2> HIDE DEF m
  <2> QED
    BY <1>3, <2>1, Constants
<1> DEFINE next == IF (CardsPlayed + 1) % N = 0 THEN P!Seats ELSE {P!NextSeat(epi)}
<1>7. /\ CardsPlayed' = N * (Len(vecstich') - 1) + Len(CurrentStich'.cards)
      /\ CurrentStich' = vecstich'[Len(vecstich')]
  BY <1>1, NextPhase DEF CurrentStich
<1>8. CardsPlayed' = CardsPlayed + 1 /\ Current' \in next
  <2>1. /\ StichWith(card).cards = Append(CurrentStich.cards, card) /\ Len(StichWith(card).cards) = n + 1
        /\ StichWith(card).epi_first = CurrentStich.epi_first /\ vecstich'[m] = StichWith(card)
        /\ StichWith(card) \in Stiche
    BY <1>1, <1>2, StichsAfterCard
  <2>2. CASE n + 1 < N
    <3>1. Len(vecstich') = m
      BY <1>1, <1>2, <2>1, <2>2, StichsAfterCard
    <3>2. CurrentStich' = StichWith(card)
      BY <1>7, <2>1, <3>1
    <3>3. CardsPlayed' = CardsPlayed + 1
      <4>1. CardsPlayed' = before + (n + 1)
        BY <1>7, <2>1, <3>1, <3>2
      <4> HIDE DEF before, n
      <4> QED
        BY <1>2, <1>6, <4>1
    <3>4. (CardsPlayed + 1) % N = n + 1
      <4>1. m - 1 \in Nat /\ n + 1 \in 0 .. N - 1
        BY <1>1, <1>2, <2>2, Constants
      <4>2. (N * (m - 1) + (n + 1)) % N = n + 1
        BY <4>1, CountedByStichs
      <4> HIDE DEF n
      <4>3. CardsPlayed + 1 = before + (n + 1)
        <5> HIDE DEF before
        <5> QED
          BY <1>2, <1>6
      <4> QED
        BY <4>2, <4>3
    <3>5. Current' = SeatAt(StichWith(card), n + 2)
      <4>1. Current' = SeatAt(CurrentStich', Len(CurrentStich'.cards) + 1)
        BY DEF Current, SeatAt
      <4> QED
        BY <1>2, <2>1, <3>2, <4>1
    <3>6. Current' = (epi + 1) % N
      <4> DEFINE first == CurrentStich.epi_first
      <4>1. first \in Seats /\ n \in Seats
        BY <1>2 DEF Stiche, Seats
      <4>2. epi = (first + n) % N /\ Current' = (first + (n + 1)) % N
        BY <1>2, <2>1, <3>5, <4>1 DEF Current, SeatAt, Seats
      <4>3. n + 1 \in Seats /\ 1 \in Seats
        BY <1>2, <2>2, Constants DEF Seats
      <4>4. epi = IF first + n < N THEN first + n ELSE first + n - N
        BY <4>1, <4>2, ModuloOfRound
      <4>5. Current' = IF first + (n + 1) < N THEN first + (n + 1) ELSE first + (n + 1) - N
        BY <4>1, <4>2, <4>3, ModuloOfRound
      <4>6. (epi + 1) % N = IF epi + 1 < N THEN epi + 1 ELSE epi + 1 - N
        BY <4>3, ModuloOfRound
      <4> HIDE DEF first, n
      <4> QED
        BY <4>1, <4>4, <4>5, <4>6, Constants DEF Seats
    <3> QED
      BY <1>2, <3>3, <3>4, <3>6 DEF P!NextSeat
  <2>3. CASE n + 1 = N
    <3>1. /\ Len(vecstich') = m + 1
          /\ vecstich'[m + 1] = Stich(PreliminaryWinner(StichWith(card)), <<>>)
          /\ \E k \in 1 .. N : PreliminaryWinner(StichWith(card)) = SeatAt(StichWith(card), k)
      BY <1>1, <1>2, <2>1, <2>3, StichsAfterCard
    <3>2. CurrentStich'.cards = <<>> /\ CurrentStich'.epi_first \in Seats
      BY <1>7, <2>1, <3>1, SeatsOfStich DEF Stich
    <3>3. CardsPlayed' = N * m
      <4>1. Len(CurrentStich'.cards) = 0 /\ Len(vecstich') - 1 = m
        BY <1>1, <3>1, <3>2
      <4>2. CardsPlayed' = N * m + 0 /\ N * m \in Nat
        BY <1>1, <1>7, <4>1, Constants
      <4> HIDE DEF m
      <4> QED
        BY <4>2
    <3>4. N * m = before + N
      BY <1>1, Constants
    <3>5. CardsPlayed + 1 = N * m
      <4> HIDE DEF before, n, m
      <4> QED
        BY <1>2, <1>6, <2>3, <3>4, Constants
    <3>6. (N * m) % N = 0
      <4>1. (N * m + 0) % N = 0
        BY <1>1, Constants, CountedByStichs
      <4> QED
        BY <1>1, <4>1, Constants
    <3>7. Current' \in Seats
      <4>1. Current' = SeatAt(CurrentStich', Len(CurrentStich'.cards) + 1)
        BY DEF Current, SeatAt
      <4>2. Current' = (CurrentStich'.epi_first + 0) % N
        BY <3>2, <4>1 DEF SeatAt, Seats
      <4>3. 0 \in Seats
        BY Constants DEF Seats
      <4> QED
        BY <3>2, <4>2, <4>3, ModuloOfRound, Constants DEF Seats
    <3> QED
      BY <3>3, <3>5, <3>6, <3>7 DEF P!Seats, Seats
  <2> QED
    BY <1>2, <2>2, <2>3, Constants
<1>9. GamePhase' = P!Game(Active, Current', CardsPlayed + 1, Len(vecstoss))
  BY <1>1, <1>2, <1>5, <1>8, NextPhase DEF P!Game
<1>10. GamePhase' \in P!AfterDefault(GamePhase, epi)
  BY <1>4, <1>8, <1>9 DEF P!AfterDefault
<1> QED
  BY <1>4, <1>10 DEF P!AfterAnswer

\* SGame behaves as the Game that a table goes through: its steps are doublings and
\* answers of the seat that is asked, and nothing else happens to a Game.
THEOREM GameIsGamePhase == Spec => PlaysAsGamePhase
<1>1. DInv /\ [Next]_vars =>
        [ \/ \E epi \in Seats : P!MayStoss(GamePhase, epi) /\ GamePhase' = P!AfterStoss(GamePhase)
          \/ \E epi \in GamePhase.asked : GamePhase' \in P!AfterAnswer(GamePhase, epi) ]_vars
  <2> SUFFICES ASSUME DInv, Next
               PROVE  [ \/ \E epi \in Seats : P!MayStoss(GamePhase, epi) /\ GamePhase' = P!AfterStoss(GamePhase)
                        \/ \E epi \in GamePhase.asked : GamePhase' \in P!AfterAnswer(GamePhase, epi) ]_vars
    OBVIOUS
  <2>1. ASSUME NEW epi \in Seats, DoStoss(epi)
        PROVE  P!MayStoss(GamePhase, epi) /\ GamePhase' = P!AfterStoss(GamePhase)
    BY <2>1, StossIsStoss
  <2>2. ASSUME NEW epi \in Seats, NEW card \in ahand[epi], Zugeben(epi, card)
        PROVE  epi \in GamePhase.asked /\ GamePhase' \in P!AfterAnswer(GamePhase, epi)
    BY <2>2, ZugebenIsAnswer
  <2> QED
    BY <2>1, <2>2 DEF Next, Finished
<1> QED
  BY <1>1, InitDInv, NextDInv, PTL DEF Spec, PlaysAsGamePhase
------------------------------------------------------------------------------
(***************************************************************************)
(* The Rufsau is found: the first time its Farbe is led, it falls, or its  *)
(* holder has run away with it.  While that Stich is on the table there is *)
(* a third case, which the invariant needs: the holder has not played yet. *)
(* When it does, the rules leave it the Rufsau only.                       *)
(***************************************************************************)
Sau(r) == Card(r.farbe, "Ass")

OfRuffarbe(r, card) == TrumpfOrFarbe(r.decider, card) = r.farbe

\* Stich i is the first one led with the Ruffarbe, and the Rufsau did not fall before
RuffarbeFirstLed(r, stichs, i) ==
  /\ Len(stichs[i].cards) > 0
  /\ OfRuffarbe(r, stichs[i].cards[1])
  /\ \A k \in 1 .. i - 1 : /\ ~ OfRuffarbe(r, stichs[k].cards[1])
                           /\ \A l \in 1 .. Len(stichs[k].cards) : stichs[k].cards[l] # Sau(r)

PlayedBefore(stichs, i, epi) ==
  { card \in Deck : \E k \in 1 .. i - 1 : \E l \in 1 .. Len(stichs[k].cards) :
                      SeatAt(stichs[k], l) = epi /\ stichs[k].cards[l] = card }

\* what epi held when Stich i began
HeldAt(hands, stichs, i, epi) == HandOf(hands, stichs, epi) \ PlayedBefore(stichs, i, epi)

RanAway(r, hands, stichs, i) ==
  LET held == HeldAt(hands, stichs, i, stichs[i].epi_first)
  IN  Sau(r) \in held /\ RunAway <= Cardinality({ card \in held : OfRuffarbe(r, card) })

Fallen(r, stichs, i) == \E j \in 1 .. Len(stichs[i].cards) : stichs[i].cards[j] = Sau(r)

StillToPlay(r, hands, stichs, i) ==
  /\ i = Len(stichs)
  /\ \E epi \in Seats : /\ Sau(r) \in hands[epi]
                        /\ \A j \in 1 .. Len(stichs[i].cards) : SeatAt(stichs[i], j) # epi

Found(r, hands, stichs) ==
  r.kind = "Rufspiel" =>
    \A i \in 1 .. Len(stichs) : RuffarbeFirstLed(r, stichs, i) =>
      RanAway(r, hands, stichs, i) \/ Fallen(r, stichs, i) \/ StillToPlay(r, hands, stichs, i)

RInv == DInv /\ Found(rules, ahand, vecstich)

------------------------------------------------------------------------------
(***************************************************************************)
(* What the rules leave the holder of the Rufsau.                          *)
(***************************************************************************)
\* Who has the Rufsau when its Farbe is led, and has not run away, plays it.
LEMMA HolderGivesRufsau ==
  ASSUME rules.kind = "Rufspiel", CurrentStich.cards # <<>>, NEW epi, IsFiniteSet(ahand[epi]),
         Rufsau \in ahand[epi], IsRuffarbe(First(CurrentStich)), ~ HasRunAway(epi),
         NEW card \in AllAllowedCards(epi)
  PROVE  card = Rufsau
<1>1. card \in RufspielWithin(epi, ahand[epi])
  BY DEF AllAllowedCards
<1>2. CASE Cardinality(ahand[epi]) <= 1
  <2>1. card \in ahand[epi]
    BY AllowedIsOnHand
  <2>2. Cardinality({card, Rufsau}) <= Cardinality(ahand[epi])
    BY <2>1, FS_Subset
  <2>3. ASSUME card # Rufsau PROVE Cardinality({card, Rufsau}) = 2
    <3>1. Cardinality({card}) = 1 /\ IsFiniteSet({card})
      BY FS_Singleton
    <3>2. {card} \cup {Rufsau} = {card, Rufsau} /\ Rufsau \notin {card}
      BY <2>3
    <3>3. Cardinality({card} \cup {Rufsau}) = Cardinality({card}) + 1
      BY <3>1, <3>2, FS_AddElement
    <3>4. Cardinality({card, Rufsau}) = Cardinality({card}) + 1
      BY <3>2, <3>3
    <3> QED
      BY <3>1, <3>4
  <2>4. Cardinality(ahand[epi]) \in Nat
    BY FS_CardinalityType
  <2> QED
    BY <1>2, <2>2, <2>3, <2>4
<1>3. CASE ~ (Cardinality(ahand[epi]) <= 1)
  BY <1>1, <1>3 DEF RufspielWithin
<1> QED
  BY <1>2, <1>3

\* Who has the Rufsau and leads its Farbe before anybody else leads the Rufsau itself, or
\* has the cards to run away.
LEMMA HolderLeads ==
  ASSUME rules.kind = "Rufspiel", CurrentStich.cards = <<>>, NEW epi, ~ RufsauKnown,
         Rufsau \in ahand[epi], NEW card \in AllAllowedCards(epi), IsRuffarbe(card)
  PROVE  card = Rufsau \/ RunAway <= Cardinality({ c \in ahand[epi] : IsRuffarbe(c) })
<1>1. card \in RufspielFirst(ahand[epi])
  BY DEF AllAllowedCards
<1> QED
  BY <1>1 DEF RufspielFirst

\* The Stichs after a card, once more: all stay as they are, the current one has a card more.
LEMMA StichsStay ==
  ASSUME StichsInOrder, NEW epi \in Seats, NEW card, Zugeben(epi, card)
  PROVE  LET m == Len(vecstich)
             n == Len(CurrentStich.cards)
         IN  /\ m \in Nat /\ m > 0 /\ n \in Nat /\ n < N
             /\ CurrentStich = vecstich[m] /\ CurrentStich \in Stiche /\ CurrentStich.cards \in Seq(Deck)
             /\ card \in Deck /\ card \in ahand[epi] /\ epi = SeatAt(CurrentStich, n + 1)
             /\ \A k \in 1 .. m - 1 : vecstich'[k] = vecstich[k]
             /\ vecstich'[m].epi_first = vecstich[m].epi_first
             /\ Len(vecstich'[m].cards) = n + 1
             /\ vecstich'[m].cards[n + 1] = card
             /\ \A j \in 1 .. n : vecstich'[m].cards[j] = vecstich[m].cards[j]
             /\ n + 1 < N => Len(vecstich') = m
<1> DEFINE m == Len(vecstich)
           n == Len(CurrentStich.cards)
<1>1. /\ m \in Nat /\ m > 0 /\ n \in Nat /\ n < N
      /\ CurrentStich = vecstich[m] /\ CurrentStich \in Stiche /\ CurrentStich.cards \in Seq(Deck)
      /\ card \in Deck /\ card \in ahand[epi] /\ epi = SeatAt(CurrentStich, n + 1)
  BY ZugebenStep DEF StichsInOrder, Stiche
<1>2. vecstich' = StichsAfter(card)
  BY DEF Zugeben
<1>3. /\ vecstich'[m] = StichWith(card)
      /\ StichWith(card).epi_first = CurrentStich.epi_first
      /\ StichWith(card).cards = Append(CurrentStich.cards, card)
      /\ \A k \in 1 .. m - 1 : vecstich'[k] = vecstich[k]
      /\ Len(StichWith(card).cards) = n + 1
  BY <1>1, <1>2, StichsAfterCard
<1>4. n + 1 < N => Len(vecstich') = m
  BY <1>1, <1>2, <1>3, StichsAfterCard
<1>5. /\ vecstich'[m].cards[n + 1] = card
      /\ \A j \in 1 .. n : vecstich'[m].cards[j] = vecstich[m].cards[j]
  BY <1>1, <1>3
<1> QED
  BY <1>1, <1>3, <1>4, <1>5

------------------------------------------------------------------------------
(***************************************************************************)
(* The invariant.                                                          *)
(***************************************************************************)
\* A card keeps it: the holder that had still to play plays the Rufsau, and who leads the
\* Farbe first is the holder that runs away, or leaves the holder to play.
LEMMA ZugebenKeepsFound ==
  ASSUME DInv, Found(rules, ahand, vecstich), NEW epi \in Seats, NEW card, Zugeben(epi, card)
  PROVE  Found(rules', ahand', vecstich')
<1> DEFINE m == Len(vecstich)
           n == Len(CurrentStich.cards)
<1>1. /\ StichsInOrder /\ NoCardLost(ahand, vecstich) /\ rules \in GameRules
      /\ ahand \in [Seats -> SUBSET Deck]
  BY DEF DInv, FInv, IInv, StichsInOrder
<1>2. /\ m \in Nat /\ m > 0 /\ n \in Nat /\ n < N
      /\ CurrentStich = vecstich[m] /\ CurrentStich \in Stiche /\ CurrentStich.cards \in Seq(Deck)
      /\ card \in Deck /\ card \in ahand[epi] /\ epi = SeatAt(CurrentStich, n + 1)
      /\ \A k \in 1 .. m - 1 : vecstich'[k] = vecstich[k]
      /\ vecstich'[m].epi_first = vecstich[m].epi_first
      /\ Len(vecstich'[m].cards) = n + 1
      /\ vecstich'[m].cards[n + 1] = card
      /\ \A j \in 1 .. n : vecstich'[m].cards[j] = vecstich[m].cards[j]
      /\ n + 1 < N => Len(vecstich') = m
  BY <1>1, StichsStay
<1>3. /\ rules' = rules /\ card \in AllAllowedCards(epi)
      /\ \A e \in Seats : ahand'[e] = IF e = epi THEN ahand[e] \ {card} ELSE ahand[e]
  BY <1>1, CardMoves DEF Zugeben
<1> SUFFICES ASSUME rules.kind = "Rufspiel", NEW i \in 1 .. Len(vecstich'),
                    RuffarbeFirstLed(rules, vecstich', i)
             PROVE  \/ RanAway(rules, ahand', vecstich', i)
                    \/ Fallen(rules, vecstich', i)
                    \/ StillToPlay(rules, ahand', vecstich', i)
  BY <1>3 DEF Found
<1>4. i \in 1 .. m
  <2>1. 1 \in 1 .. Len(vecstich'[i].cards)
    <3>1. Len(vecstich'[i].cards) > 0 /\ vecstich' \in Seq(Stiche)
      <4>1. IInv /\ Next
        BY <1>2 DEF DInv, FInv, Next
      <4>2. vecstich' \in Seq(Stiche)
        BY <4>1, NextIInv DEF IInv, StichsInOrder, Stiche, Seats
      <4> QED
        BY <4>2 DEF RuffarbeFirstLed
    <3>2. Len(vecstich'[i].cards) \in Nat
      BY <3>1 DEF Stiche
    <3> QED
      BY <3>1, <3>2
  <2> QED
    BY <1>1, <2>1, PlacesAfterCard
<1>5. \A k \in 1 .. i - 1 : k \in 1 .. m - 1 /\ vecstich'[k] = vecstich[k]
  BY <1>2, <1>4
<1>6. vecstich'[i].epi_first = vecstich[i].epi_first /\ vecstich[i].epi_first \in Seats
  <2>1. vecstich[i] \in Stiche
    BY <1>1, <1>4 DEF StichsInOrder
  <2> QED
    BY <1>2, <1>4, <2>1, SMTT(60) DEF Stiche
<1>7. RanAway(rules, ahand, vecstich, i) => RanAway(rules, ahand', vecstich', i)
  <2> DEFINE e == vecstich[i].epi_first
  <2>1. PlayedBefore(vecstich', i, e) = PlayedBefore(vecstich, i, e)
    BY <1>5 DEF PlayedBefore
  <2>2. HandOf(ahand', vecstich', e) = HandOf(ahand, vecstich, e)
    BY <1>1, <1>6, ZugebenLosesNone
  <2> QED
    BY <1>6, <2>1, <2>2 DEF RanAway, HeldAt
<1>8. ASSUME card = Rufsau, i = m PROVE Fallen(rules, vecstich', i)
  <2>1. n + 1 \in 1 .. Len(vecstich'[i].cards) /\ vecstich'[i].cards[n + 1] = Sau(rules)
    BY <1>2, <1>8 DEF Sau, Rufsau
  <2> QED
    BY <2>1 DEF Fallen
<1>9. \A k \in 1 .. Len(CompletedStichs) : k \in 1 .. m - 1 /\ CompletedStichs[k] = vecstich[k]
  BY <1>1, CompletedAreFirst
<1>10. CASE i = m /\ n = 0
  <2>1. OfRuffarbe(rules, card) /\ CurrentStich.cards = <<>>
    BY <1>2, <1>10 DEF RuffarbeFirstLed
  <2>2. \A k \in 1 .. m - 1 : /\ ~ OfRuffarbe(rules, vecstich[k].cards[1])
                             /\ \A l \in 1 .. Len(vecstich[k].cards) : vecstich[k].cards[l] # Rufsau
    <3> SUFFICES ASSUME NEW k \in 1 .. m - 1
                 PROVE  /\ ~ OfRuffarbe(rules, vecstich[k].cards[1])
                        /\ \A l \in 1 .. Len(vecstich[k].cards) : vecstich[k].cards[l] # Rufsau
      OBVIOUS
    <3>1. k \in 1 .. i - 1 /\ vecstich'[k] = vecstich[k]
      BY <1>5, <1>10
    <3>2. /\ ~ OfRuffarbe(rules, vecstich'[k].cards[1])
          /\ \A l \in 1 .. Len(vecstich'[k].cards) : vecstich'[k].cards[l] # Rufsau
      BY <3>1 DEF RuffarbeFirstLed, Sau, Rufsau
    <3> QED
      BY <3>1, <3>2
  <2>3. \A e \in Seats : PlayedBy(vecstich, e) = PlayedBefore(vecstich, m, e)
    <3>1. \A k \in 1 .. m : k \in 1 .. m - 1 \/ Len(vecstich[k].cards) = 0
      BY <1>2, <1>10
    <3>2. \A k \in 1 .. m - 1 : k \in 1 .. m
      BY <1>2
    <3> SUFFICES ASSUME NEW e \in Seats, NEW c \in Deck
                 PROVE  c \in PlayedBy(vecstich, e) <=> c \in PlayedBefore(vecstich, m, e)
      BY DEF PlayedBy, PlayedBefore
    <3>3. ASSUME c \in PlayedBy(vecstich, e) PROVE c \in PlayedBefore(vecstich, m, e)
      <4>1. PICK k \in 1 .. m : \E l \in 1 .. Len(vecstich[k].cards) :
              SeatAt(vecstich[k], l) = e /\ vecstich[k].cards[l] = c
        BY <3>3 DEF PlayedBy
      <4>2. k \in 1 .. m - 1
        BY <3>1, <4>1
      <4> QED
        BY <4>1, <4>2 DEF PlayedBefore
    <3>4. ASSUME c \in PlayedBefore(vecstich, m, e) PROVE c \in PlayedBy(vecstich, e)
      BY <3>2, <3>4 DEF PlayedBy, PlayedBefore
    <3> QED
      BY <3>3, <3>4
  <2>4. \A e \in Seats : Rufsau \notin PlayedBy(vecstich, e)
    BY <2>2, <2>3 DEF PlayedBefore
  <2>5. PICK h \in Seats : Rufsau \in ahand[h]
    <3>1. Rufsau \in Deck
      BY <1>1, CardPlayAssumption DEF Rufsau
    <3>2. \E h \in Seats : Rufsau \in HandOf(ahand, vecstich, h)
      BY <1>1, <3>1 DEF NoCardLost, IsDeal
    <3> QED
      BY <2>4, <3>2 DEF HandOf
  <2>6. CASE h = epi
    <3>1. ~ RufsauKnown
      <4>1. \A k \in 1 .. Len(CompletedStichs) : Rufsau \notin Elements(CompletedStichs[k].cards)
        BY <1>9, <2>2 DEF Elements
      <4>2. \A k \in 1 .. Len(CompletedStichs) : ~ IsRuffarbe(First(CompletedStichs[k]))
        BY <1>9, <2>2 DEF IsRuffarbe, Suit, First, OfRuffarbe
      <4> QED
        BY <4>1, <4>2 DEF RufsauKnown
    <3>2. card = Rufsau \/ RunAway <= Cardinality({ c \in ahand[epi] : IsRuffarbe(c) })
      BY <1>3, <2>1, <2>5, <2>6, <3>1, HolderLeads DEF OfRuffarbe, IsRuffarbe, Suit
    <3>3. HeldAt(ahand, vecstich, m, epi) = ahand[epi]
      <4>1. ahand[epi] \cap PlayedBy(vecstich, epi) = {}
        BY <1>1 DEF NoCardLost
      <4> QED
        BY <2>3, <4>1 DEF HeldAt, HandOf
    <3>4. vecstich[m].epi_first = epi
      <4>1. vecstich[m].epi_first \in Seats /\ 0 \in Seats /\ vecstich[m].epi_first + 0 = vecstich[m].epi_first
        BY <1>2, Constants DEF Stiche, Seats
      <4>2. epi = (vecstich[m].epi_first + 0) % N
        BY <1>2, <1>10, <4>1, Constants DEF SeatAt, Seats
      <4>3. (vecstich[m].epi_first + 0) % N = vecstich[m].epi_first
        <5> HIDE DEF m
        <5>1. (vecstich[m].epi_first + 0) % N =
                IF vecstich[m].epi_first + 0 < N THEN vecstich[m].epi_first + 0
                ELSE vecstich[m].epi_first + 0 - N
          BY <4>1, ModuloOfRound
        <5> QED
          BY <4>1, <5>1, Constants DEF Seats
      <4> QED
        BY <4>2, <4>3, <4>1
    <3>5. RunAway <= Cardinality({ c \in ahand[epi] : IsRuffarbe(c) }) => RanAway(rules, ahand, vecstich, m)
      BY <2>5, <2>6, <3>3, <3>4 DEF RanAway, OfRuffarbe, IsRuffarbe, Suit, Sau, Rufsau
    <3> QED
      BY <1>7, <1>8, <1>10, <3>2, <3>5
  <2>7. CASE h # epi
    <3>1. Sau(rules) \in ahand'[h]
      BY <1>3, <2>5, <2>7 DEF Sau, Rufsau
    <3>2. Len(vecstich') = m
      BY <1>2, <1>10, Constants
    <3>3. \A j \in 1 .. Len(vecstich'[m].cards) : SeatAt(vecstich'[m], j) # h
      BY <1>2, <1>10, <2>7 DEF SeatAt
    <3> QED
      BY <1>10, <3>1, <3>2, <3>3 DEF StillToPlay
  <2> QED
    BY <2>6, <2>7
<1>11. CASE i # m \/ n > 0
  <2>1. RuffarbeFirstLed(rules, vecstich, i)
    <3>1. Len(vecstich[i].cards) > 0 /\ OfRuffarbe(rules, vecstich[i].cards[1])
      <4>1. Len(vecstich'[i].cards) > 0 /\ OfRuffarbe(rules, vecstich'[i].cards[1])
        BY DEF RuffarbeFirstLed
      <4>2. CASE i = m
        <5>1. 1 \in 1 .. n /\ Len(vecstich[m].cards) = n
          BY <1>2, <1>11, <4>2
        <5>2. vecstich'[m].cards[1] = vecstich[m].cards[1]
          BY <1>2, <5>1
        <5> QED
          BY <1>2, <4>1, <4>2, <5>1, <5>2
      <4>3. CASE i # m
        <5>1. i \in 1 .. m - 1
          BY <1>2, <1>4, <4>3
        <5>2. vecstich'[i] = vecstich[i]
          BY <1>2, <5>1
        <5> QED
          BY <4>1, <5>2
      <4> QED
        BY <4>2, <4>3
    <3>2. ASSUME NEW k \in 1 .. i - 1
          PROVE  /\ ~ OfRuffarbe(rules, vecstich[k].cards[1])
                 /\ \A l \in 1 .. Len(vecstich[k].cards) : vecstich[k].cards[l] # Sau(rules)
      <4>1. vecstich'[k] = vecstich[k]
        BY <1>5
      <4>2. /\ ~ OfRuffarbe(rules, vecstich'[k].cards[1])
            /\ \A l \in 1 .. Len(vecstich'[k].cards) : vecstich'[k].cards[l] # Sau(rules)
        BY DEF RuffarbeFirstLed
      <4> QED
        BY <4>1, <4>2
    <3> QED
      BY <3>1, <3>2 DEF RuffarbeFirstLed
  <2>2. \/ RanAway(rules, ahand, vecstich, i)
        \/ Fallen(rules, vecstich, i)
        \/ StillToPlay(rules, ahand, vecstich, i)
    BY <1>4, <2>1 DEF Found
  <2>3. Fallen(rules, vecstich, i) => Fallen(rules, vecstich', i)
    <3> SUFFICES ASSUME NEW j \in 1 .. Len(vecstich[i].cards), vecstich[i].cards[j] = Sau(rules)
                 PROVE  Fallen(rules, vecstich', i)
      BY DEF Fallen
    <3>1. j \in 1 .. Len(vecstich'[i].cards) /\ vecstich'[i].cards[j] = Sau(rules)
      <4>1. CASE i = m
        BY <1>2, <4>1
      <4>2. CASE i # m
        BY <1>2, <1>4, <4>2
      <4> QED
        BY <4>1, <4>2
    <3> QED
      BY <3>1 DEF Fallen
  <2>4. ASSUME StillToPlay(rules, ahand, vecstich, i)
        PROVE  Fallen(rules, vecstich', i) \/ StillToPlay(rules, ahand', vecstich', i)
    <3>1. PICK h \in Seats : /\ Rufsau \in ahand[h]
                             /\ \A j \in 1 .. n : SeatAt(vecstich[m], j) # h
      BY <1>2, <2>4 DEF StillToPlay, Sau, Rufsau
    <3>2. i = m /\ n > 0
      BY <1>11, <2>4 DEF StillToPlay
    <3>3. CASE h = epi
      <4>1. CurrentStich.cards # <<>> /\ IsRuffarbe(First(CurrentStich))
        BY <1>2, <2>1, <3>2 DEF RuffarbeFirstLed, OfRuffarbe, IsRuffarbe, Suit, First
      <4>2. ~ HasRunAway(epi)
        BY <1>9, <2>1, <3>2 DEF RuffarbeFirstLed, OfRuffarbe, HasRunAway, IsRuffarbe, Suit, First
      <4>3. IsFiniteSet(ahand[epi])
        <5>1. ahand[epi] \in SUBSET Deck
          BY <1>1
        <5> QED
          BY <5>1, Constants, FS_Subset
      <4>4. card = Rufsau
        BY <1>3, <3>1, <3>3, <4>1, <4>2, <4>3, HolderGivesRufsau
      <4> QED
        BY <1>8, <3>2, <4>4
    <3>4. CASE h # epi
      <4>1. Sau(rules) \in ahand'[h]
        BY <1>3, <3>1, <3>4 DEF Sau, Rufsau
      <4>2. \A j \in 1 .. n + 1 : SeatAt(vecstich'[m], j) # h
        <5>1. \A j \in 1 .. n + 1 : SeatAt(vecstich'[m], j) = SeatAt(vecstich[m], j)
          BY <1>2 DEF SeatAt
        <5>2. \A j \in 1 .. n + 1 : j \in 1 .. n \/ j = n + 1
          BY <1>2
        <5> QED
          BY <1>2, <3>1, <3>4, <5>1, <5>2
      <4>3. Len(vecstich') = m
        <5>1. PICK k \in 1 .. N : SeatAt(vecstich[m], k) = h
          BY <1>2, SeatsOfStich
        <5>2. SeatAt(vecstich'[m], k) = h
          BY <1>2, <5>1 DEF SeatAt
        <5>3. k \notin 1 .. n + 1
          BY <4>2, <5>2
        <5> QED
          BY <1>2, <5>1, <5>3, Constants
      <4> QED
        BY <1>2, <3>2, <4>1, <4>2, <4>3 DEF StillToPlay
    <3> QED
      BY <3>3, <3>4
  <2> QED
    BY <1>7, <2>2, <2>3, <2>4
<1> QED
  BY <1>2, <1>10, <1>11

\* Before the first card no Farbe has been led.
LEMMA InitRInv == Init => RInv
<1> SUFFICES ASSUME Init PROVE RInv
  OBVIOUS
<1>1. Len(vecstich) = 1 /\ vecstich[1].cards = <<>>
  BY DEF Init, Stich
<1>2. \A i \in 1 .. Len(vecstich) : ~ RuffarbeFirstLed(rules, vecstich, i)
  BY <1>1 DEF RuffarbeFirstLed
<1> QED
  BY <1>2, InitDInv DEF RInv, Found

\* Every step keeps the invariant.
LEMMA NextRInv == RInv /\ [Next]_vars => RInv'
<1> SUFFICES ASSUME RInv, [Next]_vars PROVE RInv'
  OBVIOUS
<1>1. DInv /\ DInv' /\ Found(rules, ahand, vecstich)
  BY NextDInv DEF RInv
<1>2. Found(rules', ahand', vecstich')
  <2>1. CASE UNCHANGED <<rules, ahand, vecstich>>
    BY <1>1, <2>1
  <2>2. ASSUME NEW epi \in Seats, NEW card \in ahand[epi], Zugeben(epi, card)
        PROVE  Found(rules', ahand', vecstich')
    BY <1>1, <2>2, ZugebenKeepsFound
  <2> QED
    BY <2>1, <2>2 DEF Next, DoStoss, Finished, vars
<1>3. Found(rules, ahand, vecstich)'
  BY <1>2 DEF Found, RuffarbeFirstLed, OfRuffarbe, Sau, RanAway, HeldAt, HandOf, PlayedBy, PlayedBefore,
    Fallen, StillToPlay, SeatAt
<1> QED
  BY <1>1, <1>3 DEF RInv

------------------------------------------------------------------------------
(***************************************************************************)
(* The theorem.                                                            *)
(***************************************************************************)
\* What a seat held when a Stich began, by the Stichs before it.
LEMMA HeldSince ==
  ASSUME StichsInOrder, NEW i \in 1 .. Len(CompletedStichs), NEW epi \in Seats
  PROVE  Dealt(epi) \ { CardOf(CompletedStichs[j], epi) : j \in 1 .. i - 1 }
           = HeldAt(ahand, vecstich, i, epi)
<1>1. \A k \in 1 .. Len(CompletedStichs) :
        CompletedStichs[k] = vecstich[k] /\ vecstich[k] \in Stiche /\ Len(vecstich[k].cards) = N
  BY CompletedAreFirst DEF StichsInOrder
<1>2. \A k \in 1 .. i - 1 : k \in 1 .. Len(CompletedStichs)
  OBVIOUS
<1>3. \A k \in 1 .. i - 1 : \E l \in 1 .. Len(vecstich[k].cards) :
         SeatAt(vecstich[k], l) = epi /\ CardOf(CompletedStichs[k], epi) = vecstich[k].cards[l]
  BY <1>1, <1>2, PlaceOf
<1>4. \A k \in 1 .. i - 1 : \A l \in 1 .. Len(vecstich[k].cards) :
         SeatAt(vecstich[k], l) = epi => CardOf(CompletedStichs[k], epi) = vecstich[k].cards[l]
  BY <1>1, <1>2, SeatsOfStich DEF CardOf
<1>5. \A k \in 1 .. i - 1 : CardOf(CompletedStichs[k], epi) \in Deck
  BY <1>1, <1>2, <1>3 DEF Stiche
<1>6. { CardOf(CompletedStichs[j], epi) : j \in 1 .. i - 1 } = PlayedBefore(vecstich, i, epi)
  <2>1. ASSUME NEW k \in 1 .. i - 1 PROVE CardOf(CompletedStichs[k], epi) \in PlayedBefore(vecstich, i, epi)
    BY <1>3, <1>5 DEF PlayedBefore
  <2>2. ASSUME NEW c \in PlayedBefore(vecstich, i, epi)
        PROVE  \E k \in 1 .. i - 1 : c = CardOf(CompletedStichs[k], epi)
    BY <1>4 DEF PlayedBefore
  <2> QED
    BY <2>1, <2>2
<1> QED
  BY <1>6, DealtIsHand DEF HeldAt

\* The first time somebody leads the Ruffarbe the table learns who holds the Rufsau: it
\* falls in that Stich, or its holder led, with the cards that running away takes.
THEOREM TheRufsauIsFound == Spec => []RufsauIsFound
<1>1. RInv => RufsauIsFound
  <2> SUFFICES ASSUME RInv, rules.kind = "Rufspiel", NEW i \in 1 .. Len(CompletedStichs),
                      IsRuffarbe(Led(i)),
                      \A j \in 1 .. i - 1 : ~ IsRuffarbe(Led(j)) /\ Rufsau \notin Elements(CompletedStichs[j].cards)
               PROVE  \/ Rufsau \in Elements(CompletedStichs[i].cards)
                      \/ LET epi == CompletedStichs[i].epi_first
                             before == { CardOf(CompletedStichs[j], epi) : j \in 1 .. i - 1 }
                             since == Dealt(epi) \ before
                         IN  /\ Rufsau \in since
                             /\ Cardinality({ card \in since : IsRuffarbe(card) }) >= RunAway
    BY DEF RufsauIsFound
  <2>1. StichsInOrder /\ Found(rules, ahand, vecstich)
    BY DEF RInv, DInv, FInv, IInv
  <2>2. Len(vecstich) \in Nat /\ \A k \in 1 .. Len(CompletedStichs) :
          /\ k \in 1 .. Len(vecstich) - 1 /\ CompletedStichs[k] = vecstich[k]
          /\ vecstich[k] \in Stiche /\ Len(vecstich[k].cards) = N
    BY <2>1, CompletedAreFirst DEF StichsInOrder
  <2>3. RuffarbeFirstLed(rules, vecstich, i)
    <3>1. Len(vecstich[i].cards) > 0 /\ OfRuffarbe(rules, vecstich[i].cards[1])
      BY <2>2, Constants DEF Led, First, IsRuffarbe, Suit, OfRuffarbe
    <3>2. ASSUME NEW k \in 1 .. i - 1
          PROVE  /\ ~ OfRuffarbe(rules, vecstich[k].cards[1])
                 /\ \A l \in 1 .. Len(vecstich[k].cards) : vecstich[k].cards[l] # Sau(rules)
      <4>1. k \in 1 .. Len(CompletedStichs)
        OBVIOUS
      <4>2. ~ OfRuffarbe(rules, vecstich[k].cards[1])
        BY <2>2, <4>1 DEF Led, First, IsRuffarbe, Suit, OfRuffarbe
      <4>3. Rufsau \notin Elements(vecstich[k].cards)
        BY <2>2, <4>1
      <4>4. \A l \in 1 .. Len(vecstich[k].cards) : vecstich[k].cards[l] # Rufsau
        <5> HIDE DEF Rufsau
        <5> QED
          BY <4>3 DEF Elements
      <4> QED
        BY <4>2, <4>4 DEF Sau, Rufsau
    <3> QED
      BY <3>1, <3>2 DEF RuffarbeFirstLed
  <2>4. ~ StillToPlay(rules, ahand, vecstich, i) /\ i \in 1 .. Len(vecstich)
    BY <2>2 DEF StillToPlay
  <2>5. RanAway(rules, ahand, vecstich, i) \/ Fallen(rules, vecstich, i)
    BY <2>1, <2>3, <2>4 DEF Found
  <2>6. Fallen(rules, vecstich, i) => Rufsau \in Elements(CompletedStichs[i].cards)
    BY <2>2 DEF Fallen, Elements, Sau, Rufsau
  <2>7. CASE RanAway(rules, ahand, vecstich, i)
    <3> DEFINE epi == vecstich[i].epi_first
    <3>1. epi \in Seats
      BY <2>2 DEF Stiche
    <3>2. Dealt(epi) \ { CardOf(CompletedStichs[j], epi) : j \in 1 .. i - 1 } = HeldAt(ahand, vecstich, i, epi)
      BY <2>1, <3>1, HeldSince
    <3>3. { card \in HeldAt(ahand, vecstich, i, epi) : IsRuffarbe(card) }
            = { card \in HeldAt(ahand, vecstich, i, epi) : OfRuffarbe(rules, card) }
      BY DEF IsRuffarbe, Suit, OfRuffarbe
    <3>4. /\ Rufsau \in HeldAt(ahand, vecstich, i, epi)
          /\ RunAway <= Cardinality({ card \in HeldAt(ahand, vecstich, i, epi) : IsRuffarbe(card) })
      BY <2>7, <3>3 DEF RanAway, Sau, Rufsau
    <3> QED
      BY <2>2, <3>2, <3>4
  <2> QED
    BY <2>5, <2>6, <2>7
<1> QED
  BY <1>1, InitRInv, NextRInv, PTL DEF Spec
==============================================================================
