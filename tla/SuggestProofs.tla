----------------------------- MODULE SuggestProofs -----------------------------
(***************************************************************************)
(* Theorems about the suggestion of a card (Suggest and GameTree) and what *)
(* it computes with (MinMax).                                              *)
(*                                                                         *)
(* The hands: what is pulled from the iterator is a distribution of the    *)
(* cards that were not played (PulledInv), and what was checked when it    *)
(* was pulled says what the cards seen so far say of it.  Where all hands  *)
(* are searched, OrderInv says which were pulled: those of the orders of   *)
(* the seats that come before the current one and that passed.             *)
(*                                                                         *)
(* The searches: a search keeps no history, it takes back what it did.     *)
(* The invariant SearchInv gives it one: the positions from the one where  *)
(* it began to the one where it is (OnLine), one card apart, and each      *)
(* waiting call knows what leads from its position to the next one, so     *)
(* that taking the card back leads to the position before.                 *)
(*                                                                         *)
(* The workers: CountInv says which hands the statistics of a card count,  *)
(* with the hands that each worker has and the values that were found.     *)
(***************************************************************************)
EXTENDS GameTree, FiniteSetTheorems, SequenceTheorems, WellFoundedInduction, TLAPS

(***************************************************************************)
(* Recursion along a sequence, with each step given as a function.         *)
(***************************************************************************)
\* Every set of numbers that has an element has a least one.
LEMMA LeastOf ==
  ASSUME NEW T \in SUBSET Nat, T # {}
  PROVE  \E m \in T : \A k \in T : m <= k
<1>1. PICK m \in T : \A k \in T : ~ (<<k, m>> \in OpToRel(<, Nat))
  BY WFMin, NatLessThanWellFounded
<1>2. ASSUME NEW k \in T
      PROVE  m <= k
  <2>1. ~ (k < m)
    BY <1>1 DEF OpToRel
  <2> QED
    BY <2>1
<1> QED
  BY <1>2

\* step has a function from S to S for each of n steps
Steps(n, S, step) == \A i \in 1 .. n : step[i] \in [S -> S]

\* f begins with a and takes the steps 1 to n
Follows(f, n, a, S, step) ==
  /\ f \in [0 .. n -> S]
  /\ f[0] = a
  /\ \A i \in 1 .. n : f[i] = step[i][f[i - 1]]

\* g takes those steps wherever it is in S
FollowsIn(g, n, a, S, step) ==
  /\ g[0] = a
  /\ \A i \in 1 .. n : g[i - 1] \in S => g[i] = step[i][g[i - 1]]

Agree(f, g, n) == \A i \in 0 .. n : g[i] = f[i]

\* There is a function that follows any steps.
LEMMA RecursionExists ==
  ASSUME NEW n \in Nat, NEW S, NEW a \in S, NEW step, Steps(n, S, step)
  PROVE  \E f : Follows(f, n, a, S, step)
<1> DEFINE Missing == { k \in 0 .. n : \A f : ~ Follows(f, k, a, S, step) }
<1>1. ASSUME Missing # {} PROVE FALSE
  <2>1. Missing \in SUBSET Nat
    OBVIOUS
  <2>2. PICK k \in Missing : \A j \in Missing : k <= j
    BY <1>1, <2>1, LeastOf
  <2>3. k # 0
    <3>1. Follows([i \in 0 .. 0 |-> a], 0, a, S, step)
      BY DEF Follows
    <3> QED
      BY <3>1
  <2>4. k - 1 \in 0 .. n /\ k \in 1 .. n /\ k - 1 \notin Missing
    BY <2>2, <2>3
  <2>5. PICK f : Follows(f, k - 1, a, S, step)
    BY <2>4
  <2> DEFINE g == [i \in 0 .. k |-> IF i = k THEN step[k][f[k - 1]] ELSE f[i]]
  <2>6. f[k - 1] \in S /\ step[k][f[k - 1]] \in S
    BY <2>4, <2>5 DEF Follows, Steps
  <2>7. g \in [0 .. k -> S]
    <3>1. \A i \in 0 .. k : i # k => i \in 0 .. k - 1
      BY <2>4
    <3>2. f \in [0 .. k - 1 -> S]
      BY <2>5 DEF Follows
    <3> QED
      BY <2>6, <3>1, <3>2
  <2>8. Follows(g, k, a, S, step)
    BY <2>4, <2>5, <2>7 DEF Follows
  <2> QED
    BY <2>2, <2>8
<1>2. n \notin Missing
  BY <1>1
<1> QED
  BY <1>2

\* Functions that take the same steps agree.
LEMMA RecursionsAgree ==
  ASSUME NEW n \in Nat, NEW a, NEW S, NEW step, NEW f, Follows(f, n, a, S, step),
         NEW g, FollowsIn(g, n, a, S, step)
  PROVE  Agree(f, g, n)
<1> DEFINE Wrong == { i \in 0 .. n : f[i] # g[i] }
<1>1. ASSUME Wrong # {} PROVE FALSE
  <2>1. Wrong \in SUBSET Nat
    OBVIOUS
  <2>2. PICK i \in Wrong : \A j \in Wrong : i <= j
    BY <1>1, <2>1, LeastOf
  <2>3. i # 0
    BY DEF Follows, FollowsIn
  <2>4. i \in 1 .. n /\ i - 1 \in 0 .. n /\ i - 1 \notin Wrong
    BY <2>2, <2>3
  <2>5. f[i] = step[i][f[i - 1]] /\ f[i - 1] \in S /\ f[i - 1] = g[i - 1]
    BY <2>4 DEF Follows
  <2>6. g[i] = step[i][g[i - 1]]
    BY <2>4, <2>5 DEF FollowsIn
  <2> QED
    BY <2>5, <2>6
<1> QED
  BY <1>1 DEF Agree

\* A function on 1 to n is a sequence.
LEMMA FunctionIsSeq ==
  ASSUME NEW n \in Nat, NEW S, NEW f \in [1 .. n -> S]
  PROVE  f \in Seq(S) /\ Len(f) = n
OBVIOUS

\* One element more.
LEMMA AppendElements ==
  ASSUME NEW X, NEW t \in Seq(X), NEW x
  PROVE  Elements(Append(t, x)) = Elements(t) \cup {x}
<1> DEFINE u == Append(t, x)
           l == Len(t)
<1>1. /\ Len(u) = l + 1 /\ u[l + 1] = x /\ l \in Nat
      /\ \A i \in 1 .. l : u[i] = t[i]
  OBVIOUS
<1> HIDE DEF u, l
<1>2. \A i \in 1 .. l + 1 : i \in 1 .. l \/ i = l + 1
  BY <1>1
<1>3. { u[i] : i \in 1 .. l + 1 } \subseteq { t[i] : i \in 1 .. l } \cup {x}
  BY <1>1, <1>2
<1>4. l + 1 \in 1 .. l + 1 /\ \A i \in 1 .. l : i \in 1 .. l + 1
  BY <1>1
<1>5. { t[i] : i \in 1 .. l } \cup {x} \subseteq { u[i] : i \in 1 .. l + 1 }
  BY <1>1, <1>4
<1> QED
  BY <1>1, <1>3, <1>5 DEF Elements, u, l

(***************************************************************************)
(* Selected(s, S).                                                         *)
(***************************************************************************)
\* upto keeps those of the first n elements of s that are in S
SelectsUpto(upto, n, s, S) ==
  /\ upto[0] = <<>>
  /\ \A i \in 1 .. n :
       upto[i] = IF s[i] \in S THEN Append(upto[i - 1], s[i]) ELSE upto[i - 1]

\* The recursive function of Selected.
LEMMA SelectedUpto ==
  ASSUME NEW X, NEW s \in Seq(X), NEW S
  PROVE  \E upto \in [0 .. Len(s) -> Seq(X)] :
           SelectsUpto(upto, Len(s), s, S) /\ Selected(s, S) = upto[Len(s)]
<1> DEFINE n == Len(s)
           step == [i \in 1 .. n |-> [t \in Seq(X) |-> IF s[i] \in S THEN Append(t, s[i]) ELSE t]]
           upto == CHOOSE upto : upto =
             [i \in 0 .. n |-> IF i = 0 THEN <<>>
                               ELSE IF s[i] \in S THEN Append(upto[i - 1], s[i]) ELSE upto[i - 1]]
<1>1. n \in Nat /\ <<>> \in Seq(X)
  OBVIOUS
<1>2. Steps(n, Seq(X), step)
  BY DEF Steps
<1>3. PICK f : Follows(f, n, <<>>, Seq(X), step)
  <2> HIDE DEF step, n
  <2>1. \E f : Follows(f, n, <<>>, Seq(X), step)
    BY <1>1, <1>2, RecursionExists
  <2> QED
    BY <2>1
<1>4. f = [i \in 0 .. n |-> IF i = 0 THEN <<>>
                            ELSE IF s[i] \in S THEN Append(f[i - 1], s[i]) ELSE f[i - 1]]
  <2>1. f \in [0 .. n -> Seq(X)] /\ \A i \in 1 .. n : f[i - 1] \in Seq(X)
    <3> HIDE DEF step, n
    <3>1. f \in [0 .. n -> Seq(X)]
      BY <1>3 DEF Follows
    <3>2. \A i \in 1 .. n : i - 1 \in 0 .. n
      BY <1>1
    <3> QED
      BY <3>1, <3>2
  <2>2. \A i \in 1 .. n : f[i] = IF s[i] \in S THEN Append(f[i - 1], s[i]) ELSE f[i - 1]
    BY <1>3, <2>1, ZenonT(60) DEF Follows
  <2>3. f[0] = <<>>
    BY <1>3 DEF Follows
  <2>4. \A i \in 0 .. n : i # 0 => i \in 1 .. n
    BY <1>1
  <2> HIDE DEF step, n
  <2> QED
    BY <2>1, <2>2, <2>3, <2>4
<1>5. upto = [i \in 0 .. n |-> IF i = 0 THEN <<>>
                               ELSE IF s[i] \in S THEN Append(upto[i - 1], s[i]) ELSE upto[i - 1]]
  BY <1>4, ZenonT(60)
<1>6. Selected(s, S) = upto[n]
  BY DEF Selected
<1>7. /\ upto[0] = <<>>
      /\ \A i \in 1 .. n : upto[i] = IF s[i] \in S THEN Append(upto[i - 1], s[i]) ELSE upto[i - 1]
  <2>1. 0 \in 0 .. n /\ \A i \in 1 .. n : i \in 0 .. n /\ i # 0
    BY <1>1
  <2> HIDE DEF upto, step, n
  <2> QED
    BY <1>5, <2>1
<1> HIDE DEF upto
<1>8. FollowsIn(upto, n, <<>>, Seq(X), step)
  BY <1>7 DEF FollowsIn
<1>9. \A i \in 0 .. n : upto[i] = f[i]
  <2> HIDE DEF step, n
  <2>1. Agree(f, upto, n)
    BY <1>1, <1>3, <1>8, RecursionsAgree
  <2> QED
    BY <2>1 DEF Agree
<1>10. SelectsUpto(f, n, s, S)
  <2> HIDE DEF step
  <2> QED
    BY <1>7, <1>9, <1>3, SMTT(60) DEF SelectsUpto, Follows
<1> QED
  BY <1>1, <1>3, <1>6, <1>9, <1>10 DEF Follows

\* What is selected are the elements in S, each once if s has it once.
LEMMA SelectedIs ==
  ASSUME NEW X, NEW s \in Seq(X), NEW S
  PROVE  /\ Selected(s, S) \in Seq(X)
         /\ Elements(Selected(s, S)) = Elements(s) \cap S
         /\ (\A i, j \in 1 .. Len(s) : s[i] = s[j] => i = j)
            => \A i, j \in 1 .. Len(Selected(s, S)) : Selected(s, S)[i] = Selected(s, S)[j] => i = j
<1> DEFINE n == Len(s)
<1>1. PICK upto \in [0 .. n -> Seq(X)] : SelectsUpto(upto, n, s, S) /\ Selected(s, S) = upto[n]
  BY SelectedUpto
<1> DEFINE Right(k) == /\ Elements(upto[k]) = { s[i] : i \in 1 .. k } \cap S
                       /\ (\A i, j \in 1 .. n : s[i] = s[j] => i = j)
                          => \A i, j \in 1 .. Len(upto[k]) : upto[k][i] = upto[k][j] => i = j
           Wrong == { k \in 0 .. n : ~ Right(k) }
<1>2. ASSUME Wrong # {} PROVE FALSE
  <2>1. Wrong \in SUBSET Nat
    OBVIOUS
  <2>2. PICK k \in Wrong : \A j \in Wrong : k <= j
    BY <1>2, <2>1, LeastOf
  <2>3. k # 0
    BY <1>1 DEF SelectsUpto, Elements
  <2>4. k \in 1 .. n /\ k - 1 \in 0 .. n /\ Right(k - 1)
    BY <2>2, <2>3, SMTT(30)
  <2> DEFINE t == upto[k - 1]
  <2>5. t \in Seq(X) /\ upto[k] = IF s[k] \in S THEN Append(t, s[k]) ELSE t
    BY <1>1, <2>4 DEF SelectsUpto
  <2>6. { s[i] : i \in 1 .. k } = { s[i] : i \in 1 .. k - 1 } \cup {s[k]}
    BY <2>4
  <2>7. CASE s[k] \notin S
    <3>1. upto[k] = t
      BY <2>5, <2>7
    <3> QED
      BY <2>2, <2>4, <2>6, <2>7, <3>1
  <2>8. CASE s[k] \in S
    <3>1. /\ Len(upto[k]) = Len(t) + 1 /\ upto[k][Len(t) + 1] = s[k] /\ Len(t) \in Nat
          /\ \A i \in 1 .. Len(t) : upto[k][i] = t[i]
      BY <2>5, <2>8
    <3>2. Elements(upto[k]) = Elements(t) \cup {s[k]}
      <4> HIDE DEF t
      <4> QED
        BY <2>5, <2>8, AppendElements
    <3>3. Elements(upto[k]) = { s[i] : i \in 1 .. k } \cap S
      BY <2>4, <2>6, <2>8, <3>2
    <3>4. ASSUME \A i, j \in 1 .. n : s[i] = s[j] => i = j
          PROVE  \A i, j \in 1 .. Len(upto[k]) : upto[k][i] = upto[k][j] => i = j
      <4>1. \A i \in 1 .. Len(t) : t[i] # s[k]
        <5>1. \A i \in 1 .. Len(t) : t[i] \in { s[j] : j \in 1 .. k - 1 }
          <6>1. \A i \in 1 .. Len(t) : t[i] \in Elements(t)
            BY DEF Elements
          <6>2. Elements(t) = { s[j] : j \in 1 .. k - 1 } \cap S
            BY <2>4
          <6> QED
            BY <6>1, <6>2
        <5>2. s[k] \notin { s[j] : j \in 1 .. k - 1 }
          BY <2>4, <3>4
        <5> QED
          BY <5>1, <5>2
      <4>2. \A i, j \in 1 .. Len(t) : t[i] = t[j] => i = j
        BY <2>4, <3>4
      <4> DEFINE u == upto[k]
                 l == Len(t)
      <4>3. 1 .. Len(u) = (1 .. l) \cup {l + 1}
        BY <3>1, SMTT(60)
      <4> HIDE DEF t
      <4> SUFFICES ASSUME NEW i \in (1 .. l) \cup {l + 1}, NEW j \in (1 .. l) \cup {l + 1}, u[i] = u[j]
                   PROVE  i = j
        BY <4>3
      <4> QED
        BY <3>1, <4>1, <4>2
    <3> QED
      BY <2>2, <3>3, <3>4
  <2> QED
    BY <2>7, <2>8
<1>3. Right(n)
  <2>1. n \in 0 .. n
    OBVIOUS
  <2> HIDE DEF Right
  <2> QED
    BY <1>2, <2>1
<1>4. { s[i] : i \in 1 .. n } = Elements(s)
  BY DEF Elements
<1> QED
  BY <1>1, <1>3, <1>4

(***************************************************************************)
(* TrumpfsDescending(d).                                                   *)
(***************************************************************************)
\* The list of the cards of a Farbe is a sequence of cards.
LEMMA FarbeListIsSeq ==
  ASSUME NEW d
  PROVE  FarbeDescending(d) \in Seq({ Card(d.farbe, Schlaege[i]) : i \in 1 .. Len(Schlaege) })
<1> DEFINE n == Len(Schlaege)
           X == { Card(d.farbe, Schlaege[i]) : i \in 1 .. n }
           own == Elements(d.schlaege)
           card(i) == Card(d.farbe, Schlaege[i])
           step == [i \in 1 .. n |-> [t \in Seq(X) |-> IF Schlaege[i] \in own THEN t ELSE Append(t, card(i))]]
           upto == CHOOSE upto : upto =
             [i \in 0 .. n |-> IF i = 0 THEN <<>>
                               ELSE IF Schlaege[i] \in own THEN upto[i - 1] ELSE Append(upto[i - 1], card(i))]
<1>1. n \in Nat
  BY DEF Schlaege
<1>2. \A i \in 1 .. n : card(i) \in X
  OBVIOUS
<1>3. FarbeDescending(d) = IF d.farbe = NoFarbe THEN <<>> ELSE upto[n]
  BY DEF FarbeDescending
<1> HIDE DEF n, X, own, card
<1>4. Steps(n, Seq(X), step) /\ <<>> \in Seq(X)
  BY <1>2 DEF Steps
<1>5. PICK f : Follows(f, n, <<>>, Seq(X), step)
  <2> HIDE DEF step
  <2>1. \E f : Follows(f, n, <<>>, Seq(X), step)
    BY <1>1, <1>4, RecursionExists
  <2> QED
    BY <2>1
<1>6. /\ f \in [0 .. n -> Seq(X)] /\ f[0] = <<>>
      /\ \A i \in 1 .. n : f[i] = IF Schlaege[i] \in own THEN f[i - 1] ELSE Append(f[i - 1], card(i))
  <2>1. f \in [0 .. n -> Seq(X)] /\ f[0] = <<>> /\ \A i \in 1 .. n : f[i] = step[i][f[i - 1]]
    <3> HIDE DEF step
    <3> QED
      BY <1>5 DEF Follows
  <2>2. \A i \in 1 .. n : i - 1 \in 0 .. n
    BY <1>1
  <2>3. \A i \in 1 .. n : f[i - 1] \in Seq(X)
    BY <2>1, <2>2
  <2> QED
    BY <2>1, <2>3
<1> HIDE DEF step
<1>7. f = [i \in 0 .. n |-> IF i = 0 THEN <<>>
                            ELSE IF Schlaege[i] \in own THEN f[i - 1] ELSE Append(f[i - 1], card(i))]
  <2>1. \A i \in 0 .. n : i # 0 => i \in 1 .. n
    BY <1>1
  <2> QED
    BY <1>6, <2>1, ZenonT(60)
<1>8. upto = [i \in 0 .. n |-> IF i = 0 THEN <<>>
                               ELSE IF Schlaege[i] \in own THEN upto[i - 1] ELSE Append(upto[i - 1], card(i))]
  BY <1>7, ZenonT(60)
<1>9. /\ upto[0] = <<>>
      /\ \A i \in 1 .. n : upto[i] = IF Schlaege[i] \in own THEN upto[i - 1] ELSE Append(upto[i - 1], card(i))
  <2>1. 0 \in 0 .. n /\ \A i \in 1 .. n : i \in 0 .. n /\ i # 0
    BY <1>1
  <2> HIDE DEF upto
  <2> QED
    BY <1>8, <2>1
<1> HIDE DEF upto
<1>10. FollowsIn(upto, n, <<>>, Seq(X), step)
  BY <1>9 DEF FollowsIn, step
<1>11. upto[n] = f[n] /\ n \in 0 .. n
  <2>1. Agree(f, upto, n)
    BY <1>1, <1>5, <1>10, RecursionsAgree
  <2> QED
    BY <1>1, <2>1 DEF Agree
<1>12. FarbeDescending(d) \in Seq(X)
  BY <1>3, <1>4, <1>6, <1>11
<1> QED
  BY <1>12 DEF X, n, card

\* The list of the Trumpfs is a sequence.
LEMMA TrumpfListIsSeq ==
  ASSUME NEW d \in Deciders
  PROVE  \E X : TrumpfsDescending(d) \in Seq(X)
<1> DEFINE k == Len(d.schlaege) * Len(Farben)
           place(i) == Card(Farben[((i - 1) % Len(Farben)) + 1], d.schlaege[((i - 1) \div Len(Farben)) + 1])
           own == [i \in 1 .. k |-> place(i)]
           Y == { Card(d.farbe, Schlaege[i]) : i \in 1 .. Len(Schlaege) }
           X == { place(i) : i \in 1 .. k } \cup Y
<1>1. k \in Nat
  <2>1. d.schlaege \in {<<>>, <<"Unter">>, <<"Ober">>, <<"Ober", "Unter">>}
    BY DEF Deciders, SoloOf, WenzOf, GeierOf, BettelDecider
  <2>2. Len(d.schlaege) \in Nat
    BY <2>1
  <2>3. Len(Farben) = 4
    BY DEF Farben
  <2> QED
    BY <2>2, <2>3
<1>2. FarbeDescending(d) \in Seq(Y)
  BY FarbeListIsSeq
<1>3. TrumpfsDescending(d) = own \o FarbeDescending(d)
  BY DEF TrumpfsDescending
<1> HIDE DEF k, place, Y
<1>4. own \in [1 .. k -> X]
  OBVIOUS
<1>5. Y \subseteq X
  OBVIOUS
<1> HIDE DEF own, X
<1>6. own \in Seq(X) /\ FarbeDescending(d) \in Seq(X)
  BY <1>1, <1>2, <1>4, <1>5, FunctionIsSeq
<1>7. TrumpfsDescending(d) \in Seq(X)
  BY <1>3, <1>6
<1> QED
  BY <1>7

------------------------------------------------------------------------------
(***************************************************************************)
(* The position that a card is wanted for.                                 *)
(***************************************************************************)
\* The four seats.
LEMMA FourSeats ==
  /\ N = 4 /\ Seats = {0, 1, 2, 3} /\ EPIs = Seats
  /\ IsFiniteSet(Deck) /\ CardsPerPlayer \in Nat /\ Cardinality(Deck) = 4 * CardsPerPlayer
  /\ Deck \subseteq AllCards
<1>1. N = 4 /\ IsFiniteSet(Deck) /\ Cardinality(Deck) = 4 * CardsPerPlayer /\ Deck \subseteq AllCards
  BY SuggestAssumption
<1>2. Cardinality(Deck) \in Nat
  BY <1>1, FS_CardinalityType
<1>3. CardsPerPlayer \in Nat
  BY <1>1, <1>2, SMTT(60) DEF CardsPerPlayer
<1> QED
  BY <1>1, <1>3 DEF Seats, EPIs

\* SCard::values has every card once.
LEMMA AllCardsListed ==
  /\ AllCardsInOrder \in Seq(AllCards)
  /\ Elements(AllCardsInOrder) = AllCards
  /\ \A i, j \in 1 .. Len(AllCardsInOrder) : AllCardsInOrder[i] = AllCardsInOrder[j] => i = j
<1> DEFINE q(i) == ((i - 1) \div 8) + 1
           r(i) == ((i - 1) % 8) + 1
<1>1. Len(Farben) = 4 /\ Len(Schlaege) = 8
  BY DEF Farben, Schlaege
<1>2. AllCardsInOrder = [i \in 1 .. 32 |-> Card(Farben[q(i)], Schlaege[r(i)])]
  BY <1>1 DEF AllCardsInOrder
<1>3. \A i \in 1 .. 32 : q(i) \in 1 .. 4 /\ r(i) \in 1 .. 8 /\ i = 8 * (q(i) - 1) + r(i)
  OBVIOUS
<1>4. \A a \in 1 .. 4 : \A b \in 1 .. 8 :
        8 * (a - 1) + b \in 1 .. 32 /\ q(8 * (a - 1) + b) = a /\ r(8 * (a - 1) + b) = b
  OBVIOUS
<1>5. /\ \A a, b \in 1 .. 4 : Farben[a] = Farben[b] => a = b
      /\ \A a, b \in 1 .. 8 : Schlaege[a] = Schlaege[b] => a = b
  BY DEF Farben, Schlaege
<1>6. Elements(Farben) = { Farben[a] : a \in 1 .. 4 } /\ Elements(Schlaege) = { Schlaege[b] : b \in 1 .. 8 }
  BY <1>1 DEF Elements
<1> HIDE DEF q, r
<1>7. \A i \in 1 .. 32 : /\ AllCardsInOrder[i].farbe = Farben[q(i)]
                         /\ AllCardsInOrder[i].schlag = Schlaege[r(i)]
                         /\ AllCardsInOrder[i] \in AllCards
  BY <1>2, <1>3, <1>6 DEF Card, AllCards
<1>8. AllCardsInOrder \in Seq(AllCards) /\ Len(AllCardsInOrder) = 32
  <2>1. AllCardsInOrder \in [1 .. 32 -> AllCards]
    BY <1>2, <1>7
  <2> DEFINE all == AllCardsInOrder
  <2>2. all \in [1 .. 32 -> AllCards] /\ 32 \in Nat
    BY <2>1
  <2> HIDE DEF all
  <2>3. all \in Seq(AllCards) /\ Len(all) = 32
    BY <2>2, FunctionIsSeq
  <2> QED
    BY <2>3 DEF all
<1>9. ASSUME NEW i \in 1 .. 32, NEW j \in 1 .. 32, AllCardsInOrder[i] = AllCardsInOrder[j]
      PROVE  i = j
  <2>1. Farben[q(i)] = Farben[q(j)] /\ Schlaege[r(i)] = Schlaege[r(j)]
    BY <1>7, <1>9
  <2>2. q(i) \in 1 .. 4 /\ q(j) \in 1 .. 4 /\ r(i) \in 1 .. 8 /\ r(j) \in 1 .. 8
    BY <1>3
  <2>3. q(i) = q(j) /\ r(i) = r(j)
    BY <1>5, <2>1, <2>2
  <2> QED
    BY <1>3, <2>3
<1>10. ASSUME NEW card \in AllCards PROVE \E i \in 1 .. 32 : AllCardsInOrder[i] = card
  <2>1. PICK a \in 1 .. 4, b \in 1 .. 8 : card.farbe = Farben[a] /\ card.schlag = Schlaege[b]
    BY <1>6 DEF AllCards
  <2> DEFINE i == 8 * (a - 1) + b
  <2>2. i \in 1 .. 32 /\ q(i) = a /\ r(i) = b
    BY <1>4
  <2>3. AllCardsInOrder[i] = card
    BY <1>2, <2>1, <2>2 DEF Card, AllCards
  <2> QED
    BY <2>2, <2>3
<1>11. Elements(AllCardsInOrder) = AllCards
  <2> DEFINE all == AllCardsInOrder
  <2>1. Elements(all) = { all[i] : i \in 1 .. 32 }
    BY <1>8 DEF Elements
  <2>2. \A i \in 1 .. 32 : all[i] \in AllCards
    BY <1>7
  <2> HIDE DEF all
  <2>3. { all[i] : i \in 1 .. 32 } \subseteq AllCards
    BY <2>2
  <2>4. AllCards \subseteq { all[i] : i \in 1 .. 32 }
    BY <1>10 DEF all
  <2> QED
    BY <2>1, <2>3, <2>4 DEF all
<1> QED
  BY <1>8, <1>9, <1>11

\* The cards of hands that share none.
LEMMA CardsOfHands ==
  ASSUME NEW S, IsFiniteSet(S), NEW h \in [Seats -> SUBSET S],
         \A e, f \in Seats : e # f => h[e] \cap h[f] = {}
  PROVE  /\ \A e \in Seats : IsFiniteSet(h[e]) /\ Cardinality(h[e]) \in Nat
         /\ Total([e \in Seats |-> Cardinality(h[e])]) = Cardinality(UNION { h[e] : e \in Seats })
<1>1. \A e \in Seats : IsFiniteSet(h[e]) /\ Cardinality(h[e]) \in Nat
  BY FS_Subset, FS_CardinalityType
<1>2. \A A, B \in SUBSET S : A \cap B = {} => Cardinality(A \cup B) = Cardinality(A) + Cardinality(B)
  <2> SUFFICES ASSUME NEW A \in SUBSET S, NEW B \in SUBSET S, A \cap B = {}
               PROVE  Cardinality(A \cup B) = Cardinality(A) + Cardinality(B)
    OBVIOUS
  <2>1. IsFiniteSet(A) /\ IsFiniteSet(B)
    BY FS_Subset
  <2>2. Cardinality(A) \in Nat /\ Cardinality(B) \in Nat
    BY <2>1, FS_CardinalityType
  <2>3. Cardinality(A \cap B) = 0
    BY FS_EmptySet
  <2>4. Cardinality(A \cup B) = Cardinality(A) + Cardinality(B) - Cardinality(A \cap B)
    BY <2>1, FS_Union
  <2> QED
    BY <2>2, <2>3, <2>4
<1>3. 0 \in Seats /\ 1 \in Seats /\ 2 \in Seats /\ 3 \in Seats
  BY FourSeats
<1> DEFINE A == h[0] \cup h[1]
           B == A \cup h[2]
<1>4. /\ A \in SUBSET S /\ B \in SUBSET S
      /\ h[0] \cap h[1] = {} /\ A \cap h[2] = {} /\ B \cap h[3] = {}
  BY <1>3
<1>5. Cardinality(B \cup h[3]) = Cardinality(h[0]) + Cardinality(h[1]) + Cardinality(h[2]) + Cardinality(h[3])
  <2>1. Cardinality(A) = Cardinality(h[0]) + Cardinality(h[1])
    BY <1>2, <1>3, <1>4
  <2>2. Cardinality(B) = Cardinality(A) + Cardinality(h[2])
    BY <1>2, <1>3, <1>4
  <2>3. Cardinality(B \cup h[3]) = Cardinality(B) + Cardinality(h[3])
    BY <1>2, <1>3, <1>4
  <2> QED
    BY <2>1, <2>2, <2>3
<1>6. UNION { h[e] : e \in Seats } = B \cup h[3]
  BY FourSeats
<1> QED
  BY <1>1, <1>3, <1>5, <1>6 DEF Total

------------------------------------------------------------------------------
(***************************************************************************)
(* What the cards that were played say of a hand.                          *)
(***************************************************************************)
\* The Rufsau is not Trumpf but a card of its Farbe.
LEMMA RufsauIsOfItsFarbe ==
  ASSUME NEW r \in GameRules, r.farbe # r.decider.farbe
  PROVE  TrumpfOrFarbe(r.decider, Card(r.farbe, "Ass")) = r.farbe
<1>1. r.decider \in Deciders
  BY DEF GameRules
<1>2. "Ass" \notin Elements(r.decider.schlaege)
  <2>1. PICK f : r.decider \in {BettelDecider, SoloOf(f), WenzOf(f), GeierOf(f)}
    BY <1>1 DEF Deciders
  <2>2. r.decider.schlaege \in {<<>>, <<"Ober", "Unter">>, <<"Unter">>, <<"Ober">>}
    BY <2>1 DEF BettelDecider, SoloOf, WenzOf, GeierOf
  <2> QED
    BY <2>2 DEF Elements
<1> QED
  BY <1>2 DEF TrumpfOrFarbe, Card

\* Two cards are more than one.
LEMMA MoreThanOne ==
  ASSUME NEW S, IsFiniteSet(S), NEW a \in S, NEW b \in S, a # b
  PROVE  ~ (Cardinality(S) <= 1)
<1>1. Cardinality({a}) = 1 /\ IsFiniteSet({a})
  BY FS_Singleton
<1>2. {a} \cup {b} = {a, b} /\ b \notin {a}
  OBVIOUS
<1>3. Cardinality({a} \cup {b}) = Cardinality({a}) + 1
  BY <1>1, <1>2, FS_AddElement
<1>4. Cardinality({a, b}) = 2
  BY <1>1, <1>2, <1>3
<1>5. Cardinality({a, b}) <= Cardinality(S) /\ Cardinality(S) \in Nat
  BY FS_Subset, FS_CardinalityType
<1> QED
  BY <1>4, <1>5

\* What the rules count is the cardinality.
LEMMA SameCardinality ==
  ASSUME NEW q, NEW S
  PROVE  C(q)!Cardinality(S) = Cardinality(S)
BY DEF C!Cardinality, Cardinality

\* The suit of a card.
LEMMA SameSuit ==
  ASSUME NEW q, NEW c
  PROVE  C(q)!Suit(c) = TrumpfOrFarbe(q.game.rules.decider, c)
BY DEF C!Suit, C!TrumpfOrFarbe, TrumpfOrFarbe, C!Elements, Elements

\* Who is allowed a card of another suit than the one that was led holds none of it but
\* perhaps the Rufsau.
LEMMA AllowedFollows ==
  ASSUME NEW q, q.game.rules \in GameRules,
         q.game.rules.kind = "Rufspiel" => q.game.rules.farbe # q.game.rules.decider.farbe,
         C(q)!CurrentStich.cards # <<>>, NEW epi, IsFiniteSet(q.ahand[epi]),
         NEW card \in C(q)!AllAllowedCards(epi),
         C(q)!Suit(card) # C(q)!Suit(C(q)!First(C(q)!CurrentStich)),
         NEW other \in q.ahand[epi], other # card,
         C(q)!Suit(other) = C(q)!Suit(C(q)!First(C(q)!CurrentStich))
  PROVE  q.game.rules.kind = "Rufspiel" /\ other = C(q)!Rufsau
<1> DEFINE hand == q.ahand[epi]
           led == C(q)!First(C(q)!CurrentStich)
<1>1. CASE q.game.rules.kind = "Rufspiel"
  <2>1. card \in C(q)!RufspielWithin(epi, hand)
    BY <1>1 DEF C!AllAllowedCards
  <2>2. card \in hand
    BY <2>1 DEF C!RufspielWithin
  <2>3. ~ (C(q)!Cardinality(hand) <= 1)
    BY <2>2, MoreThanOne, SameCardinality, SMTT(60)
  <2>4. C(q)!Suit(C(q)!Rufsau) = q.game.rules.farbe
    BY <1>1, RufsauIsOfItsFarbe, ZenonT(60) DEF C!Suit, C!Rufsau, C!TrumpfOrFarbe, TrumpfOrFarbe, C!Card, Card,
       C!Elements, Elements
  <2>5. ~ (C(q)!IsRuffarbe(led) /\ C(q)!Rufsau \in hand /\ ~ C(q)!HasRunAway(epi))
    BY <2>1, <2>3, <2>4 DEF C!RufspielWithin, C!IsRuffarbe
  <2>6. { c \in hand \ {C(q)!Rufsau} : C(q)!Suit(c) = C(q)!Suit(led) } = {}
    BY <2>1, <2>3, <2>5 DEF C!RufspielWithin
  <2> QED
    BY <1>1, <2>6
<1>2. CASE q.game.rules.kind # "Rufspiel"
  <2>1. card \in C(q)!Following(hand)
    BY <1>2 DEF C!AllAllowedCards, C!Stichzwang
  <2>2. { c \in hand : C(q)!Suit(c) = C(q)!Suit(led) } = {}
    BY <2>1 DEF C!Following
  <2> QED
    BY <2>2
<1> QED
  BY <1>1, <1>2

Stiche == [epi_first : Seats, cards : Seq(Deck)]

PositionOK == pos \in Games /\ PlayedByTheRules

\* The position as it was assumed.
LEMMA PositionTyped ==
  ASSUME PositionOK
  PROVE  /\ pos.game.rules \in GameRules
         /\ pos.game.rules.epi = 4 <=> pos.game.rules.kind = "Ramsch"
         /\ pos.game.rules.kind = "Rufspiel" => pos.game.rules.farbe # pos.game.rules.decider.farbe
         /\ pos.ahand \in [Seats -> SUBSET Deck]
         /\ pos.vecstich \in Seq(Stiche) /\ Len(pos.vecstich) \in Nat /\ Len(pos.vecstich) > 0
         /\ \A i \in 1 .. Len(pos.vecstich) :
              /\ pos.vecstich[i] \in Stiche /\ Len(pos.vecstich[i].cards) \in 0 .. 4
              /\ pos.vecstich[i].cards \in Seq(Deck) /\ pos.vecstich[i].epi_first \in Seats
              /\ Len(pos.vecstich[i].cards) = 4 <=> i < Len(pos.vecstich)
         /\ C(pos)!CurrentStich = pos.vecstich[Len(pos.vecstich)]
<1>1. /\ pos.game \in [rules : GameRules, contract : RulesContracts, n_price : Nat,
                       n_stock : Nat, stakes : Nat \ {0}]
      /\ pos.game.rules.epi = N <=> pos.game.rules.kind = "Ramsch"
      /\ pos.game.rules.kind = "Rufspiel" => pos.game.rules.farbe # pos.game.rules.decider.farbe
      /\ pos.ahand \in [Seats -> SUBSET Deck]
      /\ pos.vecstich # <<>> /\ pos.vecstich \in Seq([epi_first : Seats, cards : Seq(Deck)])
  BY SuggestAssumption DEF PositionOK
<1>2. pos.game.rules \in GameRules
  BY <1>1
<1>3. \A i \in 1 .. Len(pos.vecstich) :
        Len(pos.vecstich[i].cards) <= N /\ (C(pos)!IsFull(pos.vecstich[i]) <=> i < Len(pos.vecstich))
  BY DEF PositionOK, PlayedByTheRules
<1>4. C(pos)!CurrentStich = pos.vecstich[Len(pos.vecstich)]
  BY DEF C!CurrentStich
<1> DEFINE vec == pos.vecstich
<1>5. vec \in Seq(Stiche) /\ Len(vec) \in Nat /\ Len(vec) > 0
  <2>1. vec \in Seq(Stiche) /\ vec # <<>>
    BY <1>1 DEF Stiche
  <2> HIDE DEF vec
  <2> QED
    BY <2>1
<1>6. ASSUME NEW i \in 1 .. Len(vec)
      PROVE  /\ vec[i] \in Stiche /\ Len(vec[i].cards) \in 0 .. 4
             /\ vec[i].cards \in Seq(Deck) /\ vec[i].epi_first \in Seats
             /\ Len(vec[i].cards) = 4 <=> i < Len(vec)
  <2>1. vec[i] \in Stiche
    <3> HIDE DEF vec
    <3> QED
      BY <1>5
  <2>2. vec[i].cards \in Seq(Deck) /\ vec[i].epi_first \in Seats
    BY <2>1 DEF Stiche
  <2>3. Len(vec[i].cards) \in Nat
    <3> DEFINE cards == vec[i].cards
    <3>1. cards \in Seq(Deck)
      BY <2>2
    <3> HIDE DEF cards
    <3>2. Len(cards) \in Nat
      BY <3>1
    <3> QED
      BY <3>2 DEF cards
  <2> QED
    <3>1. Len(vec[i].cards) <= N /\ (Len(vec[i].cards) = N <=> i < Len(vec))
      BY <1>3 DEF C!IsFull
    <3>2. Len(vec[i].cards) \in 0 .. 4 /\ (Len(vec[i].cards) = 4 <=> i < Len(vec))
      <4> DEFINE l == Len(vec[i].cards)
      <4>1. l \in Nat /\ l <= N /\ (l = N <=> i < Len(vec)) /\ N = 4
        BY <2>3, <3>1, FourSeats
      <4> HIDE DEF l, vec
      <4>2. l \in 0 .. 4 /\ (l = 4 <=> i < Len(vec))
        BY <4>1
      <4> QED
        BY <4>2 DEF l
    <3> QED
      BY <2>1, <2>2, <3>2
<1> QED
  BY <1>1, <1>2, <1>4, <1>5, <1>6, FourSeats

\* Whose turn it is.
LEMMA EpiFixedSeat == ASSUME PositionOK PROVE EpiFixed \in Seats /\ HandFixed \in SUBSET Deck
<1> DEFINE stich == pos.vecstich[Len(pos.vecstich)]
<1>1. stich \in Stiche /\ C(pos)!CurrentStich = stich /\ Len(stich.cards) \in 0 .. 4
  BY PositionTyped
<1>2. EpiFixed = (stich.epi_first + (Len(stich.cards) + 1) - 1) % 4
  <2>1. EpiFixed = (stich.epi_first + (Len(stich.cards) + 1) - 1) % N
    BY <1>1 DEF EpiFixed, C!Current, C!SeatAt
  <2> QED
    BY <2>1, FourSeats
<1>3. stich.epi_first \in {0, 1, 2, 3}
  BY <1>1, FourSeats DEF Stiche
<1> HIDE DEF stich
<1>4. EpiFixed \in Seats
  BY <1>1, <1>2, <1>3, FourSeats, SMTT(30)
<1> QED
  BY <1>4, PositionTyped DEF HandFixed

\* Where the k-th card lies.
LEMMA PlaceOfPlayed ==
  ASSUME PositionOK, NEW k \in 1 .. CountPlayed
  PROVE  /\ k \in Nat
         /\ StichOf(k) \in 1 .. Len(pos.vecstich)
         /\ (k - 1) % 4 \in 0 .. 3
         /\ (k - 1) % 4 < Len(pos.vecstich[StichOf(k)].cards)
         /\ PlayedCard(k) = pos.vecstich[StichOf(k)].cards[((k - 1) % 4) + 1]
         /\ PlayedCard(k) \in Deck
<1> DEFINE m == Len(pos.vecstich)
           n == Len(pos.vecstich[m].cards)
           j == StichOf(k)
<1>1. m \in Nat /\ m > 0 /\ n \in 0 .. 3
  BY PositionTyped
<1>2. CountPlayed = 4 * (m - 1) + n
  <2>1. CountPlayed = N * (m - 1) + n
    BY PositionTyped DEF CountPlayed
  <2> QED
    BY <2>1, FourSeats
<1>3. j = ((k - 1) \div 4) + 1
  <2>1. j = ((k - 1) \div N) + 1
    BY DEF StichOf
  <2> QED
    BY <2>1, FourSeats
<1> HIDE DEF m, n, j
<1>4. k \in Nat /\ k >= 1 /\ k <= 4 * (m - 1) + n
  BY <1>1, <1>2
<1>5. /\ j \in 1 .. m /\ (k - 1) % 4 \in 0 .. 3
      /\ j = m => (k - 1) % 4 < n
  BY <1>1, <1>3, <1>4
<1>6. (k - 1) % 4 < Len(pos.vecstich[j].cards) /\ pos.vecstich[j].cards \in Seq(Deck)
  <2>1. /\ Len(pos.vecstich[j].cards) = 4 <=> j < m
        /\ pos.vecstich[j].cards \in Seq(Deck)
    BY <1>5, PositionTyped DEF m
  <2>2. j = m => Len(pos.vecstich[j].cards) = n
    BY DEF n
  <2> DEFINE l == Len(pos.vecstich[j].cards)
             r == (k - 1) % 4
  <2>3. /\ l = 4 <=> j < m
        /\ j = m => l = n /\ r < n
        /\ j \in 1 .. m /\ r \in 0 .. 3 /\ m \in Nat
    BY <1>1, <1>5, <2>1, <2>2
  <2> HIDE DEF l, r
  <2>4. r < l
    BY <2>3
  <2> QED
    BY <2>1, <2>4 DEF l, r
<1>7. PlayedCard(k) = pos.vecstich[j].cards[((k - 1) % 4) + 1]
  BY FourSeats DEF PlayedCard, j
<1>8. ((k - 1) % 4) + 1 \in 1 .. Len(pos.vecstich[j].cards)
  <2> DEFINE l == Len(pos.vecstich[j].cards)
             r == (k - 1) % 4
  <2>1. l \in 0 .. 4 /\ r \in 0 .. 3 /\ r < l
    BY <1>5, <1>6, PositionTyped DEF m
  <2> HIDE DEF l, r
  <2>2. r + 1 \in 1 .. l
    BY <2>1
  <2> QED
    BY <2>2 DEF l, r
<1>9. PlayedCard(k) \in Deck
  <2> DEFINE cards == pos.vecstich[j].cards
  <2> HIDE DEF cards
  <2>1. cards \in Seq(Deck) /\ ((k - 1) % 4) + 1 \in 1 .. Len(cards)
    BY <1>6, <1>8 DEF cards
  <2>2. cards[((k - 1) % 4) + 1] \in Deck
    BY <2>1, ElementOfSeq
  <2> QED
    BY <2>2, <1>7 DEF cards
<1> QED
  BY <1>4, <1>5, <1>6, <1>7, <1>9 DEF j, m

\* The hands with which the k-th card was played.
LEMMA HandsBefore ==
  ASSUME PositionOK, NEW h \in [Seats -> SUBSET Deck], NEW k \in 1 .. CountPlayed
  PROVE  LET q == Before(h, k)
             stich == pos.vecstich[StichOf(k)]
         IN  /\ q.game = pos.game
             /\ \A epi \in Seats : q.ahand[epi] \in SUBSET Deck
             /\ C(q)!CurrentStich.cards = SubSeq(stich.cards, 1, (k - 1) % 4)
             /\ PlayedBy(k) \in Seats
<1> DEFINE q == Before(h, k)
           j == StichOf(k)
           stich == pos.vecstich[j]
           r == (k - 1) % 4
<1>1. /\ k \in Nat /\ j \in 1 .. Len(pos.vecstich) /\ r \in 0 .. 3 /\ r < Len(stich.cards)
      /\ stich \in Stiche
  BY PlaceOfPlayed, PositionTyped
<1>2. q.game = pos.game
  BY DEF Before
<1>3. ASSUME NEW epi \in Seats PROVE q.ahand[epi] \in SUBSET Deck
  <2>1. q.ahand[epi] = h[epi] \cup { PlayedCard(l) : l \in { m \in k .. CountPlayed : PlayedBy(m) = epi } }
    BY DEF Before
  <2>2. \A m \in k .. CountPlayed : m \in 1 .. CountPlayed
    BY <1>1
  <2>3. \A m \in k .. CountPlayed : PlayedCard(m) \in Deck
    BY <2>2, PlaceOfPlayed
  <2> QED
    BY <2>1, <2>3
<1>4. C(q)!CurrentStich.cards = SubSeq(stich.cards, 1, r)
  <2> DEFINE now == [stich EXCEPT !.cards = SubSeq(@, 1, r)]
             before == SubSeq(pos.vecstich, 1, j - 1)
  <2>1. now.cards = SubSeq(stich.cards, 1, r)
    BY <1>1 DEF Stiche
  <2>2. q.vecstich = Append(before, now)
    BY FourSeats DEF Before
  <2>3. Append(before, now)[Len(Append(before, now))] = now
    <3>1. before \in Seq(Stiche)
      <4> DEFINE vec == pos.vecstich
      <4>1. vec \in Seq(Stiche) /\ j \in 1 .. Len(vec)
        BY <1>1, PositionTyped
      <4> HIDE DEF vec, j
      <4>2. SubSeq(vec, 1, j - 1) \in Seq(Stiche)
        BY <4>1
      <4> QED
        BY <4>2 DEF vec
    <3> HIDE DEF before, now
    <3> QED
      BY <3>1
  <2>4. C(q)!CurrentStich = now
    BY <2>2, <2>3 DEF C!CurrentStich
  <2> QED
    BY <2>1, <2>4
<1>5. PlayedBy(k) \in Seats
  <2>1. PlayedBy(k) = (stich.epi_first + (((k - 1) % N) + 1) - 1) % N
    BY DEF PlayedBy, C!SeatAt
  <2>2. PlayedBy(k) = (stich.epi_first + (r + 1) - 1) % 4
    BY <2>1, FourSeats
  <2>3. stich.epi_first \in {0, 1, 2, 3}
    BY <1>1, FourSeats DEF Stiche
  <2> HIDE DEF stich, r
  <2>4. PlayedBy(k) \in Seats
    BY <1>1, <2>2, <2>3, FourSeats, SMTT(30)
  <2> QED
    BY <2>4
<1> QED
  BY <1>2, <1>3, <1>4, <1>5

\* what HandsFitWhatWasSeen says of the last hands
Fits(h) ==
  /\ \A k \in 1 .. CountPlayed :
       LET led == C(pos)!Suit(pos.vecstich[StichOf(k)].cards[1])
       IN  C(pos)!Suit(PlayedCard(k)) # led =>
             \A card \in Before(h, k).ahand[PlayedBy(k)] :
               C(pos)!Suit(card) = led => pos.game.rules.kind = "Rufspiel" /\ card = C(pos)!Rufsau
  /\ pos.game.rules.kind = "Rufspiel" =>
       /\ C(pos)!Rufsau \notin Before(h, 1).ahand[pos.game.rules.epi]
       /\ \E card \in Before(h, 1).ahand[pos.game.rules.epi] : C(pos)!IsRuffarbe(card)

\* Hands that pass the filter fit what was seen.
LEMMA CompatibleFits ==
  ASSUME PositionOK, NEW h \in [Seats -> SUBSET Deck], Compatible(h)
  PROVE  Fits(h)
<1>1. ASSUME NEW k \in 1 .. CountPlayed,
             C(pos)!Suit(PlayedCard(k)) # C(pos)!Suit(pos.vecstich[StichOf(k)].cards[1]),
             NEW card \in Before(h, k).ahand[PlayedBy(k)],
             C(pos)!Suit(card) = C(pos)!Suit(pos.vecstich[StichOf(k)].cards[1])
      PROVE  pos.game.rules.kind = "Rufspiel" /\ card = C(pos)!Rufsau
  <2> DEFINE q == Before(h, k)
             cards == pos.vecstich[StichOf(k)].cards
             r == (k - 1) % 4
             epi == PlayedBy(k)
  <2>1. PlayedCard(k) \in C(q)!AllAllowedCards(epi)
    BY DEF Compatible, PlayedAsAllowed
  <2>2. /\ q.game = pos.game /\ epi \in Seats /\ q.ahand[epi] \in SUBSET Deck
        /\ C(q)!CurrentStich.cards = SubSeq(cards, 1, r)
    BY HandsBefore
  <2>3. /\ cards \in Seq(Deck) /\ r \in 0 .. 3 /\ r < Len(cards) /\ PlayedCard(k) = cards[r + 1]
    BY PlaceOfPlayed, PositionTyped
  <2>4. r # 0
    <3>1. r = 0 => cards[r + 1] = cards[1]
      OBVIOUS
    <3> QED
      BY <1>1, <2>3, <3>1
  <2>5. C(q)!CurrentStich.cards # <<>> /\ C(q)!First(C(q)!CurrentStich) = cards[1]
    <3> HIDE DEF cards, r, q
    <3>1. SubSeq(cards, 1, r) # <<>> /\ SubSeq(cards, 1, r)[1] = cards[1]
      BY <2>3, <2>4
    <3>2. C(q)!First(C(q)!CurrentStich) = C(q)!CurrentStich.cards[1]
      BY DEF C!First
    <3>3. C(q)!CurrentStich.cards = SubSeq(cards, 1, r)
      BY <2>2
    <3> QED
      BY <3>1, <3>2, <3>3
  <2>6. \A c : C(q)!Suit(c) = C(pos)!Suit(c)
    <3>1. q.game = pos.game
      BY <2>2
    <3> HIDE DEF q
    <3> QED
      BY <3>1, SameSuit
  <2>7. C(q)!Rufsau = C(pos)!Rufsau
    BY <2>2 DEF C!Rufsau, C!Card, Card
  <2>8. IsFiniteSet(q.ahand[epi])
    BY <2>2, FS_Subset, FourSeats
  <2>9. C(q)!Suit(PlayedCard(k)) # C(q)!Suit(cards[1]) /\ C(q)!Suit(card) = C(q)!Suit(cards[1])
    BY <1>1, <2>6
  <2>10. card # PlayedCard(k)
    BY <2>9
  <2>11. /\ q.game.rules \in GameRules
         /\ q.game.rules.kind = "Rufspiel" => q.game.rules.farbe # q.game.rules.decider.farbe
    BY <2>2, PositionTyped
  <2>12. card \in q.ahand[epi]
    BY <1>1
  <2> HIDE DEF q, cards, epi, r
  <2>13. q.game.rules.kind = "Rufspiel" /\ card = C(q)!Rufsau
    BY <2>1, <2>5, <2>8, <2>9, <2>10, <2>11, <2>12, AllowedFollows
  <2> QED
    BY <2>2, <2>7, <2>13
<1>2. ASSUME pos.game.rules.kind = "Rufspiel"
      PROVE  /\ C(pos)!Rufsau \notin Before(h, 1).ahand[pos.game.rules.epi]
             /\ \E card \in Before(h, 1).ahand[pos.game.rules.epi] : C(pos)!IsRuffarbe(card)
  <2> DEFINE r == pos.game.rules
             hand == Before(h, 1).ahand[r.epi]
  <2>1. r \in GameRules /\ r.epi # 4 /\ r.farbe # r.decider.farbe
    BY <1>2, PositionTyped
  <2>2. r.epi \in Seats
    <3>1. r.epi \in 0 .. 4
      BY <2>1, FourSeats DEF GameRules
    <3> QED
      BY <2>1, <3>1, FourSeats
  <2>3. C(pos)!CanBePlayed(r, hand)
    BY <2>2 DEF Compatible
  <2>4. \A c : C(pos)!IsRuffarbe(c) <=> C(pos)!TrumpfOrFarbe(r.decider, c) = r.farbe
    BY DEF C!IsRuffarbe, C!Suit
  <2>5. /\ { card \in hand : C(pos)!TrumpfOrFarbe(r.decider, card) = r.farbe } # {}
        /\ \A card \in hand : C(pos)!TrumpfOrFarbe(r.decider, card) = r.farbe => card.schlag # "Ass"
    BY <1>2, <2>3 DEF C!CanBePlayed
  <2>6. C(pos)!IsRuffarbe(C(pos)!Rufsau) /\ C(pos)!Rufsau.schlag = "Ass"
    BY <2>1, <2>4, RufsauIsOfItsFarbe DEF C!Rufsau, C!TrumpfOrFarbe, TrumpfOrFarbe, C!Card, Card,
       C!Elements, Elements
  <2> QED
    BY <2>4, <2>5, <2>6
<1>3. \A k \in 1 .. CountPlayed :
        C(pos)!Suit(PlayedCard(k)) # C(pos)!Suit(pos.vecstich[StichOf(k)].cards[1]) =>
          \A card \in Before(h, k).ahand[PlayedBy(k)] :
            C(pos)!Suit(card) = C(pos)!Suit(pos.vecstich[StichOf(k)].cards[1])
            => pos.game.rules.kind = "Rufspiel" /\ card = C(pos)!Rufsau
  BY <1>1
<1> QED
  BY <1>2, <1>3 DEF Fits

------------------------------------------------------------------------------
(***************************************************************************)
(* The order of the permutations.                                          *)
(***************************************************************************)
\* v comes before w
Lex(v, w, n) == \E k \in 1 .. n : v[k] < w[k] /\ \A l \in 1 .. k - 1 : v[l] = w[l]

\* k is the first place where v and w differ
FirstDiffer(v, w, k) == v[k] # w[k] /\ \A l \in 1 .. k - 1 : v[l] = w[l]

\* w has what v has in place k in a later place
HasLater(w, v, n, k) == \E l \in k + 1 .. n : w[l] = v[k]

\* each value occurs in v as often as in w
SameCounts(v, w, n) ==
  \A x : Cardinality({ i \in 1 .. n : v[i] = x }) = Cardinality({ i \in 1 .. n : w[i] = x })

\* Nothing comes before itself.
LEMMA LexIrreflexive == ASSUME NEW n \in Nat, NEW v \in [1 .. n -> Nat] PROVE ~ Lex(v, v, n)
BY DEF Lex

\* What comes before something comes before all that comes after it.
LEMMA LexTransitive ==
  ASSUME NEW n \in Nat, NEW u \in [1 .. n -> Nat], NEW v \in [1 .. n -> Nat], NEW w \in [1 .. n -> Nat],
         Lex(u, v, n), Lex(v, w, n)
  PROVE  Lex(u, w, n)
<1>1. PICK k \in 1 .. n : u[k] < v[k] /\ \A l \in 1 .. k - 1 : u[l] = v[l]
  BY DEF Lex
<1>2. PICK m \in 1 .. n : v[m] < w[m] /\ \A l \in 1 .. m - 1 : v[l] = w[l]
  BY DEF Lex
<1>3. u[k] \in Nat /\ v[k] \in Nat /\ w[k] \in Nat /\ u[m] \in Nat /\ v[m] \in Nat /\ w[m] \in Nat
  OBVIOUS
<1>4. CASE k < m
  <2>1. k \in 1 .. m - 1 /\ \A l \in 1 .. k - 1 : l \in 1 .. m - 1
    BY <1>4
  <2>2. u[k] < w[k] /\ \A l \in 1 .. k - 1 : u[l] = w[l]
    BY <1>1, <1>2, <2>1
  <2> QED
    BY <2>2 DEF Lex
<1>5. CASE m < k
  <2>1. m \in 1 .. k - 1 /\ \A l \in 1 .. m - 1 : l \in 1 .. k - 1
    BY <1>5
  <2>2. u[m] < w[m] /\ \A l \in 1 .. m - 1 : u[l] = w[l]
    BY <1>1, <1>2, <2>1
  <2> QED
    BY <2>2 DEF Lex
<1>6. CASE m = k
  <2>1. u[k] < w[k] /\ \A l \in 1 .. k - 1 : u[l] = w[l]
    BY <1>1, <1>2, <1>3, <1>6
  <2> QED
    BY <2>1 DEF Lex
<1> QED
  BY <1>4, <1>5, <1>6

\* Of two one comes first.
LEMMA LexTotal ==
  ASSUME NEW n \in Nat, NEW v \in [1 .. n -> Nat], NEW w \in [1 .. n -> Nat], v # w
  PROVE  Lex(v, w, n) \/ Lex(w, v, n)
<1> DEFINE Differ == { k \in 1 .. n : v[k] # w[k] }
<1>1. Differ \in SUBSET Nat /\ Differ # {}
  BY SMTT(60)
<1>2. PICK k \in Differ : \A l \in Differ : k <= l
  BY <1>1, LeastOf
<1>3. k \in 1 .. n /\ v[k] # w[k] /\ v[k] \in Nat /\ w[k] \in Nat
  BY <1>2
<1>4. \A l \in 1 .. k - 1 : v[l] = w[l]
  <2> SUFFICES ASSUME NEW l \in 1 .. k - 1, v[l] # w[l] PROVE FALSE
    OBVIOUS
  <2>1. l \in 1 .. n /\ ~ (k <= l)
    BY <1>3
  <2> QED
    BY <1>2, <2>1
<1>5. v[k] < w[k] \/ w[k] < v[k]
  BY <1>3
<1> QED
  BY <1>3, <1>4, <1>5 DEF Lex

\* What differs first in two permutations occurs in the rest of the other.
LEMMA OccursInTheRest ==
  ASSUME NEW n \in Nat, NEW v \in [1 .. n -> Nat], NEW w \in [1 .. n -> Nat], SameCounts(v, w, n),
         NEW k \in 1 .. n, FirstDiffer(v, w, k)
  PROVE  HasLater(w, v, n, k)
<1> SUFFICES ASSUME \A l \in k + 1 .. n : w[l] # v[k] PROVE FALSE
  BY DEF HasLater
<1>0. v[k] # w[k] /\ \A l \in 1 .. k - 1 : v[l] = w[l]
  BY DEF FirstDiffer
<1> DEFINE V == { i \in 1 .. n : v[i] = v[k] }
           W == { i \in 1 .. n : w[i] = v[k] }
<1>1. \A i \in 1 .. n : i \in 1 .. k - 1 \/ i = k \/ i \in k + 1 .. n
  OBVIOUS
<1>2. W \in SUBSET V /\ k \in V /\ k \notin W
  BY <1>0, <1>1
<1>3. Cardinality(V) = Cardinality(W)
  BY DEF SameCounts
<1>4. IsFiniteSet(V)
  <2>1. IsFiniteSet(1 .. n)
    BY FS_Interval
  <2> QED
    BY <2>1, FS_Subset
<1> HIDE DEF V, W
<1> QED
  BY <1>2, <1>3, <1>4, FS_Subset

\* no element is followed by a greater one
Descends(v, m, n) == \A k, l \in m .. n : k <= l => v[l] <= v[k]

\* Neighbours are enough.
LEMMA DescendsByOne ==
  ASSUME NEW n \in Nat, NEW v \in [1 .. n -> Nat], NEW m \in 1 .. n, \A k \in m .. n - 1 : v[k + 1] <= v[k]
  PROVE  Descends(v, m, n)
<1> SUFFICES ASSUME NEW k \in m .. n PROVE \A l \in m .. n : k <= l => v[l] <= v[k]
  BY DEF Descends
<1> DEFINE Wrong == { l \in m .. n : k <= l /\ ~ (v[l] <= v[k]) }
<1>1. ASSUME Wrong # {} PROVE FALSE
  <2>1. Wrong \in SUBSET Nat
    OBVIOUS
  <2>2. PICK l \in Wrong : \A j \in Wrong : l <= j
    BY <1>1, <2>1, LeastOf
  <2>3. l # k /\ l \in m .. n /\ k <= l
    BY <2>2
  <2>4. l - 1 \in m .. n - 1 /\ l - 1 \in m .. n /\ l - 1 + 1 = l /\ k <= l - 1 /\ ~ (l <= l - 1)
    BY <2>3
  <2>5. v[l - 1] <= v[k]
    BY <2>2, <2>4
  <2>6. v[l] <= v[l - 1]
    BY <2>4
  <2>7. v[l] \in Nat /\ v[k] \in Nat /\ v[l - 1] \in Nat
    BY <2>3, <2>4
  <2> QED
    BY <2>2, <2>5, <2>6, <2>7
<1> QED
  BY <1>1

\* Where nothing is followed by a greater element, no permutation comes after.
LEMMA LastPermutation ==
  ASSUME NEW n \in Nat, NEW v \in [1 .. n -> Nat], NEW w \in [1 .. n -> Nat], SameCounts(w, v, n),
         ~ HasNextPermutation(v)
  PROVE  ~ Lex(v, w, n)
<1> SUFFICES ASSUME NEW k \in 1 .. n, v[k] < w[k], \A l \in 1 .. k - 1 : v[l] = w[l] PROVE FALSE
  BY DEF Lex
<1>1. v \in Seq(Nat) /\ Len(v) = n
  BY FunctionIsSeq
<1>2. \A l \in 1 .. n - 1 : v[l + 1] <= v[l]
  <2>1. \A l \in 1 .. n - 1 : ~ (v[l] < v[l + 1])
    BY <1>1 DEF HasNextPermutation, Ascents
  <2>2. \A l \in 1 .. n - 1 : v[l] \in Nat /\ v[l + 1] \in Nat
    OBVIOUS
  <2> QED
    BY <2>1, <2>2
<1>3. Descends(v, 1, n)
  <2>1. 1 \in 1 .. n
    OBVIOUS
  <2> QED
    BY <1>2, <2>1, DescendsByOne
<1>4. v[k] \in Nat /\ w[k] \in Nat
  OBVIOUS
<1>5. PICK l \in k + 1 .. n : v[l] = w[k]
  <2>1. FirstDiffer(w, v, k)
    BY <1>4 DEF FirstDiffer
  <2>2. HasLater(v, w, n, k)
    BY <2>1, OccursInTheRest
  <2> QED
    BY <2>2 DEF HasLater
<1>6. v[l] <= v[k]
  BY <1>3 DEF Descends
<1> QED
  BY <1>4, <1>5, <1>6

\* w is the permutation after v: the last ascent is at i, j is the last place with more
NextAt(v, w, n, i, j) ==
  /\ i \in 1 .. n - 1 /\ j \in i + 1 .. n
  /\ v[i] < v[j] /\ Descends(v, i + 1, n)
  /\ \A k \in j + 1 .. n : v[k] <= v[i]
  /\ w \in [1 .. n -> Nat]
  /\ \A m \in 1 .. i - 1 : w[m] = v[m]
  /\ w[i] = v[j]
  /\ \A m \in i + 1 .. n : w[m] = IF n + i + 1 - m = j THEN v[i] ELSE v[n + i + 1 - m]

\* The permutation after v comes after it.
LEMMA NextComesAfter ==
  ASSUME NEW n \in Nat, NEW v \in [1 .. n -> Nat], NEW w, NEW i, NEW j, NextAt(v, w, n, i, j)
  PROVE  Lex(v, w, n)
<1>1. i \in 1 .. n /\ v[i] < w[i] /\ \A l \in 1 .. i - 1 : v[l] = w[l]
  BY DEF NextAt
<1> QED
  BY <1>1 DEF Lex

\* The permutation after v is a permutation of it.
LEMMA NextHasSameCounts ==
  ASSUME NEW n \in Nat, NEW v \in [1 .. n -> Nat], NEW w, NEW i, NEW j, NextAt(v, w, n, i, j)
  PROVE  SameCounts(w, v, n)
<1>1. /\ i \in 1 .. n - 1 /\ j \in i + 1 .. n
      /\ \A m \in 1 .. i - 1 : w[m] = v[m]
      /\ w[i] = v[j]
      /\ \A m \in i + 1 .. n : w[m] = IF n + i + 1 - m = j THEN v[i] ELSE v[n + i + 1 - m]
  BY DEF NextAt
<1> DEFINE from(m) == IF m < i THEN m ELSE IF m = i THEN j ELSE IF n + i + 1 - m = j THEN i ELSE n + i + 1 - m
           to(p) == IF p < i THEN p ELSE IF p = j THEN i ELSE IF p = i THEN n + i + 1 - j ELSE n + i + 1 - p
<1>2. ASSUME NEW m \in 1 .. n PROVE from(m) \in 1 .. n /\ w[m] = v[from(m)] /\ to(from(m)) = m
  <2>1. CASE m < i
    <3>1. m \in 1 .. i - 1
      BY <1>1, <2>1
    <3> QED
      BY <1>1, <2>1, <3>1
  <2>2. CASE m = i
    BY <1>1, <2>2
  <2>3. CASE m > i /\ n + i + 1 - m = j
    <3>1. m \in i + 1 .. n /\ m = n + i + 1 - j /\ ~ (m < i) /\ m # i /\ i # j /\ ~ (i < i)
      BY <1>1, <2>3
    <3> QED
      BY <1>1, <2>3, <3>1
  <2>4. CASE m > i /\ n + i + 1 - m # j
    <3>1. m \in i + 1 .. n /\ n + i + 1 - m \in i + 1 .. n /\ ~ (m < i) /\ m # i
      BY <1>1, <2>4
    <3>2. from(m) = n + i + 1 - m /\ from(m) # j /\ from(m) # i /\ ~ (from(m) < i)
      BY <1>1, <2>4, <3>1
    <3>3. to(from(m)) = n + i + 1 - (n + i + 1 - m)
      BY <1>1, <3>1, <3>2
    <3>4. n + i + 1 - (n + i + 1 - m) = m
      BY <1>1
    <3>5. w[m] = v[n + i + 1 - m]
      BY <1>1, <2>4, <3>1
    <3> QED
      BY <1>1, <3>1, <3>2, <3>3, <3>4, <3>5
  <2> QED
    BY <1>1, <2>1, <2>2, <2>3, <2>4
<1>3. ASSUME NEW p \in 1 .. n PROVE to(p) \in 1 .. n /\ from(to(p)) = p
  <2>1. CASE p < i
    BY <1>1, <2>1
  <2>2. CASE p = j
    BY <1>1, <2>2
  <2>3. CASE p = i
    <3>1. n + i + 1 - j \in i + 1 .. n /\ n + i + 1 - (n + i + 1 - j) = j /\ p # j /\ ~ (p < i)
      BY <1>1, <2>3
    <3>2. to(p) = n + i + 1 - j
      BY <2>3, <3>1
    <3>3. ~ (n + i + 1 - j < i) /\ n + i + 1 - j # i /\ n + i + 1 - j \in 1 .. n
      BY <1>1, <3>1
    <3> QED
      BY <2>3, <3>1, <3>2, <3>3
  <2>4. CASE p > i /\ p # j
    <3>1. n + i + 1 - p \in i + 1 .. n /\ n + i + 1 - (n + i + 1 - p) = p /\ p # i /\ ~ (p < i)
      BY <1>1, <2>4
    <3>2. to(p) = n + i + 1 - p
      BY <2>4, <3>1
    <3>3. ~ (n + i + 1 - p < i) /\ n + i + 1 - p # i /\ n + i + 1 - p \in 1 .. n
      BY <1>1, <3>1
    <3> QED
      BY <2>4, <3>1, <3>2, <3>3
  <2> QED
    BY <1>1, <2>1, <2>2, <2>3, <2>4
<1> HIDE DEF from, to
<1>4. ASSUME NEW x
      PROVE  Cardinality({ m \in 1 .. n : w[m] = x }) = Cardinality({ p \in 1 .. n : v[p] = x })
  <2> DEFINE W == { m \in 1 .. n : w[m] = x }
             V == { p \in 1 .. n : v[p] = x }
             f == [m \in W |-> from(m)]
  <2>1. f \in [W -> V]
    BY <1>2
  <2>2. \A a, b \in W : f[a] = f[b] => a = b
    BY <1>2
  <2>3. \A p \in V : \E m \in W : f[m] = p
    <3> SUFFICES ASSUME NEW p \in V PROVE to(p) \in W /\ f[to(p)] = p
      OBVIOUS
    <3>1. to(p) \in 1 .. n /\ from(to(p)) = p
      BY <1>3
    <3> QED
      BY <1>2, <3>1
  <2> HIDE DEF f
  <2>4. f \in Bijection(W, V)
    BY <2>1, <2>2, <2>3 DEF Bijection, Injection, Surjection, IsInjective
  <2>5. IsFiniteSet(W)
    <3>1. IsFiniteSet(1 .. n)
      BY FS_Interval
    <3> QED
      BY <3>1, FS_Subset
  <2> QED
    BY <2>4, <2>5, FS_Bijection DEF ExistsBijection
<1> QED
  BY <1>4 DEF SameCounts

\* After its ascent the next permutation ascends.
LEMMA NextAscends ==
  ASSUME NEW n \in Nat, NEW v \in [1 .. n -> Nat], NEW w, NEW i, NEW j, NextAt(v, w, n, i, j),
         NEW m \in i + 1 .. n, NEW l \in i + 1 .. n, m <= l
  PROVE  w[m] <= w[l]
<1>1. /\ i \in 1 .. n - 1 /\ j \in i + 1 .. n
      /\ v[i] < v[j]
      /\ \A k \in j + 1 .. n : v[k] <= v[i]
      /\ \A k \in i + 1 .. n : w[k] = IF n + i + 1 - k = j THEN v[i] ELSE v[n + i + 1 - k]
      /\ \A a, b \in i + 1 .. n : a <= b => v[b] <= v[a]
  BY DEF NextAt, Descends
<1> DEFINE a == n + i + 1 - l
           b == n + i + 1 - m
<1>2. a \in i + 1 .. n /\ b \in i + 1 .. n /\ a <= b
  BY <1>1
<1>3. w[m] = (IF b = j THEN v[i] ELSE v[b]) /\ w[l] = (IF a = j THEN v[i] ELSE v[a])
  BY <1>1
<1> HIDE DEF a, b
<1>4. v[i] \in Nat /\ v[j] \in Nat /\ v[a] \in Nat /\ v[b] \in Nat
  BY <1>1, <1>2
<1>5. v[b] <= v[a]
  BY <1>1, <1>2
<1>6. CASE b = j
  <2>1. v[j] <= v[a]
    BY <1>5, <1>6
  <2> QED
    BY <1>1, <1>3, <1>4, <1>6, <2>1, SMTT(60)
<1>7. CASE b # j /\ a = j
  <2>1. b \in j + 1 .. n
    BY <1>1, <1>2, <1>7
  <2> QED
    BY <1>1, <1>3, <1>7, <2>1
<1>8. CASE b # j /\ a # j
  BY <1>3, <1>5, <1>8
<1> QED
  BY <1>6, <1>7, <1>8

\* Between a permutation and the next one there is none.
LEMMA NoneBetween ==
  ASSUME NEW n \in Nat, NEW v \in [1 .. n -> Nat], NEW w, NEW i, NEW j, NextAt(v, w, n, i, j),
         NEW u \in [1 .. n -> Nat], SameCounts(u, v, n), Lex(v, u, n), u # w
  PROVE  Lex(w, u, n)
<1>1. /\ i \in 1 .. n - 1 /\ j \in i + 1 .. n
      /\ v[i] < v[j]
      /\ \A k \in j + 1 .. n : v[k] <= v[i]
      /\ w \in [1 .. n -> Nat] /\ w[i] = v[j]
      /\ \A k \in 1 .. i - 1 : w[k] = v[k]
      /\ \A a, b \in i + 1 .. n : a <= b => v[b] <= v[a]
  BY DEF NextAt, Descends
<1>2. PICK k \in 1 .. n : v[k] < u[k] /\ \A l \in 1 .. k - 1 : v[l] = u[l]
  BY DEF Lex
<1>3. v[k] \in Nat /\ u[k] \in Nat /\ v[i] \in Nat /\ v[j] \in Nat
  <2>1. i \in 1 .. n /\ j \in 1 .. n
    BY <1>1
  <2> QED
    BY <2>1
<1>4. \E l \in k + 1 .. n : v[l] = u[k]
  <2>1. FirstDiffer(u, v, k)
    BY <1>2, <1>3 DEF FirstDiffer
  <2>2. HasLater(v, u, n, k)
    BY <2>1, OccursInTheRest
  <2> QED
    BY <2>2 DEF HasLater
<1>5. PICK l \in k + 1 .. n : v[l] = u[k]
  BY <1>4
<1>6. CASE k < i
  <2>1. k \in 1 .. i - 1 /\ \A m \in 1 .. k - 1 : m \in 1 .. i - 1
    BY <1>1, <1>6
  <2>2. w[k] < u[k] /\ \A m \in 1 .. k - 1 : w[m] = u[m]
    BY <1>1, <1>2, <2>1
  <2> QED
    BY <2>2 DEF Lex
<1>7. CASE k > i
  <2>1. k \in i + 1 .. n /\ l \in i + 1 .. n /\ k <= l
    BY <1>1, <1>7
  <2>2. v[l] <= v[k]
    BY <1>1, <2>1
  <2> QED
    BY <1>2, <1>3, <1>5, <2>2
<1>8. CASE k = i
  <2>1. v[j] <= u[i]
    <3>1. l \notin j + 1 .. n
      BY <1>1, <1>2, <1>3, <1>5, <1>8
    <3>2. l \in i + 1 .. n /\ l <= j
      BY <1>1, <1>8, <3>1
    <3> QED
      BY <1>1, <1>5, <1>8, <3>2
  <2>2. \A m \in 1 .. i - 1 : w[m] = u[m]
    BY <1>1, <1>2, <1>8
  <2>3. CASE v[j] < u[i]
    <3>1. w[i] < u[i] /\ i \in 1 .. n
      BY <1>1, <2>3
    <3> QED
      BY <2>2, <3>1 DEF Lex
  <2>4. CASE v[j] = u[i]
    <3>1. \A m \in 1 .. i : w[m] = u[m]
      BY <1>1, <2>2, <2>4, SMTT(60)
    <3>2. SUFFICES ASSUME Lex(u, w, n) PROVE FALSE
      BY <1>1, LexTotal
    <3>3. PICK m \in 1 .. n : u[m] < w[m] /\ \A o \in 1 .. m - 1 : u[o] = w[o]
      BY <3>2 DEF Lex
    <3>4. u[m] \in Nat /\ w[m] \in Nat /\ u[m] # w[m]
      BY <1>1, <3>3
    <3>5. m \in i + 1 .. n
      BY <1>1, <3>1, <3>4
    <3>6. SameCounts(u, w, n)
      <4>1. SameCounts(w, v, n)
        BY NextHasSameCounts
      <4> QED
        BY <4>1 DEF SameCounts
    <3>7. \E o \in m + 1 .. n : w[o] = u[m]
      <4>1. w \in [1 .. n -> Nat] /\ FirstDiffer(u, w, m)
        BY <1>1, <3>3, <3>4 DEF FirstDiffer
      <4>2. HasLater(w, u, n, m)
        BY <3>6, <4>1, OccursInTheRest
      <4> QED
        BY <4>2 DEF HasLater
    <3>8. PICK o \in m + 1 .. n : w[o] = u[m]
      BY <3>7
    <3>9. o \in i + 1 .. n /\ m <= o
      BY <1>1, <3>5
    <3>10. w[m] <= w[o]
      BY <3>5, <3>9, NextAscends
    <3> QED
      BY <3>3, <3>4, <3>8, <3>10
  <2>5. u[i] \in Nat
    BY <1>3, <1>8
  <2> QED
    BY <1>3, <2>1, <2>3, <2>4, <2>5, SMTT(60)
<1> QED
  BY <1>1, <1>6, <1>7, <1>8

\* Of a set of places the last one.
LEMMA GreatestOf ==
  ASSUME NEW n \in Nat, NEW T \in SUBSET (1 .. n), T # {}
  PROVE  \E m \in T : \A k \in T : k <= m
<1> DEFINE U == { k \in 0 .. n : n - k \in T }
<1>1. U \in SUBSET Nat /\ U # {}
  <2>1. PICK m \in T : TRUE
    OBVIOUS
  <2>2. n - m \in 0 .. n /\ n - (n - m) = m
    BY <2>1
  <2>3. n - m \in U
    BY <2>1, <2>2
  <2>4. U \in SUBSET Nat
    OBVIOUS
  <2> HIDE DEF U
  <2> QED
    BY <2>3, <2>4
<1>2. PICK k \in U : \A l \in U : k <= l
  BY <1>1, LeastOf
<1>3. n - k \in T
  BY <1>2
<1>4. ASSUME NEW m \in T PROVE m <= n - k
  <2>1. n - m \in 0 .. n /\ n - (n - m) = m
    OBVIOUS
  <2>2. n - m \in U
    BY <2>1
  <2>3. k <= n - m /\ k \in Nat
    <3> HIDE DEF U
    <3> QED
      BY <1>1, <1>2, <2>2
  <2> QED
    BY <2>1, <2>3
<1> QED
  BY <1>3, <1>4

\* NextPermutation finds it.
LEMMA NextPermutationIs ==
  ASSUME NEW n \in Nat, NEW S \in SUBSET Nat, NEW v \in [1 .. n -> S], HasNextPermutation(v)
  PROVE  NextPermutation(v) \in [1 .. n -> S] /\ \E i, j : NextAt(v, NextPermutation(v), n, i, j)
<1>1. v \in Seq(S) /\ Len(v) = n
  BY FunctionIsSeq
<1> DEFINE i == CHOOSE i \in Ascents(v) : \A other \in Ascents(v) : other <= i
           above == { j \in i + 1 .. Len(v) : v[j] > v[i] }
           j == CHOOSE j \in i + 1 .. Len(v) : v[j] > v[i] /\ \A k \in j + 1 .. Len(v) : v[k] <= v[i]
           swapped == [v EXCEPT ![i] = v[j], ![j] = v[i]]
<1>3. i \in Ascents(v) /\ \A k \in Ascents(v) : k <= i
  <2>1. Ascents(v) \in SUBSET (1 .. n) /\ Ascents(v) # {}
    BY <1>1 DEF Ascents, HasNextPermutation
  <2>2. \E m \in Ascents(v) : \A k \in Ascents(v) : k <= m
    BY <2>1, GreatestOf
  <2> QED
    BY <2>2
<1>4. i \in 1 .. n - 1 /\ v[i] < v[i + 1] /\ \A k \in 1 .. n - 1 : v[k] < v[k + 1] => k <= i
  BY <1>1, <1>3 DEF Ascents
<1> HIDE DEF i
<1>5. j \in i + 1 .. n /\ v[j] > v[i] /\ \A k \in j + 1 .. n : v[k] <= v[i]
  <2>1. above \in SUBSET (1 .. n) /\ i + 1 \in above
    BY <1>1, <1>4
  <2>2. PICK m \in above : \A k \in above : k <= m
    <3>1. \E m \in above : \A k \in above : k <= m
      <4> HIDE DEF above
      <4> QED
        BY <2>1, GreatestOf
    <3> QED
      BY <3>1
  <2>3. m \in i + 1 .. Len(v) /\ v[m] > v[i]
    BY <2>2
  <2>4. \A k \in m + 1 .. Len(v) : v[k] <= v[i]
    <3>1. \A k \in m + 1 .. Len(v) : k \in i + 1 .. Len(v) /\ ~ (k <= m) /\ v[k] \in Nat /\ v[i] \in Nat
      <4>1. m \in i + 1 .. n /\ i \in 1 .. n
        BY <1>1, <1>4, <2>3
      <4>2. \A k \in m + 1 .. n : k \in i + 1 .. n /\ ~ (k <= m) /\ k \in 1 .. n
        BY <4>1
      <4> QED
        BY <1>1, <4>1, <4>2
    <3>2. \A k \in i + 1 .. Len(v) : v[k] > v[i] => k <= m
      BY <2>2
    <3> QED
      BY <3>1, <3>2
  <2>5. \E p \in i + 1 .. Len(v) : v[p] > v[i] /\ \A k \in p + 1 .. Len(v) : v[k] <= v[i]
    BY <2>3, <2>4
  <2>6. j \in i + 1 .. Len(v) /\ v[j] > v[i] /\ \A k \in j + 1 .. Len(v) : v[k] <= v[i]
    BY <2>5
  <2> QED
    BY <1>1, <2>6
<1> HIDE DEF j
<1>6. /\ swapped \in [1 .. n -> S]
      /\ swapped[i] = v[j] /\ swapped[j] = v[i]
      /\ \A k \in 1 .. n : k # i /\ k # j => swapped[k] = v[k]
  BY <1>4, <1>5
<1>7. NextPermutation(v) = SubSeq(swapped, 1, i) \o Reverse(SubSeq(swapped, i + 1, Len(v)))
  BY DEF NextPermutation, i, j
<1> HIDE DEF swapped
<1>8. swapped \in Seq(S) /\ Len(swapped) = n
  BY <1>6, FunctionIsSeq
<1> DEFINE kept == SubSeq(swapped, 1, i)
           rest == SubSeq(swapped, i + 1, Len(v))
           w == NextPermutation(v)
<1>9. /\ kept \in Seq(S) /\ Len(kept) = i /\ \A k \in 1 .. i : kept[k] = swapped[k]
      /\ rest \in Seq(S) /\ Len(rest) = n - i /\ \A k \in 1 .. n - i : rest[k] = swapped[i + k]
  <2>1. kept \in Seq(S) /\ Len(kept) = i /\ rest \in Seq(S) /\ Len(rest) = n - i
    BY <1>1, <1>4, <1>8
  <2>2. \A k \in 1 .. i : kept[k] = swapped[k]
    BY <1>4, <1>8
  <2>3. \A k \in 1 .. n - i : rest[k] = swapped[i + k]
    <3>1. \A k \in 1 .. n - i : rest[k] = swapped[i + 1 + k - 1]
      BY <1>1, <1>4, <1>8
    <3>2. \A k \in 1 .. n - i : i + 1 + k - 1 = i + k
      BY <1>4
    <3> QED
      BY <3>1, <3>2
  <2> QED
    BY <2>1, <2>2, <2>3
<1> HIDE DEF kept, rest
<1>10. Reverse(rest) \in Seq(S) /\ Len(Reverse(rest)) = n - i /\ \A k \in 1 .. n - i : Reverse(rest)[k] = rest[(n - i) - k + 1]
  <2>1. Reverse(rest) = [k \in 1 .. n - i |-> rest[(n - i) - k + 1]]
    BY <1>9 DEF Reverse
  <2>2. n - i \in Nat /\ \A k \in 1 .. n - i : (n - i) - k + 1 \in 1 .. n - i
    BY <1>4
  <2>3. Reverse(rest) \in [1 .. n - i -> S]
    BY <1>9, <2>1, <2>2
  <2> QED
    BY <2>1, <2>2, <2>3, FunctionIsSeq
<1> DEFINE back == Reverse(rest)
<1>11. w = kept \o back
  BY <1>7 DEF kept, rest
<1> HIDE DEF back
<1>12. w \in Seq(S) /\ Len(w) = n
  <2>1. w \in Seq(S) /\ Len(w) = i + (n - i)
    BY <1>9, <1>10, <1>11, ConcatProperties, ZenonT(30) DEF back
  <2> QED
    BY <1>4, <2>1
<1>13. \A k \in 1 .. i : w[k] = swapped[k]
  <2>1. kept \in Seq(S) /\ back \in Seq(S) /\ Len(kept) = i
    BY <1>9, <1>10 DEF back
  <2>2. \A k \in 1 .. i : w[k] = kept[k]
    BY <1>4, <1>11, <2>1
  <2> QED
    BY <1>9, <2>2
<1>14. \A k \in i + 1 .. n : w[k] = swapped[n + i + 1 - k]
  <2> SUFFICES ASSUME NEW k \in i + 1 .. n PROVE w[k] = swapped[n + i + 1 - k]
    OBVIOUS
  <2>1. kept \in Seq(S) /\ back \in Seq(S) /\ Len(kept) = i /\ Len(back) = n - i
    BY <1>9, <1>10 DEF back
  <2>2. k - i \in 1 .. n - i /\ (n - i) - (k - i) + 1 \in 1 .. n - i
    BY <1>4
  <2>3. w[k] = back[k - i]
    BY <1>4, <1>11, <2>1
  <2>4. back[k - i] = rest[(n - i) - (k - i) + 1]
    BY <1>10, <2>2 DEF back
  <2>5. rest[(n - i) - (k - i) + 1] = swapped[i + ((n - i) - (k - i) + 1)]
    BY <1>9, <2>2
  <2>6. i + ((n - i) - (k - i) + 1) = n + i + 1 - k
    BY <1>4
  <2> QED
    BY <2>3, <2>4, <2>5, <2>6
<1> HIDE DEF w
<1>15. w \in [1 .. n -> S] /\ w \in [1 .. n -> Nat]
  <2>1. w \in [1 .. Len(w) -> S]
    BY <1>12
  <2>2. w \in [1 .. n -> S]
    BY <1>12, <2>1
  <2>3. \A k \in 1 .. n : w[k] \in Nat
    BY <2>2
  <2> QED
    BY <2>2, <2>3
<1>16. Descends(v, i + 1, n)
  <2>1. \A k \in i + 1 .. n - 1 : v[k + 1] <= v[k]
    <3> SUFFICES ASSUME NEW k \in i + 1 .. n - 1 PROVE v[k + 1] <= v[k]
      OBVIOUS
    <3>1. k \in 1 .. n - 1 /\ k \in 1 .. n /\ k + 1 \in 1 .. n /\ ~ (k <= i)
      BY <1>4
    <3>2. ~ (v[k] < v[k + 1]) /\ v[k] \in Nat /\ v[k + 1] \in Nat
      BY <1>4, <3>1
    <3> QED
      BY <3>2
  <2>2. i + 1 \in 1 .. n /\ v \in [1 .. n -> Nat]
    <3>1. i + 1 \in 1 .. n
      BY <1>4
    <3>2. \A k \in 1 .. n : v[k] \in Nat
      OBVIOUS
    <3> QED
      BY <3>1, <3>2
  <2> DEFINE m == i + 1
  <2> HIDE DEF m
  <2>3. Descends(v, m, n)
    BY <2>1, <2>2, DescendsByOne DEF m
  <2> QED
    BY <2>3 DEF m
<1>17. \A m \in 1 .. i - 1 : w[m] = v[m]
  <2>1. \A m \in 1 .. i - 1 : m \in 1 .. i /\ m \in 1 .. n /\ m # i /\ m # j
    BY <1>4, <1>5
  <2> QED
    BY <1>6, <1>13, <2>1
<1>18. w[i] = v[j]
  BY <1>4, <1>6, <1>13
<1>19. \A m \in i + 1 .. n : w[m] = IF n + i + 1 - m = j THEN v[i] ELSE v[n + i + 1 - m]
  <2> SUFFICES ASSUME NEW m \in i + 1 .. n
               PROVE  w[m] = IF n + i + 1 - m = j THEN v[i] ELSE v[n + i + 1 - m]
    OBVIOUS
  <2>1. n + i + 1 - m \in 1 .. n /\ n + i + 1 - m # i
    BY <1>4
  <2> QED
    BY <1>6, <1>14, <2>1
<1>20. v[i] < v[j]
  <2>1. v[i] \in Nat /\ v[j] \in Nat
    <3>1. i \in 1 .. n /\ j \in 1 .. n
      BY <1>4, <1>5
    <3> QED
      BY <3>1
  <2> QED
    BY <1>5, <2>1
<1>21. NextAt(v, w, n, i, j)
  BY <1>4, <1>5, <1>15, <1>16, <1>17, <1>18, <1>19, <1>20 DEF NextAt
<1> QED
  BY <1>15, <1>21 DEF w

------------------------------------------------------------------------------
(***************************************************************************)
(* The hands that are searched share out the cards that were not played.   *)
(***************************************************************************)
GoodHands(h) ==
  /\ h \in [Seats -> SUBSET Deck]
  /\ h[EpiFixed] = HandFixed
  /\ \A e, f \in Seats : e # f => h[e] \cap h[f] = {}
  /\ UNION { h[e] : e \in Seats } = Deck \ PlayedCards

\* A sequence that repeats nothing is as long as it has elements.
LEMMA LenIsCardinality ==
  ASSUME NEW X, NEW s \in Seq(X), \A i, j \in 1 .. Len(s) : s[i] = s[j] => i = j
  PROVE  IsFiniteSet(Elements(s)) /\ Cardinality(Elements(s)) = Len(s)
<1>1. Len(s) \in Nat /\ s \in [1 .. Len(s) -> X]
  OBVIOUS
<1>2. s \in Bijection(1 .. Len(s), Elements(s))
  <2>1. s \in [1 .. Len(s) -> Elements(s)]
    BY <1>1 DEF Elements
  <2> QED
    BY <2>1 DEF Bijection, Injection, Surjection, IsInjective, Elements
<1>3. ExistsBijection(1 .. Len(s), Elements(s))
  BY <1>2 DEF ExistsBijection
<1>4. IsFiniteSet(1 .. Len(s)) /\ Cardinality(1 .. Len(s)) = Len(s)
  BY <1>1, FS_Interval, SMTT(60)
<1> QED
  BY <1>3, <1>4, FS_Bijection

\* The true hands share out those cards.
LEMMA TrueHandsAreGood ==
  ASSUME PositionOK
  PROVE  GoodHands(pos.ahand) /\ \A e \in Seats : Remaining(e) = Cardinality(pos.ahand[e])
<1>1. /\ \A e \in Seats :
           /\ Cardinality(pos.ahand[e]) = Remaining(e)
           /\ pos.ahand[e] \cap PlayedCards = {}
           /\ \A f \in Seats \ {e} : pos.ahand[e] \cap pos.ahand[f] = {}
      /\ Deck = PlayedCards \cup UNION { pos.ahand[e] : e \in Seats }
  BY DEF PositionOK, PlayedByTheRules
<1>2. pos.ahand \in [Seats -> SUBSET Deck]
  BY PositionTyped
<1>3. UNION { pos.ahand[e] : e \in Seats } = Deck \ PlayedCards
  <2>1. (UNION { pos.ahand[e] : e \in Seats }) \cap PlayedCards = {}
    BY <1>1
  <2> QED
    BY <1>1, <2>1
<1> QED
  BY <1>1, <1>2, <1>3 DEF GoodHands, HandFixed

\* The cards that the one who plays does not know, each once.
LEMMA UnknownIs ==
  ASSUME PositionOK
  PROVE  /\ UnknownCards \in Seq(Deck) /\ Len(UnknownCards) \in Nat
         /\ \A i, j \in 1 .. Len(UnknownCards) : UnknownCards[i] = UnknownCards[j] => i = j
         /\ Elements(UnknownCards) = (Deck \ HandFixed) \ PlayedCards
         /\ HandFixed \cup Elements(UnknownCards) = Deck \ PlayedCards
         /\ IsFiniteSet(Elements(UnknownCards))
         /\ Cardinality(Elements(UnknownCards)) = Len(UnknownCards)
         /\ Total([e \in Seats |-> Remaining(e)]) = Remaining(EpiFixed) + Len(UnknownCards)
<1> DEFINE u == UnknownCards
           left == (Deck \ HandFixed) \ PlayedCards
<1>1. u = Selected(AllCardsInOrder, left)
  BY DEF UnknownCards
<1>2. /\ u \in Seq(AllCards) /\ Elements(u) = AllCards \cap left
      /\ \A i, j \in 1 .. Len(u) : u[i] = u[j] => i = j
  <2> HIDE DEF left
  <2> QED
    BY <1>1, AllCardsListed, SelectedIs
<1>3. Elements(u) = left
  BY <1>2, FourSeats
<1>4. u \in Seq(Deck) /\ Len(u) \in Nat
  <2>1. \A i \in 1 .. Len(u) : u[i] \in Deck
    BY <1>3 DEF Elements
  <2> HIDE DEF u
  <2>2. u \in [1 .. Len(u) -> Deck] /\ Len(u) \in Nat
    BY <1>2, <2>1
  <2> QED
    BY <2>2, FunctionIsSeq
<1>5. IsFiniteSet(Elements(u)) /\ Cardinality(Elements(u)) = Len(u)
  <2> HIDE DEF u
  <2> QED
    BY <1>2, <1>4, LenIsCardinality
<1>6. HandFixed \cup Elements(u) = Deck \ PlayedCards
  <2>1. HandFixed \subseteq Deck /\ HandFixed \cap PlayedCards = {}
    BY EpiFixedSeat, TrueHandsAreGood DEF GoodHands
  <2> QED
    BY <1>3, <2>1
<1>7. Total([e \in Seats |-> Remaining(e)]) = Remaining(EpiFixed) + Len(u)
  <2>1. \A e \in Seats : Remaining(e) = Cardinality(pos.ahand[e])
    BY TrueHandsAreGood
  <2>2. Total([e \in Seats |-> Cardinality(pos.ahand[e])]) = Cardinality(Deck \ PlayedCards)
    BY TrueHandsAreGood, CardsOfHands, FourSeats DEF GoodHands
  <2>3. Remaining(EpiFixed) = Cardinality(HandFixed) /\ IsFiniteSet(HandFixed)
    BY <2>1, EpiFixedSeat, FS_Subset, FourSeats DEF HandFixed
  <2>4. Cardinality(HandFixed \cup Elements(u)) = Cardinality(HandFixed) + Len(u)
    <3>1. HandFixed \cap Elements(u) = {}
      BY <1>3
    <3>2. Cardinality(HandFixed \cap Elements(u)) = 0
      BY <3>1, FS_EmptySet
    <3>3. Cardinality(HandFixed) \in Nat
      BY <2>3, FS_CardinalityType
    <3>4. Cardinality(HandFixed \cup Elements(u))
            = Cardinality(HandFixed) + Cardinality(Elements(u)) - Cardinality(HandFixed \cap Elements(u))
      BY <1>5, <2>3, FS_Union
    <3> QED
      BY <1>4, <1>5, <3>2, <3>3, <3>4
  <2>5. Total([e \in Seats |-> Remaining(e)]) = Total([e \in Seats |-> Cardinality(pos.ahand[e])])
    BY <2>1, FourSeats
  <2> QED
    BY <1>6, <2>2, <2>3, <2>4, <2>5
<1> QED
  BY <1>2, <1>3, <1>4, <1>5, <1>6, <1>7

\* Cards dealt to the other seats.
DealtTo == [1 .. Len(UnknownCards) -> Seats \ {EpiFixed}]

\* The hands that the iterator makes of them.
LEMMA HandsOfAreGood ==
  ASSUME PositionOK, NEW v \in DealtTo
  PROVE  GoodHands(HandsOf(v))
<1> DEFINE h == HandsOf(v)
           u == UnknownCards
           n == Len(UnknownCards)
<1>1. /\ n \in Nat /\ \A i \in 1 .. n : u[i] \in Deck \ HandFixed
      /\ \A i, j \in 1 .. n : u[i] = u[j] => i = j
      /\ { u[i] : i \in 1 .. n } = (Deck \ HandFixed) \ PlayedCards
      /\ HandFixed \cup { u[i] : i \in 1 .. n } = Deck \ PlayedCards
  <2>1. { u[i] : i \in 1 .. n } = (Deck \ HandFixed) \ PlayedCards
    BY UnknownIs, ZenonT(60) DEF Elements
  <2>2. HandFixed \cup { u[i] : i \in 1 .. n } = Deck \ PlayedCards
    BY UnknownIs, ZenonT(60) DEF Elements
  <2>3. \A i \in 1 .. n : u[i] \in Deck \ HandFixed
    BY <2>1
  <2> QED
    BY <2>1, <2>2, <2>3, UnknownIs, SMTT(60)
<1>2. EpiFixed \in Seats /\ HandFixed \in SUBSET Deck
  BY EpiFixedSeat
<1>3. v \in [1 .. n -> Seats \ {EpiFixed}] /\ DOMAIN v = 1 .. n
  BY DEF DealtTo
<1>4. \A e \in Seats : h[e] = IF e = EpiFixed THEN HandFixed ELSE { u[i] : i \in { k \in 1 .. n : v[k] = e } }
  BY <1>3 DEF HandsOf
<1>5. h = [e \in Seats |-> h[e]]
  BY DEF HandsOf
<1> HIDE DEF h, u, n
<1>45. ASSUME NEW e \in Seats, NEW x, e # EpiFixed
       PROVE  x \in h[e] <=> \E i \in 1 .. n : v[i] = e /\ x = u[i]
  <2>1. h[e] = { u[i] : i \in { k \in 1 .. n : v[k] = e } }
    BY <1>4, <1>45
  <2> QED
    BY <2>1
<1>46. h[EpiFixed] = HandFixed
  BY <1>2, <1>4
<1>6. h \in [Seats -> SUBSET Deck]
  <2>1. \A e \in Seats : h[e] \in SUBSET Deck
    BY <1>1, <1>2, <1>45, <1>46
  <2> QED
    BY <1>5, <2>1
<1>7. h[EpiFixed] = HandFixed
  BY <1>46
<1>8. ASSUME NEW e \in Seats, NEW f \in Seats, e # f PROVE h[e] \cap h[f] = {}
  <2>1. CASE e # EpiFixed /\ f # EpiFixed
    BY <1>1, <1>45, <1>8, <2>1
  <2>2. CASE e = EpiFixed \/ f = EpiFixed
    BY <1>1, <1>45, <1>46, <1>8, <2>2
  <2> QED
    BY <2>1, <2>2
<1>9. UNION { h[e] : e \in Seats } = HandFixed \cup { u[i] : i \in 1 .. n }
  <2>1. ASSUME NEW i \in 1 .. n PROVE \E e \in Seats : u[i] \in h[e]
    <3>1. v[i] \in Seats /\ v[i] # EpiFixed
      BY <1>3
    <3>2. u[i] \in h[v[i]]
      BY <1>45, <3>1
    <3> QED
      BY <3>1, <3>2
  <2>2. \A e \in Seats : h[e] \subseteq HandFixed \cup { u[i] : i \in 1 .. n }
    BY <1>45, <1>46
  <2>3. HandFixed \subseteq h[EpiFixed]
    BY <1>7
  <2> QED
    BY <1>2, <2>1, <2>2, <2>3
<1> QED
  BY <1>1, <1>6, <1>7, <1>8, <1>9 DEF GoodHands, h

\* Four sequences, one after the other.
LEMMA FourParts ==
  ASSUME NEW X, NEW a \in Seq(X), NEW b \in Seq(X), NEW c \in Seq(X), NEW d \in Seq(X)
  PROVE  /\ a \o (b \o (c \o (d \o <<>>))) \in Seq(X)
         /\ Len(a \o (b \o (c \o (d \o <<>>)))) = Len(a) + Len(b) + Len(c) + Len(d)
<1>1. d \o <<>> = d /\ Len(a) \in Nat /\ Len(b) \in Nat /\ Len(c) \in Nat /\ Len(d) \in Nat
  OBVIOUS
<1>2. c \o d \in Seq(X) /\ Len(c \o d) = Len(c) + Len(d)
  BY ConcatProperties
<1> DEFINE cd == c \o d
           bcd == b \o cd
<1> HIDE DEF cd, bcd
<1>3. bcd \in Seq(X) /\ Len(bcd) = Len(b) + Len(cd)
  BY <1>2, ConcatProperties DEF cd, bcd
<1>4. a \o bcd \in Seq(X) /\ Len(a \o bcd) = Len(a) + Len(bcd)
  BY <1>3, ConcatProperties
<1> QED
  BY <1>1, <1>2, <1>3, <1>4 DEF cd, bcd

\* Which part of four an element of their sequence is in.
LEMMA InFourParts ==
  ASSUME NEW X, NEW a \in Seq(X), NEW b \in Seq(X), NEW c \in Seq(X), NEW d \in Seq(X),
         NEW i \in 1 .. Len(a) + Len(b) + Len(c) + Len(d)
  PROVE  (a \o (b \o (c \o (d \o <<>>))))[i]
           = IF i <= Len(a) THEN a[i]
             ELSE IF i <= Len(a) + Len(b) THEN b[i - Len(a)]
             ELSE IF i <= Len(a) + Len(b) + Len(c) THEN c[i - Len(a) - Len(b)]
             ELSE d[i - Len(a) - Len(b) - Len(c)]
<1>1. d \o <<>> = d /\ Len(a) \in Nat /\ Len(b) \in Nat /\ Len(c) \in Nat /\ Len(d) \in Nat
  OBVIOUS
<1> DEFINE cd == c \o d
           bcd == b \o cd
           la == Len(a)
           lb == Len(b)
           lc == Len(c)
           ld == Len(d)
<1>2. /\ cd \in Seq(X) /\ Len(cd) = lc + ld
      /\ \A k \in 1 .. lc + ld : cd[k] = IF k <= lc THEN c[k] ELSE d[k - lc]
  BY ConcatProperties
<1> HIDE DEF cd
<1>3. /\ bcd \in Seq(X) /\ Len(bcd) = lb + Len(cd)
      /\ \A k \in 1 .. lb + Len(cd) : bcd[k] = IF k <= lb THEN b[k] ELSE cd[k - lb]
  <2>1. b \in Seq(X) /\ cd \in Seq(X)
    BY <1>2
  <2>2. /\ b \o cd \in Seq(X) /\ Len(b \o cd) = Len(b) + Len(cd)
        /\ \A k \in 1 .. Len(b) + Len(cd) : (b \o cd)[k] = IF k <= Len(b) THEN b[k] ELSE cd[k - Len(b)]
    BY <2>1, ConcatProperties
  <2> QED
    BY <2>2
<1> HIDE DEF bcd
<1>4. \A k \in 1 .. la + Len(bcd) : (a \o bcd)[k] = IF k <= la THEN a[k] ELSE bcd[k - la]
  BY <1>3, ConcatProperties
<1>5. /\ la \in Nat /\ lb \in Nat /\ lc \in Nat /\ ld \in Nat
      /\ Len(cd) = lc + ld /\ Len(bcd) = lb + (lc + ld) /\ i \in 1 .. la + lb + lc + ld
  BY <1>1, <1>2, <1>3
<1> HIDE DEF la, lb, lc, ld
<1>6. (a \o bcd)[i] = IF i <= la THEN a[i] ELSE bcd[i - la]
  <2>1. i \in 1 .. la + Len(bcd)
    BY <1>5
  <2> QED
    BY <1>4, <2>1
<1>7. i > la => bcd[i - la] = IF i <= la + lb THEN b[i - la] ELSE cd[i - la - lb]
  <2> SUFFICES ASSUME i > la PROVE bcd[i - la] = IF i <= la + lb THEN b[i - la] ELSE cd[i - la - lb]
    OBVIOUS
  <2> DEFINE k == i - la
  <2>1. k \in 1 .. lb + Len(cd) /\ (k <= lb <=> i <= la + lb)
    BY <1>5
  <2>2. bcd[k] = IF k <= lb THEN b[k] ELSE cd[k - lb]
    BY <1>3, <2>1
  <2> QED
    BY <2>1, <2>2
<1>8. i > la + lb => cd[i - la - lb] = IF i <= la + lb + lc THEN c[i - la - lb] ELSE d[i - la - lb - lc]
  <2> SUFFICES ASSUME i > la + lb
               PROVE  cd[i - la - lb] = IF i <= la + lb + lc THEN c[i - la - lb] ELSE d[i - la - lb - lc]
    OBVIOUS
  <2> DEFINE k == i - la - lb
  <2>1. k \in 1 .. lc + ld /\ (k <= lc <=> i <= la + lb + lc)
    BY <1>5
  <2>2. cd[k] = IF k <= lc THEN c[k] ELSE d[k - lc]
    BY <1>2, <2>1
  <2> QED
    BY <2>1, <2>2
<1>9. (a \o bcd)[i] = IF i <= la THEN a[i] ELSE IF i <= la + lb THEN b[i - la]
                      ELSE IF i <= la + lb + lc THEN c[i - la - lb] ELSE d[i - la - lb - lc]
  BY <1>5, <1>6, <1>7, <1>8
<1> QED
  BY <1>1, <1>9 DEF la, lb, lc, cd, bcd

\* a seat as often as it gets cards
Size(e) == IF e = EpiFixed THEN 0 ELSE Remaining(e)
Own(e) == [i \in 1 .. Size(e) |-> e]

\* In the first of the permutations one seat comes after the other.
LEMMA FirstVecEpiIs == FirstVecEpi = Own(0) \o (Own(1) \o (Own(2) \o (Own(3) \o <<>>)))
<1> DEFINE own(e) == Own(e)
           from == CHOOSE from : from = [e \in 0 .. N |-> IF e = N THEN <<>> ELSE own(e) \o from[e + 1]]
           last == own(3) \o <<>>
           some == own(2) \o last
           more == own(1) \o some
           all == own(0) \o more
           g == [e \in 0 .. 4 |-> IF e = 4 THEN <<>> ELSE IF e = 3 THEN last ELSE IF e = 2 THEN some
                                  ELSE IF e = 1 THEN more ELSE all]
<1>1. g = [e \in 0 .. N |-> IF e = N THEN <<>> ELSE own(e) \o g[e + 1]]
  <2>1. 0 .. N = {0, 1, 2, 3, 4} /\ 0 .. 4 = {0, 1, 2, 3, 4} /\ N = 4
    BY FourSeats
  <2>2. g[4] = <<>> /\ g[3] = last /\ g[2] = some /\ g[1] = more /\ g[0] = all
    <3> HIDE DEF all, more, some, last
    <3> QED
      OBVIOUS
  <2>3. /\ g[3] = own(3) \o g[3 + 1] /\ g[2] = own(2) \o g[2 + 1]
        /\ g[1] = own(1) \o g[1 + 1] /\ g[0] = own(0) \o g[0 + 1]
    <3>1. 3 + 1 = 4 /\ 2 + 1 = 3 /\ 1 + 1 = 2 /\ 0 + 1 = 1
      OBVIOUS
    <3>2. /\ g[3] = own(3) \o g[4] /\ g[2] = own(2) \o g[3]
          /\ g[1] = own(1) \o g[2] /\ g[0] = own(0) \o g[1]
      <4> HIDE DEF g, own
      <4> QED
        BY <2>2
    <3> HIDE DEF g, own
    <3> QED
      BY <3>1, <3>2
  <2>4. g = [e \in 0 .. 4 |-> g[e]]
    <3> HIDE DEF all, more, some, last
    <3> QED
      OBVIOUS
  <2> HIDE DEF g, own
  <2> QED
    BY <2>1, <2>2, <2>3, <2>4
<1>2. from = [e \in 0 .. N |-> IF e = N THEN <<>> ELSE own(e) \o from[e + 1]]
  <2> HIDE DEF g, own
  <2> QED
    BY <1>1
<1>3. FirstVecEpi = from[0]
  BY DEF FirstVecEpi, Own, Size
<1> HIDE DEF from, own, g, all, more, some, last
<1>4. from[0] = own(0) \o (own(1) \o (own(2) \o (own(3) \o <<>>)))
  <2>1. N = 4 /\ 0 .. N = {0, 1, 2, 3, 4}
    BY FourSeats
  <2>2. from[4] = <<>> /\ from[3] = own(3) \o from[4] /\ from[2] = own(2) \o from[3]
        /\ from[1] = own(1) \o from[2] /\ from[0] = own(0) \o from[1]
    <3>1. 3 + 1 = 4 /\ 2 + 1 = 3 /\ 1 + 1 = 2 /\ 0 + 1 = 1
      OBVIOUS
    <3>2. from = [e \in {0, 1, 2, 3, 4} |-> IF e = 4 THEN <<>> ELSE own(e) \o from[e + 1]]
      BY <1>2, <2>1
    <3>3. /\ from[3] = own(3) \o from[3 + 1] /\ from[2] = own(2) \o from[2 + 1]
          /\ from[1] = own(1) \o from[1 + 1] /\ from[0] = own(0) \o from[0 + 1]
          /\ from[4] = <<>>
      <4>1. from[4] = <<>>
        BY <3>2
      <4>2. ASSUME NEW e \in {0, 1, 2, 3} PROVE from[e] = own(e) \o from[e + 1]
        <5>1. e \in {0, 1, 2, 3, 4} /\ e # 4
          OBVIOUS
        <5>2. from[e] = IF e = 4 THEN <<>> ELSE own(e) \o from[e + 1]
          BY <3>2, <5>1, Zenon
        <5> QED
          BY <5>1, <5>2
      <4> QED
        BY <4>1, <4>2
    <3> QED
      BY <3>1, <3>3
  <2> QED
    BY <2>2
<1> QED
  BY <1>3, <1>4 DEF own

\* Size(e) elements for each of the seats.
LEMMA SizesAre ==
  ASSUME PositionOK
  PROVE  /\ Size(0) \in Nat /\ Size(1) \in Nat /\ Size(2) \in Nat /\ Size(3) \in Nat
         /\ Size(0) + Size(1) + Size(2) + Size(3) = Len(UnknownCards)
         /\ \A e \in Seats : Own(e) \in Seq(Nat) /\ Len(Own(e)) = Size(e) /\ \A i \in 1 .. Size(e) : Own(e)[i] = e
<1>1. \A e \in Seats : Remaining(e) \in Nat
  <2>1. \A e \in Seats : Remaining(e) = Cardinality(pos.ahand[e]) /\ pos.ahand[e] \in SUBSET Deck
    BY TrueHandsAreGood, PositionTyped
  <2> QED
    BY <2>1, FourSeats, FS_Subset, FS_CardinalityType
<1>2. \A e \in Seats : Size(e) \in Nat
  BY <1>1 DEF Size
<1>3. Size(0) \in Nat /\ Size(1) \in Nat /\ Size(2) \in Nat /\ Size(3) \in Nat
  BY <1>2, FourSeats
<1>4. Size(0) + Size(1) + Size(2) + Size(3) = Len(UnknownCards)
  <2>1. Remaining(0) + Remaining(1) + Remaining(2) + Remaining(3) = Remaining(EpiFixed) + Len(UnknownCards)
    BY UnknownIs, FourSeats DEF Total
  <2>2. EpiFixed \in {0, 1, 2, 3} /\ Len(UnknownCards) \in Nat
    BY EpiFixedSeat, UnknownIs, FourSeats
  <2>3. Remaining(0) \in Nat /\ Remaining(1) \in Nat /\ Remaining(2) \in Nat /\ Remaining(3) \in Nat
    BY <1>1, FourSeats
  <2> QED
    BY <2>1, <2>2, <2>3, SMTT(30) DEF Size
<1>5. ASSUME NEW e \in Seats
      PROVE  Own(e) \in Seq(Nat) /\ Len(Own(e)) = Size(e) /\ \A i \in 1 .. Size(e) : Own(e)[i] = e
  <2>1. Own(e) \in [1 .. Size(e) -> Nat] /\ Size(e) \in Nat
    BY <1>2, FourSeats DEF Own
  <2>2. Own(e) \in Seq(Nat) /\ Len(Own(e)) = Size(e)
    BY <2>1, FunctionIsSeq
  <2> QED
    BY <2>2 DEF Own
<1> QED
  BY <1>3, <1>4, <1>5

\* The first of the permutations deals every seat as many cards as it has to have.
LEMMA FirstVecEpiDeals == PositionOK => FirstVecEpi \in DealtTo
<1> SUFFICES ASSUME PositionOK PROVE FirstVecEpi \in DealtTo
  OBVIOUS
<1> DEFINE others == Seats \ {EpiFixed}
<1>1. ASSUME NEW e \in Seats PROVE Own(e) \in Seq(others)
  <2>1. Size(e) \in Nat
    BY SizesAre, FourSeats
  <2>2. Own(e) \in [1 .. Size(e) -> others]
    <3>1. CASE e = EpiFixed
      BY <3>1 DEF Own, Size
    <3>2. CASE e # EpiFixed
      BY <3>2 DEF Own, Size
    <3> QED
      BY <3>1, <3>2
  <2> HIDE DEF others
  <2> QED
    BY <2>1, <2>2, FunctionIsSeq DEF Own
<1>2. /\ Own(0) \in Seq(others) /\ Own(1) \in Seq(others) /\ Own(2) \in Seq(others) /\ Own(3) \in Seq(others)
      /\ Len(Own(0)) = Size(0) /\ Len(Own(1)) = Size(1) /\ Len(Own(2)) = Size(2) /\ Len(Own(3)) = Size(3)
  BY <1>1, SizesAre, FourSeats
<1> HIDE DEF others
<1>3. /\ FirstVecEpi \in Seq(others)
      /\ Len(FirstVecEpi) = Len(Own(0)) + Len(Own(1)) + Len(Own(2)) + Len(Own(3))
  BY <1>2, FourParts, FirstVecEpiIs
<1>4. Len(FirstVecEpi) = Len(UnknownCards)
  BY <1>2, <1>3, SizesAre
<1>5. FirstVecEpi \in [1 .. Len(FirstVecEpi) -> others]
  BY <1>3
<1> QED
  BY <1>4, <1>5 DEF DealtTo, others

\* d deals to the first k seats; the others have nothing yet
Part(d, k) ==
  /\ d.ahand \in [Seats -> SUBSET Deck]
  /\ d.left \in SUBSET Elements(UnknownCards)
  /\ \A e \in Seats : IF e >= k THEN d.ahand[e] = {}
                      ELSE /\ Cardinality(d.ahand[e]) = Remaining(e)
                           /\ e = EpiFixed => d.ahand[e] = HandFixed
  /\ \A e \in Seats : d.left \cap d.ahand[e] = {}
  /\ \A e \in Seats : d.ahand[e] \subseteq IF e = EpiFixed THEN HandFixed ELSE Elements(UnknownCards)
  /\ \A e, f \in Seats : e # f => d.ahand[e] \cap d.ahand[f] = {}
  /\ Elements(UnknownCards) \subseteq d.left \cup UNION { d.ahand[e] : e \in Seats }

\* what is dealt next
NextDealt(D, k) ==
  UNION { { [ahand |-> [d.ahand EXCEPT ![k - 1] = hand], left |-> d.left \ hand] :
              hand \in IF k - 1 = EpiFixed THEN {HandFixed} ELSE kSubset(Remaining(k - 1), d.left) } :
          d \in D }

\* One seat more.
LEMMA OneSeatMore ==
  ASSUME PositionOK, NEW D, NEW k \in 1 .. 4, \A d \in D : Part(d, k - 1)
  PROVE  \A d \in NextDealt(D, k) : Part(d, k)
<1> SUFFICES ASSUME NEW d \in D,
                    NEW hand \in IF k - 1 = EpiFixed THEN {HandFixed} ELSE kSubset(Remaining(k - 1), d.left)
             PROVE  Part([ahand |-> [d.ahand EXCEPT ![k - 1] = hand], left |-> d.left \ hand], k)
  BY DEF NextDealt
<1> DEFINE seat == k - 1
           h == [d.ahand EXCEPT ![seat] = hand]
           u == Elements(UnknownCards)
<1>1. /\ d.ahand \in [Seats -> SUBSET Deck] /\ d.left \in SUBSET u
      /\ \A e \in Seats : e >= seat => d.ahand[e] = {}
      /\ \A e \in Seats : e < seat => /\ Cardinality(d.ahand[e]) = Remaining(e)
                                      /\ e = EpiFixed => d.ahand[e] = HandFixed
      /\ \A e \in Seats : d.left \cap d.ahand[e] = {}
      /\ \A e \in Seats : d.ahand[e] \subseteq IF e = EpiFixed THEN HandFixed ELSE u
      /\ \A e, f \in Seats : e # f => d.ahand[e] \cap d.ahand[f] = {}
      /\ u \subseteq d.left \cup UNION { d.ahand[e] : e \in Seats }
  <2>1. Part(d, seat)
    OBVIOUS
  <2>2. \A e \in Seats : e \in Nat /\ seat \in Nat
    BY FourSeats
  <2> QED
    BY <2>1, <2>2 DEF Part
<1>2. seat \in Seats /\ k = seat + 1 /\ \A e \in Seats : e \in Nat /\ (e < k <=> e < seat \/ e = seat)
  BY FourSeats
<1>3. /\ HandFixed \in SUBSET Deck /\ HandFixed \cap u = {} /\ u \subseteq Deck
      /\ Remaining(EpiFixed) = Cardinality(HandFixed)
  <2>1. u = (Deck \ HandFixed) \ PlayedCards
    BY UnknownIs
  <2>2. Remaining(EpiFixed) = Cardinality(HandFixed)
    BY TrueHandsAreGood, EpiFixedSeat DEF HandFixed
  <2> QED
    BY <2>1, <2>2, EpiFixedSeat
<1>4. /\ Cardinality(hand) = Remaining(seat)
      /\ seat = EpiFixed => hand = HandFixed
      /\ seat # EpiFixed => hand \in SUBSET d.left
  BY <1>3 DEF kSubset
<1> HIDE DEF u, seat
<1>5. /\ hand \in SUBSET Deck /\ hand \cap d.left \subseteq hand
      /\ \A e \in Seats : e # seat => hand \cap d.ahand[e] = {}
  <2>1. CASE seat = EpiFixed
    BY <1>1, <1>3, <1>4, <2>1
  <2>2. CASE seat # EpiFixed
    BY <1>1, <1>3, <1>4, <2>2
  <2> QED
    BY <2>1, <2>2
<1>6. /\ h \in [Seats -> SUBSET Deck] /\ h[seat] = hand
      /\ \A e \in Seats : e # seat => h[e] = d.ahand[e]
  BY <1>1, <1>2, <1>5
<1> HIDE DEF h
<1>7. \A e \in Seats : e >= k => h[e] = {}
  BY <1>1, <1>2, <1>6
<1>8. \A e \in Seats : e < k => /\ Cardinality(h[e]) = Remaining(e)
                                /\ e = EpiFixed => h[e] = HandFixed
  BY <1>1, <1>2, <1>4, <1>6
<1>9. \A e \in Seats : (d.left \ hand) \cap h[e] = {}
  BY <1>1, <1>6
<1>10. \A e \in Seats : h[e] \subseteq IF e = EpiFixed THEN HandFixed ELSE u
  BY <1>1, <1>4, <1>6
<1>11. \A e, f \in Seats : e # f => h[e] \cap h[f] = {}
  BY <1>1, <1>5, <1>6
<1>12. u \subseteq (d.left \ hand) \cup UNION { h[e] : e \in Seats }
  <2>1. \A e \in Seats : d.ahand[e] \subseteq h[e]
    <3>1. d.ahand[seat] = {}
      BY <1>1, <1>2
    <3> QED
      BY <1>6, <3>1
  <2>2. hand \subseteq UNION { h[e] : e \in Seats }
    BY <1>2, <1>6
  <2> QED
    BY <1>1, <2>1, <2>2
<1>13. d.left \ hand \in SUBSET u
  BY <1>1
<1> DEFINE dd == [ahand |-> h, left |-> d.left \ hand]
<1>14. dd.ahand = h /\ dd.left = d.left \ hand
  OBVIOUS
<1> HIDE DEF dd
<1>15. \A e \in Seats : IF e >= k THEN dd.ahand[e] = {}
                        ELSE /\ Cardinality(dd.ahand[e]) = Remaining(e)
                             /\ e = EpiFixed => dd.ahand[e] = HandFixed
  BY <1>2, <1>7, <1>8, <1>14
<1>16. Part(dd, k)
  BY <1>6, <1>9, <1>10, <1>11, <1>12, <1>13, <1>14, <1>15 DEF Part, u
<1> QED
  BY <1>16 DEF dd, h, seat

NothingDealt == [ahand |-> [epi \in Seats |-> {}], left |-> Elements(UnknownCards)]

\* one seat after the other is dealt its cards
DealtInTurn(dealt) ==
  /\ dealt[0] = {NothingDealt}
  /\ dealt[1] = NextDealt(dealt[0], 1) /\ dealt[2] = NextDealt(dealt[1], 2)
  /\ dealt[3] = NextDealt(dealt[2], 3) /\ dealt[4] = NextDealt(dealt[3], 4)
  /\ Dealings = { d.ahand : d \in dealt[4] }

\* How the shuffles come about.
LEMMA DealingsAre == \E dealt : DealtInTurn(dealt)
<1> DEFINE start == {NothingDealt}
           dealt == CHOOSE dealt : dealt = [k \in 0 .. N |-> IF k = 0 THEN start ELSE NextDealt(dealt[k - 1], k)]
           one == NextDealt(start, 1)
           two == NextDealt(one, 2)
           three == NextDealt(two, 3)
           four == NextDealt(three, 4)
           g == [k \in 0 .. 4 |-> IF k = 0 THEN start ELSE IF k = 1 THEN one ELSE IF k = 2 THEN two
                                  ELSE IF k = 3 THEN three ELSE four]
<1>1. g = [k \in 0 .. N |-> IF k = 0 THEN start ELSE NextDealt(g[k - 1], k)]
  <2>1. 0 .. N = {0, 1, 2, 3, 4} /\ 0 .. 4 = {0, 1, 2, 3, 4}
    BY FourSeats
  <2>2. /\ g[0] = start /\ g[1] = NextDealt(g[0], 1) /\ g[2] = NextDealt(g[1], 2)
        /\ g[3] = NextDealt(g[2], 3) /\ g[4] = NextDealt(g[3], 4)
    <3>1. g[0] = start /\ g[1] = one /\ g[2] = two /\ g[3] = three /\ g[4] = four
      <4> HIDE DEF start, one, two, three, four
      <4> QED
        OBVIOUS
    <3> HIDE DEF g, start
    <3> QED
      BY <3>1
  <2>3. g = [k \in 0 .. 4 |-> g[k]]
    <3> HIDE DEF start, one, two, three, four
    <3> QED
      OBVIOUS
  <2> HIDE DEF g, start
  <2>4. ASSUME NEW k \in {0, 1, 2, 3, 4} PROVE g[k] = IF k = 0 THEN start ELSE NextDealt(g[k - 1], k)
    <3>1. 1 - 1 = 0 /\ 2 - 1 = 1 /\ 3 - 1 = 2 /\ 4 - 1 = 3
      OBVIOUS
    <3>2. CASE k = 0
      BY <2>2, <3>2
    <3>3. CASE k = 1
      BY <2>2, <3>1, <3>3
    <3>4. CASE k = 2
      BY <2>2, <3>1, <3>4
    <3>5. CASE k = 3
      BY <2>2, <3>1, <3>5
    <3>6. CASE k = 4
      BY <2>2, <3>1, <3>6
    <3> QED
      BY <3>2, <3>3, <3>4, <3>5, <3>6
  <2> QED
    BY <2>1, <2>3, <2>4
<1>2. dealt = [k \in 0 .. N |-> IF k = 0 THEN start ELSE NextDealt(dealt[k - 1], k)]
  <2> HIDE DEF g, start
  <2> QED
    BY <1>1
<1>3. Dealings = { d.ahand : d \in dealt[N] }
  BY DEF Dealings, NextDealt, NothingDealt
<1> HIDE DEF dealt, g, one, two, three, four
<1>4. /\ dealt[0] = start /\ dealt[1] = NextDealt(dealt[0], 1) /\ dealt[2] = NextDealt(dealt[1], 2)
      /\ dealt[3] = NextDealt(dealt[2], 3) /\ dealt[4] = NextDealt(dealt[3], 4)
  <2> HIDE DEF start
  <2>1. 0 .. N = {0, 1, 2, 3, 4} /\ 1 - 1 = 0 /\ 2 - 1 = 1 /\ 3 - 1 = 2 /\ 4 - 1 = 3
    BY FourSeats
  <2>2. ASSUME NEW k \in {0, 1, 2, 3, 4} PROVE dealt[k] = IF k = 0 THEN start ELSE NextDealt(dealt[k - 1], k)
    BY <1>2, <2>1, <2>2, Zenon
  <2>3. /\ dealt[0] = start /\ dealt[1] = NextDealt(dealt[1 - 1], 1) /\ dealt[2] = NextDealt(dealt[2 - 1], 2)
        /\ dealt[3] = NextDealt(dealt[3 - 1], 3) /\ dealt[4] = NextDealt(dealt[4 - 1], 4)
    BY <2>2
  <2> QED
    BY <2>1, <2>3
<1> HIDE DEF start
<1>5. Dealings = { d.ahand : d \in dealt[4] }
  BY <1>3, FourSeats
<1>6. DealtInTurn(dealt)
  BY <1>4, <1>5 DEF DealtInTurn, start
<1> QED
  BY <1>6

\* Every shuffle shares out those cards.
LEMMA DealingsAreGood ==
  ASSUME PositionOK, NEW h \in Dealings
  PROVE  GoodHands(h) /\ \A e \in Seats : Cardinality(h[e]) = Remaining(e)
<1> DEFINE start == {NothingDealt}
<1>3. PICK dealt : DealtInTurn(dealt)
  BY DealingsAre
<1>4. /\ dealt[0] = start /\ dealt[1] = NextDealt(dealt[0], 1) /\ dealt[2] = NextDealt(dealt[1], 2)
      /\ dealt[3] = NextDealt(dealt[2], 3) /\ dealt[4] = NextDealt(dealt[3], 4)
  BY <1>3 DEF DealtInTurn
<1>5. \A d \in start : Part(d, 0)
  <2> DEFINE d == NothingDealt
  <2>1. /\ d.ahand \in [Seats -> SUBSET Deck] /\ \A e \in Seats : d.ahand[e] = {} /\ e >= 0
        /\ d.left = Elements(UnknownCards)
    BY FourSeats DEF NothingDealt
  <2> HIDE DEF d
  <2>2. Part(d, 0)
    BY <2>1 DEF Part
  <2> QED
    BY <2>2 DEF d
<1>6. \A d \in dealt[4] : Part(d, 4)
  <2>1. \A d \in dealt[1] : Part(d, 1)
    <3>1. 1 - 1 = 0 /\ \A d \in dealt[0] : Part(d, 0)
      BY <1>4, <1>5
    <3> HIDE DEF start
    <3> QED
      BY <1>4, <3>1, OneSeatMore
  <2> HIDE DEF start
  <2>2. \A d \in dealt[2] : Part(d, 2)
    <3>1. 2 - 1 = 1
      OBVIOUS
    <3> QED
      BY <1>4, <2>1, <3>1, OneSeatMore
  <2>3. \A d \in dealt[3] : Part(d, 3)
    <3>1. 3 - 1 = 2
      OBVIOUS
    <3> QED
      BY <1>4, <2>2, <3>1, OneSeatMore
  <2>4. 4 - 1 = 3
    OBVIOUS
  <2> QED
    BY <1>4, <2>3, <2>4, OneSeatMore
<1>7. PICK d \in dealt[4] : h = d.ahand
  BY <1>3 DEF DealtInTurn
<1> DEFINE u == Elements(UnknownCards)
<1>8. /\ h \in [Seats -> SUBSET Deck] /\ d.left \in SUBSET u
      /\ \A e \in Seats : Cardinality(h[e]) = Remaining(e) /\ (e = EpiFixed => h[e] = HandFixed)
      /\ \A e \in Seats : d.left \cap h[e] = {}
      /\ \A e \in Seats : h[e] \subseteq IF e = EpiFixed THEN HandFixed ELSE u
      /\ \A e, f \in Seats : e # f => h[e] \cap h[f] = {}
      /\ u \subseteq d.left \cup UNION { h[e] : e \in Seats }
  <2>1. Part(d, 4)
    BY <1>6
  <2>2. \A e \in Seats : ~ (e >= 4)
    BY FourSeats
  <2> QED
    BY <1>7, <2>1, <2>2 DEF Part
<1> HIDE DEF u
<1>9. h[EpiFixed] = HandFixed
  BY <1>8, EpiFixedSeat
<1> DEFINE held == UNION { h[e] : e \in Seats }
<1>10. held \subseteq HandFixed \cup u /\ HandFixed \cup u = d.left \cup held /\ d.left \cap held = {}
  <2>1. held \subseteq HandFixed \cup u
    BY <1>8
  <2>2. HandFixed \subseteq held
    BY <1>9, EpiFixedSeat
  <2>3. d.left \cap held = {}
    BY <1>8
  <2> QED
    BY <1>8, <2>1, <2>2, <2>3
<1>11. HandFixed \cup u = Deck \ PlayedCards /\ IsFiniteSet(Deck \ PlayedCards)
  <2>1. HandFixed \cup u = Deck \ PlayedCards
    BY UnknownIs DEF u
  <2>2. IsFiniteSet(Deck)
    BY FourSeats
  <2> QED
    BY <2>1, <2>2, FS_Subset
<1>12. Cardinality(held) = Cardinality(Deck \ PlayedCards)
  <2>1. Total([e \in Seats |-> Cardinality(h[e])]) = Cardinality(held)
    BY <1>8, CardsOfHands, FourSeats
  <2>2. Total([e \in Seats |-> Cardinality(pos.ahand[e])]) = Cardinality(Deck \ PlayedCards)
    BY TrueHandsAreGood, CardsOfHands, FourSeats DEF GoodHands
  <2>3. \A e \in Seats : Cardinality(h[e]) = Cardinality(pos.ahand[e])
    BY <1>8, TrueHandsAreGood
  <2>4. [e \in Seats |-> Cardinality(h[e])] = [e \in Seats |-> Cardinality(pos.ahand[e])]
    BY <2>3
  <2> QED
    BY <2>1, <2>2, <2>4
<1>13. held = Deck \ PlayedCards
  <2>1. held \in SUBSET (Deck \ PlayedCards)
    BY <1>10, <1>11
  <2> HIDE DEF held
  <2> QED
    BY <1>11, <1>12, <2>1, FS_Subset
<1> QED
  BY <1>8, <1>9, <1>13 DEF GoodHands

------------------------------------------------------------------------------
(***************************************************************************)
(* The hands that were pulled.                                             *)
(***************************************************************************)
PossibleHands == { h \in [Seats -> SUBSET Deck] : GoodHands(h) /\ Compatible(h) }

PulledInv ==
  /\ PositionOK
  /\ vecepi \in DealtTo
  /\ pulled \in Seq(PossibleHands)

\* What depends on the position alone stays as long as the position.
LEMMA PositionStays ==
  ASSUME pos' = pos
  PROVE  /\ PositionOK' <=> PositionOK
         /\ EpiFixed' = EpiFixed /\ HandFixed' = HandFixed /\ AllowedCards' = AllowedCards
         /\ PlayedCards' = PlayedCards
         /\ UnknownCards' = UnknownCards /\ DealtTo' = DealtTo
<1>1. EpiFixed' = EpiFixed
  BY DEF EpiFixed
<1>2. HandFixed' = HandFixed
  BY <1>1 DEF HandFixed
<1>3. AllowedCards' = AllowedCards
  BY <1>1 DEF AllowedCards
<1>4. PlayedCards' = PlayedCards
  BY DEF PlayedCards
<1>5. UnknownCards' = UnknownCards
  BY <1>2, <1>4 DEF UnknownCards
<1>6. DealtTo' = DealtTo
  BY <1>1, <1>5 DEF DealtTo
<1>7. PositionOK' <=> PositionOK
  BY DEF PositionOK, PlayedByTheRules, Remaining, PlayedCards, Compatible, PlayedAsAllowed, Before,
     PlayedBy, PlayedCard, StichOf, CountPlayed
<1> QED
  BY <1>1, <1>2, <1>3, <1>4, <1>5, <1>6, <1>7

\* For hands that do not change, too.
LEMMA JudgementStays ==
  ASSUME pos' = pos, NEW h
  PROVE  /\ GoodHands(h)' <=> GoodHands(h)
         /\ Compatible(h)' <=> Compatible(h)
<1>1. GoodHands(h)' <=> GoodHands(h)
  BY PositionStays DEF GoodHands
<1>2. Compatible(h)' <=> Compatible(h)
  BY DEF Compatible, PlayedAsAllowed, Before, PlayedBy, PlayedCard, StichOf, CountPlayed
<1> QED
  BY <1>1, <1>2

\* The possible hands are the same before and after a step.
LEMMA PossibleHandsStay ==
  ASSUME pos' = pos
  PROVE  PossibleHands' = PossibleHands
<1>1. \A h : (GoodHands(h)' <=> GoodHands(h)) /\ (Compatible(h)' <=> Compatible(h))
  BY JudgementStays
<1>2. /\ PossibleHands = { h \in [Seats -> SUBSET Deck] : GoodHands(h) /\ Compatible(h) }
      /\ PossibleHands' = { h \in [Seats -> SUBSET Deck] : GoodHands(h)' /\ Compatible(h)' }
  BY DEF PossibleHands
<1> QED
  BY <1>1, <1>2

\* No step changes the position, and hands are only added.
LEMMA PulledOrNot ==
  ASSUME [Next]_vars
  PROVE  /\ pos' = pos
         /\ \/ pulled' = pulled /\ (vecepi' = vecepi \/ TryNextHands)
            \/ PullTrueHands \/ PullNextHands \/ PullSample
<1>1. CASE UNCHANGED vars
  BY <1>1 DEF vars
<1>2. CASE SuggestAtOnce \/ SuggestBest \/ Suggested
  BY <1>2 DEF SuggestAtOnce, SuggestBest, Suggested, vars
<1>3. CASE PullTrueHands \/ PullNextHands \/ PullSample
  BY <1>3 DEF PullTrueHands, PullNextHands, PullSample, Pull
<1>4. CASE SkipHands
  BY <1>4 DEF SkipHands
<1>5. CASE \E w \in Workers : BeginSearch(w) \/ SearchStep(w) \/ EnterResult(w)
  BY <1>5 DEF BeginSearch, SearchStep, EnterResult
<1> QED
  BY <1>1, <1>2, <1>3, <1>4, <1>5 DEF Next

\* Every step keeps PulledInv.
LEMMA NextPulledInv == PulledInv /\ [Next]_vars => PulledInv'
<1> SUFFICES ASSUME PulledInv, [Next]_vars PROVE PulledInv'
  OBVIOUS
<1>1. pos' = pos
  BY PulledOrNot
<1>2. PositionOK' /\ DealtTo' = DealtTo
  BY <1>1, PositionStays DEF PulledInv
<1>3. vecepi' \in DealtTo
  <2>1. CASE vecepi' = vecepi
    BY <2>1 DEF PulledInv
  <2>2. CASE TryNextHands
    <3>1. vecepi' = IF HasNextPermutation(vecepi) THEN NextPermutation(vecepi) ELSE vecepi
      BY <2>2 DEF TryNextHands
    <3>2. Len(UnknownCards) \in Nat /\ Seats \ {EpiFixed} \in SUBSET Nat
      BY UnknownIs, FourSeats DEF PulledInv
    <3>3. HasNextPermutation(vecepi) => NextPermutation(vecepi) \in DealtTo
      BY <3>2, NextPermutationIs DEF PulledInv, DealtTo
    <3> QED
      BY <3>1, <3>3 DEF PulledInv
  <2> QED
    BY <2>1, <2>2, PulledOrNot DEF PullTrueHands, PullNextHands, PullSample
<1>4. pulled' \in Seq(PossibleHands)
  <2>1. CASE pulled' = pulled
    BY <2>1 DEF PulledInv
  <2>2. ASSUME NEW h \in PossibleHands, Pull(h) PROVE pulled' \in Seq(PossibleHands)
    BY <2>2 DEF Pull, PulledInv
  <2>3. CASE PullTrueHands
    <3>1. pos.ahand \in PossibleHands
      BY TrueHandsAreGood DEF PulledInv, PositionOK, PlayedByTheRules, PossibleHands, GoodHands
    <3> QED
      BY <2>2, <2>3, <3>1 DEF PullTrueHands
  <2>4. CASE PullNextHands
    <3>1. HandsOf(vecepi) \in PossibleHands
      BY <2>4, HandsOfAreGood DEF PulledInv, PullNextHands, PossibleHands, GoodHands
    <3> QED
      BY <2>2, <2>4, <3>1 DEF PullNextHands
  <2>5. CASE PullSample
    <3>1. PICK h \in Dealings : Compatible(h) /\ Pull(h)
      BY <2>5 DEF PullSample
    <3>2. h \in PossibleHands
      BY <3>1, DealingsAreGood DEF PulledInv, PossibleHands, GoodHands
    <3> QED
      BY <2>2, <3>1, <3>2
  <2> QED
    BY <2>1, <2>3, <2>4, <2>5, PulledOrNot
<1> QED
  BY <1>1, <1>2, <1>3, <1>4, PossibleHandsStay DEF PulledInv

\* The hands that are pulled are always possible ones.
LEMMA InPulledInv == Spec => []PulledInv
<1>1. Init => PulledInv
  <2> SUFFICES ASSUME Init PROVE PulledInv
    OBVIOUS
  <2>1. PositionOK /\ vecepi = FirstVecEpi /\ pulled = <<>>
    BY DEF Init, PositionOK
  <2> QED
    BY <2>1, FirstVecEpiDeals DEF PulledInv
<1> QED
  BY <1>1, NextPulledInv, PTL DEF Spec

\* No hand is searched that contradicts what was seen.
THEOREM NoHandContradicts == Spec => []HandsFitWhatWasSeen
<1>1. PulledInv => HandsFitWhatWasSeen
  <2> SUFFICES ASSUME PulledInv, pulled # <<>> PROVE Fits(Last(pulled))
    BY DEF HandsFitWhatWasSeen, Fits
  <2>1. pulled \in Seq(PossibleHands) /\ Len(pulled) \in 1 .. Len(pulled)
    BY DEF PulledInv
  <2>2. Last(pulled) = pulled[Len(pulled)] /\ pulled[Len(pulled)] \in PossibleHands
    BY <2>1, ElementOfSeq DEF Last
  <2> QED
    BY <2>2, CompatibleFits DEF PulledInv, PossibleHands
<1> QED
  BY <1>1, InPulledInv, PTL

------------------------------------------------------------------------------
(***************************************************************************)
(* A card more, and the same card taken back.                              *)
(***************************************************************************)
StichsOK(vec) ==
  /\ vec \in Seq(Stiche) /\ Len(vec) > 0
  /\ \A i \in 1 .. Len(vec) :
       Len(vec[i].cards) \in 0 .. 4 /\ (Len(vec[i].cards) = 4 <=> i < Len(vec))

\* preliminary_winner_index depends on nothing but the order of the cards
WinnerIn(d, stich) ==
  LET best[i \in 1 .. Len(stich.cards)] ==
        IF i = 1 \/ Less(d, stich.cards[best[i - 1]], stich.cards[i]) THEN i ELSE best[i - 1]
  IN  (stich.epi_first + best[Len(stich.cards)] - 1) % N

\* The winner in every position of the game.
LEMMA SameWinner ==
  ASSUME NEW p, NEW stich
  PROVE  C(p)!PreliminaryWinner(stich) = WinnerIn(p.game.rules.decider, stich)
BY DEF C!PreliminaryWinner, C!BeatsBest, C!SeatAt, WinnerIn, C!Less, C!Deciding, C!SchlagLess, C!FarbeLess,
   C!FarbcardLess, C!Position, C!Farben, Less, Deciding, SchlagLess, FarbeLess, FarbcardLess, Position, Farben

\* The winner is a seat.
LEMMA WinnerIsSeat ==
  ASSUME NEW d, NEW stich \in Stiche, NEW n \in Nat, n > 0, Len(stich.cards) = n
  PROVE  WinnerIn(d, stich) \in Seats
<1> DEFINE beats(b, i) == Less(d, stich.cards[b], stich.cards[i])
           step == [i \in 1 .. n |-> [b \in Nat |-> IF i = 1 \/ beats(b, i) THEN i ELSE b]]
           best == CHOOSE best : best = [i \in 1 .. n |-> IF i = 1 \/ beats(best[i - 1], i) THEN i ELSE best[i - 1]]
<1>1. Steps(n, Nat, step)
  <2> HIDE DEF beats
  <2> QED
    BY DEF Steps
<1>2. PICK f : Follows(f, n, 0, Nat, step)
  <2> HIDE DEF step
  <2>1. \E f : Follows(f, n, 0, Nat, step)
    BY <1>1, RecursionExists
  <2> QED
    BY <2>1
<1> DEFINE g == [i \in 1 .. n |-> f[i]]
<1>3. g = [i \in 1 .. n |-> IF i = 1 \/ beats(g[i - 1], i) THEN i ELSE g[i - 1]]
  <2> SUFFICES ASSUME NEW i \in 1 .. n
               PROVE  g[i] = IF i = 1 \/ beats(g[i - 1], i) THEN i ELSE g[i - 1]
    OBVIOUS
  <2>1. i - 1 \in 0 .. n /\ (i # 1 => i - 1 \in 1 .. n)
    OBVIOUS
  <2>2. f[i - 1] \in Nat /\ f[i] = step[i][f[i - 1]]
    <3> HIDE DEF step
    <3> QED
      BY <1>2, <2>1 DEF Follows
  <2>3. f[i] = IF i = 1 \/ beats(f[i - 1], i) THEN i ELSE f[i - 1]
    <3> HIDE DEF beats
    <3> QED
      BY <2>2
  <2>4. g[i] = f[i] /\ (i # 1 => g[i - 1] = f[i - 1])
    BY <2>1
  <2> HIDE DEF beats, g, step
  <2> QED
    BY <2>3, <2>4
<1>4. best = [i \in 1 .. n |-> IF i = 1 \/ beats(best[i - 1], i) THEN i ELSE best[i - 1]]
  <2> HIDE DEF beats, g
  <2> QED
    BY <1>3
<1>5. WinnerIn(d, stich) = (stich.epi_first + best[n] - 1) % N
  BY DEF WinnerIn
<1> HIDE DEF best
<1> DEFINE Wrong == { i \in 1 .. n : best[i] \notin Nat }
<1>6. ASSUME Wrong # {} PROVE FALSE
  <2>1. Wrong \in SUBSET Nat
    OBVIOUS
  <2>2. PICK i \in Wrong : \A j \in Wrong : i <= j
    BY <1>6, <2>1, LeastOf
  <2>3. i # 1 => i - 1 \in 1 .. n /\ i - 1 \notin Wrong
    BY <2>2
  <2>4. best[i] = IF i = 1 \/ beats(best[i - 1], i) THEN i ELSE best[i - 1]
    <3> HIDE DEF beats
    <3> QED
      BY <1>4
  <2> HIDE DEF beats
  <2> QED
    BY <2>2, <2>3, <2>4
<1>7. best[n] \in Nat /\ stich.epi_first \in Nat /\ N = 4
  BY <1>6, FourSeats DEF Stiche
<1>8. \A k \in Int : k % 4 \in {0, 1, 2, 3}
  OBVIOUS
<1>9. stich.epi_first + best[n] - 1 \in Int
  BY <1>7
<1> QED
  BY <1>5, <1>7, <1>8, <1>9, FourSeats

\* The first k elements of a sequence.
LEMMA FirstElements ==
  ASSUME NEW X, NEW s \in Seq(X), NEW k \in 0 .. Len(s)
  PROVE  /\ SubSeq(s, 1, k) \in Seq(X) /\ Len(SubSeq(s, 1, k)) = k /\ k \in Nat
         /\ \A i \in 1 .. k : SubSeq(s, 1, k)[i] = s[i]
OBVIOUS

\* A sequence with one element more.
LEMMA OneMore ==
  ASSUME NEW X, NEW s \in Seq(X), NEW x \in X
  PROVE  /\ Append(s, x) \in Seq(X) /\ Len(Append(s, x)) = Len(s) + 1 /\ Len(s) \in Nat
         /\ Append(s, x)[Len(s) + 1] = x
         /\ \A i \in 1 .. Len(s) : Append(s, x)[i] = s[i]
         /\ s \o <<x>> = Append(s, x)
OBVIOUS

\* the Stichs vec with one card more, where d is the order of the cards
WithCard(vec, card) ==
  LET stich == vec[Len(vec)]
  IN  [epi_first |-> stich.epi_first, cards |-> Append(stich.cards, card)]

OneCardMore(vec, after, d, card) ==
  /\ after \in Seq(Stiche)
  /\ \A i \in 1 .. Len(vec) - 1 : after[i] = vec[i]
  /\ after[Len(vec)] = WithCard(vec, card)
  /\ Len(vec[Len(vec)].cards) < 3 => Len(after) = Len(vec)
  /\ Len(vec[Len(vec)].cards) = 3 =>
       /\ Len(after) = Len(vec) + 1
       /\ after[Len(vec) + 1] = [epi_first |-> WinnerIn(d, WithCard(vec, card)), cards |-> <<>>]

\* The current Stich, and the same with one card more.
LEMMA CurrentStichOK ==
  ASSUME NEW vec, StichsOK(vec), NEW card \in Deck
  PROVE  /\ Len(vec) \in Nat /\ vec \in Seq(Stiche) /\ vec[Len(vec)] \in Stiche
         /\ vec[Len(vec)].cards \in Seq(Deck) /\ vec[Len(vec)].epi_first \in Seats
         /\ Len(vec[Len(vec)].cards) \in 0 .. 3
         /\ WithCard(vec, card) \in Stiche
         /\ Len(WithCard(vec, card).cards) = Len(vec[Len(vec)].cards) + 1
         /\ WithCard(vec, card) = [vec[Len(vec)] EXCEPT !.cards = Append(@, card)]
<1> DEFINE m == Len(vec)
           stich == vec[m]
           cards == stich.cards
<1>1. vec \in Seq(Stiche) /\ m \in Nat /\ m > 0 /\ Len(cards) \in 0 .. 4 /\ Len(cards) # 4
  BY DEF StichsOK
<1>2. stich \in Stiche
  BY <1>1
<1> HIDE DEF m, stich
<1>3. cards \in Seq(Deck) /\ stich.epi_first \in Seats
  BY <1>2 DEF Stiche
<1>4. [epi_first |-> stich.epi_first, cards |-> Append(cards, card)] = [stich EXCEPT !.cards = Append(@, card)]
  BY <1>2, SMTT(30) DEF Stiche
<1> HIDE DEF cards
<1>5. /\ Append(cards, card) \in Seq(Deck) /\ Len(Append(cards, card)) = Len(cards) + 1
      /\ Len(cards) \in 0 .. 3
  BY <1>1, <1>3
<1>6. [epi_first |-> stich.epi_first, cards |-> Append(cards, card)] \in Stiche
  BY <1>3, <1>5 DEF Stiche
<1>7. WithCard(vec, card) = [epi_first |-> stich.epi_first, cards |-> Append(cards, card)]
  BY DEF WithCard, cards, stich, m
<1> QED
  BY <1>1, <1>2, <1>3, <1>4, <1>5, <1>6, <1>7 DEF m, stich, cards

\* The Stichs after a card.
LEMMA StichsAfterCard ==
  ASSUME NEW p, NEW vec, vec = p.vecstich, StichsOK(vec), NEW card \in Deck
  PROVE  OneCardMore(vec, C(p)!StichsAfter(card), p.game.rules.decider, card)
<1> DEFINE m == Len(vec)
           stich == WithCard(vec, card)
           before == SubSeq(vec, 1, m - 1)
           upto == Append(before, stich)
           new == [epi_first |-> WinnerIn(p.game.rules.decider, stich), cards |-> <<>>]
           after == C(p)!StichsAfter(card)
<1>1. m \in Nat /\ vec \in Seq(Stiche) /\ m > 0
  BY CurrentStichOK DEF StichsOK
<1>2. stich \in Stiche /\ Len(stich.cards) = Len(vec[m].cards) + 1 /\ Len(vec[m].cards) \in 0 .. 3
  BY CurrentStichOK
<1>3. after = upto \o (IF Len(stich.cards) = N THEN <<new>> ELSE <<>>)
  <2>1. C(p)!CompletedStichs = before /\ C(p)!CurrentStich = vec[m]
    BY DEF C!CompletedStichs, C!CurrentStich
  <2>2. C(p)!PreliminaryWinner(stich) = WinnerIn(p.game.rules.decider, stich)
    BY SameWinner
  <2>3. [C(p)!CurrentStich EXCEPT !.cards = Append(@, card)] = stich
    BY <2>1, CurrentStichOK
  <2> HIDE DEF m, stich, before
  <2> QED
    BY <2>1, <2>2, <2>3 DEF C!StichsAfter, C!IsFull, C!Stich
<1> HIDE DEF stich, m
<1>4. /\ before \in Seq(Stiche) /\ Len(before) = m - 1
      /\ \A i \in 1 .. m - 1 : before[i] = vec[i]
  <2>1. m - 1 \in 0 .. Len(vec)
    BY <1>1 DEF m
  <2> QED
    BY <1>1, <2>1, FirstElements
<1> HIDE DEF before
<1>5. /\ upto \in Seq(Stiche) /\ Len(upto) = m /\ upto[m] = stich
      /\ \A i \in 1 .. m - 1 : upto[i] = vec[i]
  <2>1. m - 1 + 1 = m /\ 1 .. Len(before) = 1 .. m - 1
    BY <1>1, <1>4
  <2> QED
    BY <1>2, <1>4, <2>1, OneMore
<1> HIDE DEF upto
<1>6. CASE Len(vec[m].cards) # 3
  <2>1. Len(stich.cards) # N
    <3> DEFINE a == Len(stich.cards)
               b == Len(vec[m].cards)
    <3>1. a = b + 1 /\ b \in 0 .. 3 /\ b # 3 /\ N = 4
      BY <1>2, <1>6, FourSeats
    <3> HIDE DEF a, b
    <3>2. a # N
      BY <3>1
    <3> QED
      BY <3>2 DEF a
  <2>2. upto \o <<>> = upto
    BY <1>5
  <2>3. after = upto
    BY <1>3, <2>1, <2>2
  <2> HIDE DEF after, new
  <2>4. /\ after \in Seq(Stiche) /\ Len(after) = m /\ after[m] = stich
        /\ \A i \in 1 .. m - 1 : after[i] = vec[i]
    BY <1>5, <2>3
  <2> QED
    BY <1>6, <2>4 DEF OneCardMore, m, stich, after
<1>7. CASE Len(vec[m].cards) = 3
  <2>1. Len(stich.cards) = 4 /\ N = 4
    BY <1>2, <1>7, FourSeats
  <2>2. new \in Stiche
    BY <1>2, <2>1, WinnerIsSeat DEF Stiche
  <2>3. after = upto \o <<new>>
    BY <1>3, <2>1
  <2> HIDE DEF new, after
  <2>4. /\ after \in Seq(Stiche) /\ Len(after) = m + 1 /\ after[m + 1] = new
        /\ \A i \in 1 .. m : after[i] = upto[i]
    BY <1>5, <2>2, <2>3, OneMore
  <2>5. \A i \in 1 .. m - 1 : after[i] = vec[i]
    BY <1>1, <1>5, <2>4
  <2>6. after[m] = stich
    BY <1>1, <1>5, <2>4
  <2> QED
    BY <1>7, <2>4, <2>5, <2>6 DEF OneCardMore, after, stich, new, m
<1> QED
  BY <1>6, <1>7

CardsIn(vec) == UNION { Elements(vec[i].cards) : i \in 1 .. Len(vec) }

\* how many cards lie on the table
CountOf(vec) == 4 * (Len(vec) - 1) + Len(vec[Len(vec)].cards)

\* every Stich is led by the winner of the one before
Chained(d, vec) == \A i \in 2 .. Len(vec) : vec[i].epi_first = WinnerIn(d, vec[i - 1])

\* With one card more the Stichs are as they should be.
LEMMA OneCardMoreOK ==
  ASSUME NEW d, NEW vec, StichsOK(vec), NEW card \in Deck, NEW after, OneCardMore(vec, after, d, card)
  PROVE  /\ StichsOK(after)
         /\ CountOf(after) = CountOf(vec) + 1
         /\ CardsIn(after) = CardsIn(vec) \cup {card}
         /\ Chained(d, vec) => Chained(d, after)
         /\ BetweenStichs(after) <=> Len(after) = Len(vec) + 1
         /\ Len(after) \in {Len(vec), Len(vec) + 1}
<1> DEFINE m == Len(vec)
           stich == WithCard(vec, card)
           new == [epi_first |-> WinnerIn(d, stich), cards |-> <<>>]
           l == Len(vec[m].cards)
<1>1. /\ m \in Nat /\ m > 0 /\ vec[m].cards \in Seq(Deck) /\ l \in 0 .. 3
      /\ stich \in Stiche /\ Len(stich.cards) = l + 1
      /\ stich.cards = Append(vec[m].cards, card) /\ stich.epi_first = vec[m].epi_first
      /\ \A i \in 1 .. m : Len(vec[i].cards) \in 0 .. 4 /\ (Len(vec[i].cards) = 4 <=> i < m)
  BY CurrentStichOK DEF StichsOK, WithCard
<1>2. /\ after \in Seq(Stiche)
      /\ \A i \in 1 .. m - 1 : after[i] = vec[i]
      /\ after[m] = stich
      /\ l < 3 => Len(after) = m
      /\ l = 3 => Len(after) = m + 1 /\ after[m + 1] = new
  BY DEF OneCardMore
<1>3. Elements(stich.cards) = Elements(vec[m].cards) \cup {card}
  BY <1>1, AppendElements
<1>4. new.cards = <<>> /\ Len(new.cards) = 0 /\ new.epi_first = WinnerIn(d, stich)
  OBVIOUS
<1>5. CardsIn(vec) = (UNION { Elements(vec[i].cards) : i \in 1 .. m - 1 }) \cup Elements(vec[m].cards)
  <2>1. 1 .. m = (1 .. m - 1) \cup {m}
    BY <1>1
  <2> HIDE DEF m
  <2> QED
    BY <2>1 DEF CardsIn, m
<1>6. \A i \in 2 .. m : i - 1 \in 1 .. m - 1
  BY <1>1
<1> HIDE DEF m, stich, new, l
<1>7. CASE l # 3
  <2>1. Len(after) = m /\ l < 3
    BY <1>1, <1>2, <1>7
  <2>2. StichsOK(after)
    <3>1. ASSUME NEW i \in 1 .. m
          PROVE  Len(after[i].cards) \in 0 .. 4 /\ (Len(after[i].cards) = 4 <=> i < m)
      <4>1. CASE i = m
        <5> DEFINE a == Len(after[i].cards)
        <5>1. a = l + 1
          BY <1>1, <1>2, <4>1
        <5> HIDE DEF a
        <5>2. a \in 0 .. 4 /\ a # 4 /\ ~ (i < m)
          BY <1>1, <2>1, <4>1, <5>1
        <5> QED
          BY <5>2 DEF a
      <4>2. CASE i # m
        <5>1. i \in 1 .. m - 1
          BY <1>1, <4>2
        <5> QED
          BY <1>1, <1>2, <5>1
      <4> QED
        BY <4>1, <4>2
    <3> QED
      BY <1>1, <1>2, <2>1, <3>1 DEF StichsOK
  <2>3. CountOf(after) = CountOf(vec) + 1
    <3>1. CountOf(after) = 4 * (m - 1) + (l + 1) /\ CountOf(vec) = 4 * (m - 1) + l
      BY <1>1, <1>2, <2>1 DEF CountOf, m, l
    <3> QED
      BY <1>1, <3>1
  <2>4. CardsIn(after) = CardsIn(vec) \cup {card}
    <3>1. 1 .. m = (1 .. m - 1) \cup {m}
      BY <1>1
    <3>2. CardsIn(after) = (UNION { Elements(after[i].cards) : i \in 1 .. m - 1 }) \cup Elements(after[m].cards)
      BY <2>1, <3>1 DEF CardsIn
    <3>3. UNION { Elements(after[i].cards) : i \in 1 .. m - 1 } = UNION { Elements(vec[i].cards) : i \in 1 .. m - 1 }
      BY <1>2
    <3> QED
      BY <1>2, <1>3, <1>5, <3>2, <3>3
  <2>5. ASSUME Chained(d, vec) PROVE Chained(d, after)
    <3>1. ASSUME NEW i \in 2 .. m PROVE after[i].epi_first = WinnerIn(d, after[i - 1])
      <4>1. vec[i].epi_first = WinnerIn(d, vec[i - 1]) /\ after[i - 1] = vec[i - 1]
        BY <1>2, <1>6, <2>5 DEF Chained, m
      <4>2. after[i].epi_first = vec[i].epi_first
        <5>1. CASE i = m
          BY <1>1, <1>2, <5>1
        <5>2. CASE i # m
          <6>1. i \in 1 .. m - 1
            BY <1>1, <5>2
          <6> QED
            BY <1>2, <6>1
        <5> QED
          BY <5>1, <5>2
      <4> QED
        BY <4>1, <4>2
    <3> QED
      BY <2>1, <3>1 DEF Chained
  <2>6. ~ BetweenStichs(after)
    BY <1>1, <1>2, <2>1 DEF BetweenStichs
  <2> QED
    BY <1>1, <2>1, <2>2, <2>3, <2>4, <2>5, <2>6 DEF m
<1>8. CASE l = 3
  <2>1. Len(after) = m + 1 /\ after[m + 1] = new
    BY <1>2, <1>8
  <2>2. StichsOK(after)
    <3>1. ASSUME NEW i \in 1 .. m + 1
          PROVE  Len(after[i].cards) \in 0 .. 4 /\ (Len(after[i].cards) = 4 <=> i < m + 1)
      <4>1. CASE i = m
        <5> DEFINE a == Len(after[i].cards)
        <5>1. a = l + 1
          BY <1>1, <1>2, <4>1
        <5> HIDE DEF a
        <5>2. a \in 0 .. 4 /\ a = 4 /\ i < m + 1
          BY <1>1, <1>8, <4>1, <5>1
        <5> QED
          BY <5>2 DEF a
      <4>2. CASE i = m + 1
        <5> DEFINE a == Len(after[i].cards)
        <5>1. a = 0
          BY <1>4, <2>1, <4>2
        <5> HIDE DEF a
        <5>2. a \in 0 .. 4 /\ a # 4 /\ ~ (i < m + 1)
          BY <1>1, <4>2, <5>1
        <5> QED
          BY <5>2 DEF a
      <4>3. CASE i # m /\ i # m + 1
        <5>1. i \in 1 .. m - 1 /\ i < m /\ i < m + 1
          BY <1>1, <4>3
        <5> QED
          BY <1>1, <1>2, <5>1
      <4> QED
        BY <4>1, <4>2, <4>3
    <3> QED
      BY <1>1, <1>2, <2>1, <3>1 DEF StichsOK
  <2>3. CountOf(after) = CountOf(vec) + 1
    <3>1. CountOf(after) = 4 * ((m + 1) - 1) + 0 /\ CountOf(vec) = 4 * (m - 1) + 3
      BY <1>1, <1>4, <1>8, <2>1 DEF CountOf, m, l
    <3> QED
      BY <1>1, <3>1
  <2>4. CardsIn(after) = CardsIn(vec) \cup {card}
    <3>1. 1 .. m + 1 = (1 .. m - 1) \cup {m, m + 1}
      BY <1>1
    <3>2. CardsIn(after) = (UNION { Elements(after[i].cards) : i \in 1 .. m - 1 })
                             \cup Elements(after[m].cards) \cup Elements(after[m + 1].cards)
      BY <2>1, <3>1 DEF CardsIn
    <3>3. UNION { Elements(after[i].cards) : i \in 1 .. m - 1 } = UNION { Elements(vec[i].cards) : i \in 1 .. m - 1 }
      BY <1>2
    <3>4. Elements(after[m + 1].cards) = {}
      BY <1>4, <2>1 DEF Elements
    <3> QED
      BY <1>2, <1>3, <1>5, <3>2, <3>3, <3>4
  <2>5. ASSUME Chained(d, vec) PROVE Chained(d, after)
    <3>1. ASSUME NEW i \in 2 .. m + 1 PROVE after[i].epi_first = WinnerIn(d, after[i - 1])
      <4>1. CASE i = m + 1
        <5>1. i - 1 = m
          BY <1>1, <4>1
        <5> QED
          BY <1>2, <1>4, <2>1, <4>1, <5>1
      <4>2. CASE i # m + 1
        <5>1. i \in 2 .. m /\ i - 1 \in 1 .. m - 1
          BY <1>1, <4>2
        <5>2. vec[i].epi_first = WinnerIn(d, vec[i - 1]) /\ after[i - 1] = vec[i - 1]
          BY <1>2, <5>1, <2>5 DEF Chained, m
        <5>3. after[i].epi_first = vec[i].epi_first
          <6>1. CASE i = m
            BY <1>1, <1>2, <6>1
          <6>2. CASE i # m
            <7>1. i \in 1 .. m - 1
              BY <1>1, <5>1, <6>2
            <7> QED
              BY <1>2, <7>1
          <6> QED
            BY <6>1, <6>2
        <5> QED
          BY <5>2, <5>3
      <4> QED
        BY <4>1, <4>2
    <3> QED
      BY <2>1, <3>1 DEF Chained
  <2>6. BetweenStichs(after)
    BY <1>4, <2>1 DEF BetweenStichs
  <2> QED
    BY <1>1, <2>1, <2>2, <2>3, <2>4, <2>5, <2>6 DEF m
<1> QED
  BY <1>7, <1>8

\* What it says of the Stichs alone.
LEMMA OneCardMoreEnds ==
  ASSUME NEW d, NEW vec, StichsOK(vec), NEW card \in Deck, NEW after, OneCardMore(vec, after, d, card)
  PROVE  /\ StichsOK(after)
         /\ BetweenStichs(after) <=> Len(after) = Len(vec) + 1
         /\ Len(after) \in {Len(vec), Len(vec) + 1}
BY OneCardMoreOK, ZenonT(90)

\* The card that was played last is taken back.
LEMMA CardIsTakenBack ==
  ASSUME NEW p, NEW d, NEW vec, StichsOK(vec), NEW card \in Deck, NEW after, OneCardMore(vec, after, d, card)
  PROVE  C(p)!Restored(after) = vec
<1> DEFINE m == Len(vec)
           stich == WithCard(vec, card)
           cards == vec[m].cards
           first == SubSeq(after, 1, m)
           restored == [first EXCEPT ![m].cards = SubSeq(@, 1, Len(@) - 1)]
<1>1. /\ m \in Nat /\ m > 0 /\ vec \in Seq(Stiche) /\ vec[m] \in Stiche /\ cards \in Seq(Deck)
      /\ Len(cards) \in 0 .. 3 /\ stich \in Stiche /\ stich.cards = Append(cards, card)
      /\ stich.epi_first = vec[m].epi_first
  BY CurrentStichOK DEF StichsOK, WithCard
<1>2. /\ after \in Seq(Stiche) /\ Len(after) \in {m, m + 1} /\ after[m] = stich
      /\ \A i \in 1 .. m - 1 : after[i] = vec[i]
      /\ after[Len(after)].cards = <<>> <=> Len(after) = m + 1
  <2>1. (BetweenStichs(after) <=> Len(after) = m + 1) /\ Len(after) \in {m, m + 1}
    BY OneCardMoreEnds, SMTT(30)
  <2> QED
    BY <2>1 DEF OneCardMore, BetweenStichs
<1>3. C(p)!Restored(after) = restored
  <2>1. Len(after) - (IF after[Len(after)].cards = <<>> THEN 1 ELSE 0) = m
    BY <1>1, <1>2
  <2> HIDE DEF m
  <2> QED
    BY <2>1 DEF C!Restored
<1> HIDE DEF m, stich
<1>4. /\ first \in Seq(Stiche) /\ Len(first) = m
      /\ \A i \in 1 .. m : first[i] = after[i]
  <2>1. m \in 0 .. Len(after)
    BY <1>1, <1>2
  <2> QED
    BY <1>2, <2>1, FirstElements
<1>5. SubSeq(stich.cards, 1, Len(stich.cards) - 1) = cards
  <2> HIDE DEF cards
  <2>1. SubSeq(Append(cards, card), 1, Len(Append(cards, card)) - 1) = cards
    BY <1>1
  <2> QED
    BY <1>1, <2>1
<1>6. [first[m] EXCEPT !.cards = SubSeq(@, 1, Len(@) - 1)] = vec[m]
  <2>1. m \in 1 .. m
    BY <1>1
  <2>2. first[m] = stich
    BY <1>2, <1>4, <2>1
  <2>3. [stich EXCEPT !.cards = SubSeq(@, 1, Len(@) - 1)] = [stich EXCEPT !.cards = cards]
    BY <1>1, <1>5 DEF Stiche
  <2>4. [stich EXCEPT !.cards = cards] = vec[m]
    BY <1>1 DEF Stiche
  <2> QED
    BY <2>2, <2>3, <2>4
<1> HIDE DEF first
<1>7. restored = [first EXCEPT ![m] = vec[m]]
  BY <1>6
<1>8. restored \in Seq(Stiche) /\ Len(restored) = m /\ \A i \in 1 .. m : restored[i] = IF i = m THEN vec[m] ELSE first[i]
  <2> DEFINE new == [first EXCEPT ![m] = vec[m]]
  <2>1. m \in 1 .. Len(first)
    BY <1>1, <1>4
  <2>2. new \in Seq(Stiche) /\ Len(new) = Len(first)
        /\ \A i \in 1 .. Len(first) : new[i] = IF i = m THEN vec[m] ELSE first[i]
    BY <1>1, <1>4, <2>1, ExceptSeq
  <2> HIDE DEF new, restored
  <2>3. restored = new
    BY <1>7 DEF new
  <2> QED
    BY <1>4, <2>2, <2>3
<1>9. \A i \in 1 .. m : restored[i] = vec[i]
  <2> SUFFICES ASSUME NEW i \in 1 .. m PROVE restored[i] = vec[i]
    OBVIOUS
  <2>1. CASE i = m
    BY <1>8, <2>1
  <2>2. CASE i # m
    <3>1. i \in 1 .. m - 1
      BY <1>1, <2>2
    <3> QED
      BY <1>2, <1>4, <1>8, <2>2, <3>1
  <2> QED
    BY <2>1, <2>2
<1> HIDE DEF restored
<1>10. restored = vec
  BY <1>1, <1>8, <1>9, SeqEqual DEF m
<1> QED
  BY <1>3, <1>10

------------------------------------------------------------------------------
(***************************************************************************)
(* The points of a Stich, and the cache that counts the Stichs.            *)
(***************************************************************************)
SumsUp(f, n, values) ==
  /\ f \in [0 .. n -> Int]
  /\ f[0] = 0
  /\ \A i \in 1 .. n : f[i] = f[i - 1] + values[i]

\* The sum of a sequence is reached by adding one value after the other.
LEMMA SumIs ==
  ASSUME NEW n \in Nat, NEW values \in [1 .. n -> Int]
  PROVE  Len(values) = n /\ \E f : SumsUp(f, n, values) /\ SumInOrder(values) = f[n]
<1> DEFINE step == [i \in 1 .. n |-> [t \in Int |-> t + values[i]]]
           upto == CHOOSE upto : upto = [i \in 0 .. n |-> IF i = 0 THEN 0 ELSE upto[i - 1] + values[i]]
<1>0. Len(values) = n
  BY FunctionIsSeq
<1>1. Steps(n, Int, step) /\ 0 \in Int
  BY DEF Steps
<1>2. PICK f : Follows(f, n, 0, Int, step)
  <2> HIDE DEF step
  <2>1. \E f : Follows(f, n, 0, Int, step)
    BY <1>1, RecursionExists
  <2> QED
    BY <2>1
<1>3. /\ f \in [0 .. n -> Int] /\ f[0] = 0
      /\ \A i \in 1 .. n : f[i - 1] \in Int /\ f[i] = f[i - 1] + values[i]
  <2>1. f \in [0 .. n -> Int] /\ f[0] = 0
    BY <1>2 DEF Follows
  <2>2. ASSUME NEW i \in 1 .. n PROVE f[i - 1] \in Int /\ f[i] = f[i - 1] + values[i]
    <3>1. i - 1 \in 0 .. n /\ f[i] = step[i][f[i - 1]]
      <4> HIDE DEF step
      <4> QED
        BY <1>2 DEF Follows
    <3>2. f[i - 1] \in Int
      BY <2>1, <3>1
    <3> QED
      BY <3>1, <3>2
  <2> QED
    BY <2>1, <2>2
<1> HIDE DEF step
<1>4. f = [i \in 0 .. n |-> IF i = 0 THEN 0 ELSE f[i - 1] + values[i]]
  <2>1. \A i \in 0 .. n : i # 0 => i \in 1 .. n
    OBVIOUS
  <2> QED
    BY <1>3, <2>1
<1>5. upto = [i \in 0 .. n |-> IF i = 0 THEN 0 ELSE upto[i - 1] + values[i]]
  BY <1>4
<1>6. SumInOrder(values) = upto[n]
  BY <1>0 DEF SumInOrder
<1>7. upto[0] = 0 /\ \A i \in 1 .. n : upto[i] = upto[i - 1] + values[i]
  <2>1. 0 \in 0 .. n /\ \A i \in 1 .. n : i \in 0 .. n /\ i # 0
    OBVIOUS
  <2> HIDE DEF upto
  <2> QED
    BY <1>5, <2>1
<1> HIDE DEF upto
<1>8. FollowsIn(upto, n, 0, Int, step)
  BY <1>7 DEF FollowsIn, step
<1>9. Agree(f, upto, n)
  BY <1>2, <1>8, RecursionsAgree
<1>10. upto[n] = f[n]
  BY <1>9 DEF Agree
<1> QED
  BY <1>0, <1>3, <1>6, <1>10 DEF SumsUp

\* The points of a Stich are a number.
LEMMA PointsOfStich == ASSUME NEW stich \in Stiche PROVE PointsStich(stich) \in Int
<1> DEFINE n == Len(stich.cards)
           values == [i \in 1 .. n |-> PointsCard(stich.cards[i])]
<1>1. n \in Nat
  BY DEF Stiche
<1>2. \A card : PointsCard(card) \in Int
  BY DEF PointsCard
<1>3. values \in [1 .. n -> Int]
  BY <1>2
<1>4. PointsStich(stich) = SumInOrder(values)
  BY DEF PointsStich
<1> HIDE DEF n, values
<1>5. PICK f : SumsUp(f, n, values) /\ SumInOrder(values) = f[n]
  <2>1. \E f : SumsUp(f, n, values) /\ SumInOrder(values) = f[n]
    BY <1>1, <1>3, SumIs
  <2> QED
    BY <2>1
<1> QED
  BY <1>1, <1>4, <1>5 DEF SumsUp

Counts == [n_stich : Int, n_point : Int]
NoCounts == [epi \in EPIs |-> [n_stich |-> 0, n_point |-> 0]]

\* the counts with one Stich more
Registered(counts, epi_winner, n_point) ==
  [counts EXCEPT ![epi_winner] = [n_stich |-> @.n_stich + 1, n_point |-> @.n_point + n_point]]

\* They are counts again.
LEMMA RegisteredIs ==
  ASSUME NEW c \in [EPIs -> Counts], NEW w, NEW k \in Int
  PROVE  Registered(c, w, k) \in [EPIs -> Counts]
<1>1. ASSUME NEW e \in EPIs
      PROVE  [n_stich |-> c[e].n_stich + 1, n_point |-> c[e].n_point + k] \in Counts
  <2>1. c[e].n_stich \in Int /\ c[e].n_point \in Int
    BY DEF Counts
  <2> QED
    BY <2>1 DEF Counts
<1>2. ASSUME NEW e \in EPIs
      PROVE  Registered(c, w, k)[e] = IF e = w THEN [n_stich |-> c[e].n_stich + 1, n_point |-> c[e].n_point + k]
                                      ELSE c[e]
  BY DEF Registered
<1>3. Registered(c, w, k) = [e \in EPIs |-> Registered(c, w, k)[e]]
  BY DEF Registered
<1>4. ASSUME NEW e \in EPIs PROVE Registered(c, w, k)[e] \in Counts
  BY <1>1, <1>2
<1> QED
  BY <1>3, <1>4

CountsUp(f, n, vec) ==
  /\ f \in [0 .. n -> [EPIs -> Counts]]
  /\ f[0] = NoCounts
  /\ \A i \in 1 .. n : f[i] = Registered(f[i - 1], vec[i + 1].epi_first, PointsStich(vec[i]))

\* The cache is reached by registering one Stich after the other.
LEMMA RecountIs ==
  ASSUME NEW vec, StichsOK(vec), NEW n, n = Len(vec) - 1
  PROVE  n \in Nat /\ \E f : CountsUp(f, n, vec) /\ Recount(vec) = f[n]
<1> DEFINE S == [EPIs -> Counts]
           one(c, i) == Registered(c, vec[i + 1].epi_first, PointsStich(vec[i]))
           step == [i \in 1 .. n |-> [c \in S |-> one(c, i)]]
           upto == CHOOSE upto : upto = [i \in 0 .. n |-> IF i = 0 THEN NoCounts ELSE one(upto[i - 1], i)]
<1>0. n \in Nat /\ \A i \in 1 .. n : vec[i] \in Stiche
  BY DEF StichsOK
<1>1. Steps(n, S, step) /\ NoCounts \in S
  <2>1. NoCounts \in S
    BY DEF NoCounts, Counts
  <2>2. ASSUME NEW i \in 1 .. n, NEW c \in S PROVE one(c, i) \in S
    <3>1. PointsStich(vec[i]) \in Int
      BY <1>0, PointsOfStich
    <3> QED
      BY <3>1, RegisteredIs
  <2> HIDE DEF one, S
  <2> QED
    BY <2>1, <2>2 DEF Steps
<1> HIDE DEF S
<1>2. PICK f : Follows(f, n, NoCounts, S, step)
  <2> HIDE DEF step
  <2>1. \E f : Follows(f, n, NoCounts, S, step)
    BY <1>0, <1>1, RecursionExists
  <2> QED
    BY <2>1
<1>3. /\ f \in [0 .. n -> S] /\ f[0] = NoCounts
      /\ \A i \in 1 .. n : f[i - 1] \in S /\ f[i] = one(f[i - 1], i)
  <2>1. f \in [0 .. n -> S] /\ f[0] = NoCounts
    BY <1>2 DEF Follows
  <2>2. ASSUME NEW i \in 1 .. n PROVE f[i - 1] \in S /\ f[i] = one(f[i - 1], i)
    <3> HIDE DEF one
    <3>1. i - 1 \in 0 .. n /\ f[i] = step[i][f[i - 1]]
      BY <1>0, <1>2 DEF Follows
    <3>2. f[i - 1] \in S
      BY <2>1, <3>1
    <3> QED
      BY <3>1, <3>2
  <2> QED
    BY <2>1, <2>2
<1>6. Recount(vec) = upto[n]
  BY DEF Recount, NoCounts, Registered
<1> HIDE DEF one
<1>4. f = [i \in 0 .. n |-> IF i = 0 THEN NoCounts ELSE one(f[i - 1], i)]
  <2>1. \A i \in 0 .. n : i # 0 => i \in 1 .. n
    BY <1>0
  <2> HIDE DEF step
  <2> QED
    BY <1>3, <2>1
<1>5. upto = [i \in 0 .. n |-> IF i = 0 THEN NoCounts ELSE one(upto[i - 1], i)]
  BY <1>4
<1>7. upto[0] = NoCounts /\ \A i \in 1 .. n : upto[i] = one(upto[i - 1], i)
  <2>1. 0 \in 0 .. n /\ \A i \in 1 .. n : i \in 0 .. n /\ i # 0
    BY <1>0
  <2> HIDE DEF upto
  <2> QED
    BY <1>5, <2>1
<1> HIDE DEF upto
<1>8. FollowsIn(upto, n, NoCounts, S, step)
  BY <1>7 DEF FollowsIn, step
<1> HIDE DEF step
<1>9. Agree(f, upto, n)
  BY <1>0, <1>2, <1>8, RecursionsAgree
<1>10. upto[n] = f[n]
  BY <1>0, <1>9 DEF Agree
<1> QED
  BY <1>0, <1>3, <1>6, <1>10 DEF CountsUp, S, one

\* The same Stichs count the same.
LEMMA CountsSame ==
  ASSUME NEW n \in Nat, NEW k \in Nat, n <= k, NEW f, NEW g, NEW vec, NEW other,
         CountsUp(f, n, vec), CountsUp(g, k, other),
         \A i \in 1 .. n : other[i] = vec[i] /\ other[i + 1].epi_first = vec[i + 1].epi_first
  PROVE  f[n] = g[n]
<1> DEFINE Wrong == { i \in 0 .. n : f[i] # g[i] }
<1>1. ASSUME Wrong # {} PROVE FALSE
  <2>1. Wrong \in SUBSET Nat
    OBVIOUS
  <2>2. PICK i \in Wrong : \A j \in Wrong : i <= j
    BY <1>1, <2>1, LeastOf
  <2>3. i # 0
    BY <2>2 DEF CountsUp
  <2>4. i \in 1 .. n /\ i \in 1 .. k /\ i - 1 \in 0 .. n /\ i - 1 \notin Wrong
    BY <2>2, <2>3
  <2>5. f[i - 1] = g[i - 1]
    BY <2>4
  <2>6. /\ f[i] = Registered(f[i - 1], vec[i + 1].epi_first, PointsStich(vec[i]))
        /\ g[i] = Registered(g[i - 1], other[i + 1].epi_first, PointsStich(other[i]))
    BY <2>4 DEF CountsUp
  <2>7. other[i] = vec[i] /\ other[i + 1].epi_first = vec[i + 1].epi_first
    BY <2>4
  <2> QED
    BY <2>2, <2>5, <2>6, <2>7
<1> QED
  BY <1>1

\* after counts as vec does, or with one Stich more
CountsAfter(vec, after) ==
  /\ ~ BetweenStichs(after) => Recount(after) = Recount(vec)
  /\ BetweenStichs(after) =>
       Recount(after) = Registered(Recount(vec), after[Len(after)].epi_first, PointsStich(after[Len(after) - 1]))

\* With one card more the cache is the same, or one Stich more is registered.
LEMMA RecountAfter ==
  ASSUME NEW d, NEW vec, StichsOK(vec), NEW card \in Deck, NEW after, OneCardMore(vec, after, d, card)
  PROVE  Recount(vec) \in [EPIs -> Counts] /\ CountsAfter(vec, after)
<1> DEFINE m == Len(vec)
           n == m - 1
           k == Len(after) - 1
<1>1. /\ StichsOK(after) /\ (BetweenStichs(after) <=> Len(after) = m + 1)
      /\ Len(after) \in {m, m + 1}
  BY OneCardMoreEnds, SMTT(30)
<1>2. /\ \A i \in 1 .. n : after[i] = vec[i]
      /\ after[m].epi_first = vec[m].epi_first
  BY DEF OneCardMore, WithCard
<1>3. n \in Nat /\ k \in Nat /\ m = n + 1 /\ n <= k /\ (k = n \/ k = n + 1)
  <2>1. m \in Nat /\ m > 0
    BY DEF StichsOK
  <2> QED
    BY <1>1, <2>1
<1>4. PICK f : CountsUp(f, n, vec) /\ Recount(vec) = f[n]
  <2>1. \E f : CountsUp(f, n, vec) /\ Recount(vec) = f[n]
    BY RecountIs
  <2> QED
    BY <2>1
<1>5. PICK g : CountsUp(g, k, after) /\ Recount(after) = g[k]
  <2>1. \E g : CountsUp(g, k, after) /\ Recount(after) = g[k]
    BY <1>1, RecountIs
  <2> QED
    BY <2>1
<1> HIDE DEF m, n, k
<1>6. f[n] = g[n]
  <2>1. ASSUME NEW i \in 1 .. n PROVE after[i] = vec[i] /\ after[i + 1].epi_first = vec[i + 1].epi_first
    <3>1. CASE i + 1 = m
      BY <1>2, <3>1
    <3>2. CASE i + 1 # m
      <4>1. i + 1 \in 1 .. n
        BY <1>3, <3>2
      <4> QED
        BY <1>2, <4>1
    <3> QED
      BY <3>1, <3>2
  <2> QED
    BY <1>3, <1>4, <1>5, <2>1, CountsSame
<1>7. Recount(vec) \in [EPIs -> Counts]
  <2>1. n \in 0 .. n
    BY <1>3
  <2> QED
    BY <1>4, <2>1 DEF CountsUp
<1>8. ASSUME ~ BetweenStichs(after) PROVE Recount(after) = Recount(vec)
  <2>1. Len(after) # m + 1
    BY <1>1, <1>8
  <2>2. k = n
    BY <1>1, <1>3, <2>1 DEF k, n
  <2> QED
    BY <1>4, <1>5, <1>6, <2>2
<1>9. ASSUME BetweenStichs(after)
      PROVE  Recount(after) = Registered(Recount(vec), after[Len(after)].epi_first, PointsStich(after[Len(after) - 1]))
  <2>1. Len(after) = m + 1
    BY <1>1, <1>9
  <2>2. k = n + 1 /\ k \in 1 .. k /\ k + 1 = Len(after) /\ k = Len(after) - 1 /\ k - 1 = n
    BY <1>3, <2>1 DEF k, n
  <2>3. g[k] = Registered(g[k - 1], after[k + 1].epi_first, PointsStich(after[k]))
    BY <1>5, <2>2 DEF CountsUp
  <2> QED
    BY <1>4, <1>5, <1>6, <2>2, <2>3
<1> QED
  BY <1>7, <1>8, <1>9 DEF CountsAfter

------------------------------------------------------------------------------
(***************************************************************************)
(* The four values of a line of play: one card more.                       *)
(***************************************************************************)
Payouts == [EPIs -> Int]
Outputs == [Strategies -> Payouts]

\* the player epi gets no more from others who play against it than from others who
\* play for themselves, and from those no more than from others who play for it
OrderedFor(epi, output) ==
  /\ output["t_min"][epi] <= output["t_selfish_min"][epi]
  /\ output["t_min"][epi] <= output["t_selfish_max"][epi]
  /\ output["t_selfish_min"][epi] <= output["t_max"][epi]
  /\ output["t_selfish_max"][epi] <= output["t_max"][epi]

\* The four strategies.
LEMMA FourStrategies ==
  /\ "t_min" \in Strategies /\ "t_selfish_min" \in Strategies
  /\ "t_selfish_max" \in Strategies /\ "t_max" \in Strategies
  /\ "t_min" # "t_selfish_min" /\ "t_min" # "t_selfish_max" /\ "t_min" # "t_max"
  /\ "t_selfish_min" # "t_selfish_max" /\ "t_selfish_min" # "t_max" /\ "t_selfish_max" # "t_max"
BY DEF Strategies

\* One strategy's choice between two outputs.
LEMMA CombineChooses ==
  ASSUME NEW epi, NEW epi_card, NEW best, NEW new, NEW s \in Strategies
  PROVE  Combine(epi, epi_card, best, new)[s]
           = IF Better(s, epi, epi_card, new[s], best[s]) THEN new[s] ELSE best[s]
BY DEF Combine

\* The payouts of a final position are the same for all four strategies (new_final).
THEOREM NewFinalOrdered ==
  ASSUME NEW an \in Payouts, NEW epi \in EPIs
  PROVE  NewFinal(an) \in Outputs /\ OrderedFor(epi, NewFinal(an))
<1>1. NewFinal(an) \in Outputs
  BY DEF NewFinal, Outputs
<1>2. an[epi] \in Int
  BY DEF Payouts
<1>3. \A s \in Strategies : NewFinal(an)[s] = an
  BY DEF NewFinal
<1> QED
  BY <1>1, <1>2, <1>3, FourStrategies DEF OrderedFor

\* Combined outputs are outputs.
LEMMA CombineType ==
  ASSUME NEW epi \in EPIs, NEW epi_card, NEW best \in Outputs, NEW new \in Outputs
  PROVE  Combine(epi, epi_card, best, new) \in Outputs
BY DEF Combine, Outputs

\* combine_outputs: where epi plays it takes the greater of two values, whatever the
\* others do; where another seat plays, t_min takes the lesser and t_max the greater.
THEOREM CombineIsMinimax ==
  ASSUME NEW epi \in EPIs, NEW epi_card, NEW best \in Outputs, NEW new \in Outputs
  PROVE  LET combined == Combine(epi, epi_card, best, new)
             Lesser(m, n) == IF n < m THEN n ELSE m
             Greater(m, n) == IF n > m THEN n ELSE m
         IN  /\ epi = epi_card => \A s \in Strategies :
                  combined[s][epi] = Greater(best[s][epi], new[s][epi])
             /\ epi # epi_card =>
                  combined["t_min"][epi] = Lesser(best["t_min"][epi], new["t_min"][epi])
             /\ combined["t_max"][epi] = Greater(best["t_max"][epi], new["t_max"][epi])
<1> DEFINE combined == Combine(epi, epi_card, best, new)
           Lesser(m, n) == IF n < m THEN n ELSE m
           Greater(m, n) == IF n > m THEN n ELSE m
<1>1. ASSUME epi = epi_card, NEW s \in Strategies
      PROVE  combined[s][epi] = Greater(best[s][epi], new[s][epi])
  <2>1. Better(s, epi, epi_card, new[s], best[s]) <=> new[s][epi] > best[s][epi]
    BY <1>1 DEF Better
  <2> QED
    BY <2>1, CombineChooses
<1>2. ASSUME epi # epi_card
      PROVE  combined["t_min"][epi] = Lesser(best["t_min"][epi], new["t_min"][epi])
  <2>1. Better("t_min", epi, epi_card, new["t_min"], best["t_min"]) <=> new["t_min"][epi] < best["t_min"][epi]
    BY <1>2 DEF Better
  <2> QED
    BY <2>1, CombineChooses, FourStrategies
<1>3. combined["t_max"][epi] = Greater(best["t_max"][epi], new["t_max"][epi])
  <2>1. Better("t_max", epi, epi_card, new["t_max"], best["t_max"]) <=> new["t_max"][epi] > best["t_max"][epi]
    BY FourStrategies DEF Better
  <2> QED
    BY <2>1, CombineChooses, FourStrategies
<1> QED
  BY <1>1, <1>2, <1>3

\* The four values stay ordered as outputs are combined, whoever plays; t_selfish_min and
\* t_selfish_max are not ordered, as each follows its own choices.
THEOREM CombineKeepsOrder ==
  ASSUME NEW epi \in EPIs, NEW epi_card, NEW best \in Outputs, NEW new \in Outputs,
         OrderedFor(epi, best), OrderedFor(epi, new)
  PROVE  OrderedFor(epi, Combine(epi, epi_card, best, new))
<1> DEFINE combined == Combine(epi, epi_card, best, new)
<1>1. \A s \in Strategies : best[s][epi] \in Int /\ new[s][epi] \in Int
  BY DEF Outputs, Payouts
<1>2. \A s \in Strategies : combined[s][epi] = best[s][epi] \/ combined[s][epi] = new[s][epi]
  BY CombineChooses
<1>3. CASE epi = epi_card
  <2>1. \A s \in Strategies :
          combined[s][epi] = IF new[s][epi] > best[s][epi] THEN new[s][epi] ELSE best[s][epi]
    BY <1>3, CombineIsMinimax
  <2> QED
    BY <1>1, <2>1, FourStrategies DEF OrderedFor
<1>4. CASE epi # epi_card
  <2>1. /\ combined["t_min"][epi] <= best["t_min"][epi]
        /\ combined["t_min"][epi] <= new["t_min"][epi]
    BY <1>1, <1>4, CombineIsMinimax, FourStrategies
  <2>2. /\ combined["t_max"][epi] >= best["t_max"][epi]
        /\ combined["t_max"][epi] >= new["t_max"][epi]
    BY <1>1, CombineIsMinimax, FourStrategies
  <2>3. \A s \in Strategies : combined[s][epi] \in Int
    BY <1>1, <1>2
  <2> QED
    BY <1>1, <1>2, <2>1, <2>2, <2>3, FourStrategies DEF OrderedFor
<1> QED
  BY <1>3, <1>4

------------------------------------------------------------------------------
(***************************************************************************)
(* What a call returns at once.                                            *)
(***************************************************************************)
\* a game that can be paid for, and the player it is searched for
GameOK(game) ==
  /\ game.contract \in RulesContracts
  /\ game.n_price \in Nat /\ game.n_stock \in Nat /\ game.stakes \in Nat \ {0}
  /\ game.epi \in EPIs

\* the Trumpfs of a deal can be counted, and its Stichs
DealOK(deal) == IsFiniteSet(DOMAIN deal.trumpfs) /\ Len(deal.points) \in Nat

\* The seats of the payout are the seats.
LEMMA WorthSeats == ASSUME NEW s PROVE Worth(s)!EPIs = EPIs
BY DEF Worth!EPIs, EPIs

\* Every seat gets or pays a number.
LEMMA PaidIsInt ==
  ASSUME NEW s, NEW n \in Int, NEW parties, parties.multiplier \in [EPIs -> {1, 3}], NEW wins
  PROVE  Worth(s)!InternalPayout(n, parties, wins) \in Payouts
<1>1. ASSUME NEW epi \in EPIs
      PROVE  n * (IF (epi \in parties.primary) = wins THEN 1 ELSE -1) * parties.multiplier[epi] \in Int
  <2>1. parties.multiplier[epi] \in Int
    OBVIOUS
  <2> QED
    BY <2>1
<1> QED
  BY <1>1, WorthSeats DEF Worth!InternalPayout, Payouts

\* What parties are multiplied with.
LEMMA PartiesMultiply ==
  ASSUME NEW s
  PROVE  /\ Worth(s)!Parties.multiplier \in [EPIs -> {1, 3}]
         /\ \A epi : Worth(s)!Parties13(epi).multiplier \in [EPIs -> {1, 3}]
<1>1. \A epi : Worth(s)!Parties13(epi).multiplier \in [EPIs -> {1, 3}]
  BY WorthSeats DEF Worth!Parties13
<1>2. \A epi, other : Worth(s)!Parties22(epi, other).multiplier \in [EPIs -> {1, 3}]
  BY WorthSeats DEF Worth!Parties22
<1> QED
  BY <1>1, <1>2 DEF Worth!Parties

\* Laufende are worth a number.
LEMMA LaufendeIsInt ==
  ASSUME NEW s, DealOK(s.deal), NEW S
  PROVE  Worth(s)!PayoutLaufende(S) \in Int
<1> DEFINE without == { n \in DOMAIN s.deal.trumpfs :
                          \A i \in 1 .. n : (s.deal.trumpfs[i] \in S) = (s.deal.trumpfs[1] \in S) }
<1>1. Worth(s)!Laufende(s.deal.trumpfs, S) = Cardinality(without)
  BY DEF Worth!Laufende, Worth!Cardinality, Cardinality
<1>2. Cardinality(without) \in Nat
  BY FS_Subset, FS_CardinalityType DEF DealOK
<1>3. ExtraPrice \in Nat
  BY SuggestAssumption
<1> HIDE DEF without
<1> QED
  BY <1>1, <1>2, <1>3 DEF Worth!PayoutLaufende

\* What the game of s is paid with.
LEMMA GamePrice ==
  ASSUME NEW s, GameOK(s.game)
  PROVE  /\ s.game.n_price \in Int /\ ExtraPrice \in Int
         /\ s.game.contract.kind \in {"Rufspiel", "Points", "Tout", "Sie", "Bettel",
                                      "Ramsch", "RamschAll", "RamschAtLeast"}
<1>1. s.game.contract \in [kind : Worth(<<>>)!Kinds, epi : EPIs, points_to_win : 61 .. 120]
  BY DEF GameOK, RulesContracts
<1>2. s.game.contract.kind \in Worth(<<>>)!Kinds
  BY <1>1
<1> QED
  BY <1>2, SuggestAssumption DEF Worth!RamschKinds, Worth!Kinds, GameOK

\* The payout of every kind of rules, whatever the cache counts.
LEMMA PayoutIsInt ==
  ASSUME NEW s, GameOK(s.game), DealOK(s.deal)
  PROVE  Worth(s)!Payout \in Payouts
<1> DEFINE kind == s.game.contract.kind
           price == s.game.n_price
           laufende == Worth(s)!PayoutLaufende(Worth(s)!Parties.primary)
           n == Worth(s)!CardsPerPlayer(s.deal)
<1>1. /\ price \in Int /\ ExtraPrice \in Int /\ laufende \in Int
      /\ kind \in {"Rufspiel", "Points", "Tout", "Sie", "Bettel", "Ramsch", "RamschAll", "RamschAtLeast"}
  BY GamePrice, LaufendeIsInt
<1>2. n \in Int
  BY DEF Worth!CardsPerPlayer, DealOK
<1> HIDE DEF laufende, n
<1>3. \A k \in Int : \A wins : Worth(s)!InternalPayout(k, Worth(s)!Parties, wins) \in Payouts
  BY PartiesMultiply, PaidIsInt
<1>4. \A k \in Int : \A epi, wins : Worth(s)!InternalPayout(k, Worth(s)!Parties13(epi), wins) \in Payouts
  BY PartiesMultiply, PaidIsInt
<1>5. Worth(s)!PayoutPointBased \in Payouts
  <2>1. \A a, b : price + (IF a THEN 2 * ExtraPrice ELSE IF b THEN ExtraPrice ELSE 0) + laufende \in Int
    BY <1>1
  <2> QED
    BY <1>3, <2>1 DEF Worth!PayoutPointBased, laufende
<1>6. Worth(s)!PayoutTout \in Payouts
  <2>1. (price + laufende) * 2 \in Int
    BY <1>1
  <2> QED
    BY <1>3, <2>1 DEF Worth!PayoutTout, laufende
<1>7. Worth(s)!PayoutSie \in Payouts
  <2>1. (price + n * ExtraPrice) * 4 \in Int
    BY <1>1, <1>2
  <2> QED
    BY <1>3, <2>1 DEF Worth!PayoutSie, n
<1>8. Worth(s)!PayoutBettel \in Payouts
  BY <1>1, <1>3 DEF Worth!PayoutBettel
<1>9. Worth(s)!PayoutRamsch \in Payouts
  BY <1>1, <1>4 DEF Worth!PayoutRamsch
<1> QED
  BY <1>1, <1>5, <1>6, <1>7, <1>8, <1>9 DEF Worth!RamschKinds, Worth!Payout

\* With the stock and the stakes.
LEMMA FinalIsInt ==
  ASSUME NEW s, GameOK(s.game), DealOK(s.deal)
  PROVE  Worth(s)!PayoutIncludingStock(Worth(s)!PayoutInfos, s.game.n_stock, s.game.stakes) \in Payouts
<1> DEFINE infos == Worth(s)!PayoutInfos
<1>1. \A epi \in EPIs : Worth(s)!Payout[epi] \in Int
  BY PayoutIsInt DEF Payouts
<1>2. \A epi \in EPIs : infos[epi].n_payout \in Int
  BY <1>1, WorthSeats DEF Worth!PayoutInfos, Worth!SharingStock, Worth!Ignoring
<1>3. s.game.n_stock \in Nat /\ s.game.stakes \in Int /\ s.game.n_stock \div 2 \in Int
  BY DEF GameOK
<1> HIDE DEF infos
<1>4. ASSUME NEW epi \in EPIs
      PROVE  Worth(s)!IncludingStock(infos[epi], s.game.n_stock, s.game.stakes) \in Int
  <2> DEFINE half == s.game.n_stock \div 2
             paid == infos[epi].n_payout * s.game.stakes
  <2>1. half \in Int /\ -half \in Int /\ 0 \in Int /\ paid \in Int
    BY <1>2, <1>3
  <2>2. Worth(s)!IncludingStock(infos[epi], s.game.n_stock, s.game.stakes)
          = paid + (IF infos[epi].estockaction = "TakeHalf" THEN half
                    ELSE IF infos[epi].estockaction = "GiveHalf" THEN -half ELSE 0)
    BY DEF Worth!IncludingStock
  <2> HIDE DEF half, paid
  <2> QED
    BY <2>1, <2>2
<1> QED
  BY <1>4, WorthSeats DEF Worth!PayoutIncludingStock, Payouts, infos

\* outputs of a search for the player epi
OutputsFor(epi) == { output \in Outputs : OrderedFor(epi, output) }

\* What a finished game returns.
LEMMA FinalOutputIs ==
  ASSUME NEW s, GameOK(s.game), DealOK(s.deal), NEW epi \in EPIs
  PROVE  FinalOutput(s) \in OutputsFor(epi)
<1>1. FinalOutput(s)
        = NewFinal(Worth(s)!PayoutIncludingStock(Worth(s)!PayoutInfos, s.game.n_stock, s.game.stakes))
  BY DEF FinalOutput
<1> QED
  BY <1>1, FinalIsInt, NewFinalOrdered DEF OutputsFor

\* Every bound that is hinted at is a number.
LEMMA HintsAreInt ==
  ASSUME NEW s, GameOK(s.game), DealOK(s.deal), NEW epi \in EPIs
  PROVE  Worth(s)!PayoutHints[epi].lower \subseteq Int
<1> DEFINE kind == s.game.contract.kind
           price == s.game.n_price
<1>1. /\ price \in Int /\ 2 * price \in Int /\ 4 * price \in Int
      /\ kind \in {"Rufspiel", "Points", "Tout", "Sie", "Bettel", "Ramsch", "RamschAll", "RamschAtLeast"}
  BY GamePrice
<1>0. \A n \in Int : \A wins : Worth(s)!InternalPayout(n, Worth(s)!Parties, wins)[epi] \in Int
  BY PartiesMultiply, PaidIsInt DEF Payouts
<1>2. ASSUME NEW n \in Int, NEW wins
      PROVE  Worth(s)!HintFor(n, wins)[epi].lower \subseteq Int
  <2>1. Worth(s)!InternalPayout(n, Worth(s)!Parties, wins)[epi] \in Int
    BY <1>0
  <2> QED
    BY <2>1, WorthSeats DEF Worth!HintFor, Worth!FromZero
<1>3. Worth(s)!NoHints[epi].lower = {}
  BY WorthSeats DEF Worth!NoHints, Worth!Unknown
<1>4. Worth(s)!HintsByPoints[epi].lower \subseteq Int
  <2>1. /\ Worth(s)!HintFor(price, TRUE)[epi].lower \subseteq Int
        /\ Worth(s)!HintFor(price, FALSE)[epi].lower \subseteq Int
        /\ Worth(s)!NoHints[epi].lower \subseteq Int
    BY <1>1, <1>2, <1>3
  <2>2. \/ Worth(s)!HintsByPoints = Worth(s)!HintFor(price, TRUE)
        \/ Worth(s)!HintsByPoints = Worth(s)!HintFor(price, FALSE)
        \/ Worth(s)!HintsByPoints = Worth(s)!NoHints
    BY ZenonT(30) DEF Worth!HintsByPoints
  <2> QED
    BY <2>1, <2>2
<1>5. Worth(s)!HintsOfBettel[epi].lower \subseteq Int
  <2>1. Worth(s)!InternalPayout(price, Worth(s)!Parties, FALSE)[epi] \in Int
    BY <1>0, <1>1
  <2> QED
    BY <1>3, <2>1, WorthSeats DEF Worth!HintsOfBettel, Worth!Exactly
<1>6. /\ Worth(s)!HintFor(2 * price, FALSE)[epi].lower \subseteq Int
      /\ Worth(s)!HintFor(4 * price, FALSE)[epi].lower \subseteq Int
      /\ Worth(s)!NoHints[epi].lower \subseteq Int
  BY <1>1, <1>2, <1>3
<1>7. \/ Worth(s)!PayoutHints = Worth(s)!HintsByPoints
      \/ Worth(s)!PayoutHints = Worth(s)!HintFor(2 * price, FALSE)
      \/ Worth(s)!PayoutHints = Worth(s)!HintFor(4 * price, FALSE)
      \/ Worth(s)!PayoutHints = Worth(s)!HintsOfBettel
      \/ Worth(s)!PayoutHints = Worth(s)!NoHints
  BY <1>1 DEF Worth!RamschKinds, Worth!PayoutHints
<1> QED
  BY <1>4, <1>5, <1>6, <1>7

\* What a pruned call returns.
LEMMA PrunedOutputIs ==
  ASSUME NEW s, GameOK(s.game), DealOK(s.deal), NEW output \in PrunedOutput(s), NEW epi \in EPIs
  PROVE  output \in OutputsFor(epi)
<1> DEFINE hints == Worth(s)!PayoutHints
           an == [e \in EPIs |-> (CHOOSE n \in hints[e].lower : TRUE) * s.game.stakes]
<1>1. output = NewFinal(an) /\ \A e \in EPIs : hints[e].lower # {}
  BY DEF PrunedOutput
<1>2. \A e \in EPIs : hints[e].lower \subseteq Int
  BY HintsAreInt
<1>3. s.game.stakes \in Int
  BY DEF GameOK
<1>4. an \in Payouts
  <2> HIDE DEF hints
  <2>1. \A e \in EPIs : (CHOOSE n \in hints[e].lower : TRUE) \in Int
    BY <1>1, <1>2
  <2> QED
    BY <1>3, <2>1 DEF Payouts
<1> HIDE DEF an
<1> QED
  BY <1>1, <1>4, NewFinalOrdered DEF OutputsFor

------------------------------------------------------------------------------
(***************************************************************************)
(* The positions that a search goes through.                               *)
(***************************************************************************)
CardsHeld(h) == Total([seat \in Seats |-> Cardinality(h[seat])])

\* whose turn it is
Turn(vec) == (vec[Len(vec)].epi_first + (Len(vec[Len(vec)].cards) + 1) - 1) % N

IsPosition(q) ==
  q = [game |-> q.game, ahand |-> q.ahand, vecstich |-> q.vecstich, deal |-> q.deal, cache |-> q.cache]

\* no card is lost or held twice, and the cache counts the Stichs as they are
PositionKept(q) ==
  /\ IsPosition(q)
  /\ q.ahand \in [Seats -> SUBSET Deck]
  /\ StichsOK(q.vecstich)
  /\ Chained(q.game.rules.decider, q.vecstich)
  /\ Deck = (UNION { q.ahand[seat] : seat \in Seats }) \cup CardsIn(q.vecstich)
  /\ Cardinality(Deck) = CardsHeld(q.ahand) + CountOf(q.vecstich)
  /\ q.cache = Recount(q.vecstich)
  /\ GameOK(q.game) /\ DealOK(q.deal)

\* r is the position after the card is played in q
Moves(q, r, card) ==
  /\ IsPosition(r)
  /\ r.game = q.game /\ r.deal = q.deal
  /\ card \in q.ahand[Turn(q.vecstich)]
  /\ r.ahand = [q.ahand EXCEPT ![Turn(q.vecstich)] = @ \ {card}]
  /\ OneCardMore(q.vecstich, r.vecstich, q.game.rules.decider, card)
  /\ r.cache = Recount(r.vecstich)

\* It is a seat's turn.
LEMMA TurnIsSeat == ASSUME NEW vec, StichsOK(vec) PROVE Turn(vec) \in Seats
<1> DEFINE a == vec[Len(vec)].epi_first
           b == Len(vec[Len(vec)].cards)
<1>1. vec[Len(vec)] \in Stiche /\ b \in 0 .. 4
  BY DEF StichsOK
<1>2. a \in 0 .. 3
  BY <1>1, FourSeats DEF Stiche
<1>3. Turn(vec) = (a + (b + 1) - 1) % 4
  BY FourSeats DEF Turn
<1> HIDE DEF a, b
<1>4. a + (b + 1) - 1 \in Int
  BY <1>1, <1>2
<1>5. \A k \in Int : k % 4 \in {0, 1, 2, 3}
  OBVIOUS
<1> QED
  BY <1>3, <1>4, <1>5, FourSeats

\* One of the hands has one card less, and the same card again.
LEMMA OneCardLess ==
  ASSUME NEW h \in [Seats -> SUBSET Deck], NEW e \in Seats, NEW card \in h[e],
         NEW g, g = [h EXCEPT ![e] = @ \ {card}]
  PROVE  /\ g \in [Seats -> SUBSET Deck] /\ card \in Deck
         /\ CardsHeld(h) \in Int /\ CardsHeld(h) = CardsHeld(g) + 1
         /\ UNION { h[seat] : seat \in Seats } = (UNION { g[seat] : seat \in Seats }) \cup {card}
         /\ [g EXCEPT ![e] = @ \cup {card}] = h
<1>1. \A seat \in Seats : g[seat] = IF seat = e THEN h[e] \ {card} ELSE h[seat]
  OBVIOUS
<1>2. g \in [Seats -> SUBSET Deck] /\ card \in Deck
  OBVIOUS
<1>3. [g EXCEPT ![e] = @ \cup {card}] = h
  <2>1. \A seat \in Seats : [g EXCEPT ![e] = @ \cup {card}][seat] = h[seat]
    BY <1>1, <1>2
  <2> QED
    BY <2>1, <1>2
<1>4. UNION { h[seat] : seat \in Seats } = (UNION { g[seat] : seat \in Seats }) \cup {card}
  BY <1>1
<1>5. ASSUME NEW seat \in Seats
      PROVE  IsFiniteSet(h[seat]) /\ Cardinality(h[seat]) \in Nat
  BY FourSeats, FS_Subset, FS_CardinalityType
<1>6. Cardinality(h[e] \ {card}) = Cardinality(h[e]) - 1
  BY <1>5, FS_RemoveElement
<1> DEFINE a == [seat \in Seats |-> Cardinality(h[seat])]
           b == [seat \in Seats |-> Cardinality(g[seat])]
<1>7. \A seat \in Seats : a[seat] \in Int /\ b[seat] = IF seat = e THEN a[seat] - 1 ELSE a[seat]
  BY <1>1, <1>5, <1>6
<1>8. CardsHeld(h) = Total(a) /\ CardsHeld(g) = Total(b)
  BY DEF CardsHeld
<1> HIDE DEF a, b
<1>9. Total(a) \in Int /\ Total(a) = Total(b) + 1
  <2>1. e \in {0, 1, 2, 3} /\ Seats = {0, 1, 2, 3}
    BY FourSeats
  <2>2. /\ a[0] \in Int /\ a[1] \in Int /\ a[2] \in Int /\ a[3] \in Int
        /\ b[0] = IF 0 = e THEN a[0] - 1 ELSE a[0]
        /\ b[1] = IF 1 = e THEN a[1] - 1 ELSE a[1]
        /\ b[2] = IF 2 = e THEN a[2] - 1 ELSE a[2]
        /\ b[3] = IF 3 = e THEN a[3] - 1 ELSE a[3]
    BY <1>7, <2>1, SMTT(60)
  <2> QED
    BY <2>1, <2>2 DEF Total
<1> QED
  BY <1>2, <1>3, <1>4, <1>8, <1>9

\* A card that is played keeps the position.
LEMMA MoveKeeps ==
  ASSUME NEW q, PositionKept(q), NEW r, NEW card, Moves(q, r, card)
  PROVE  PositionKept(r) /\ card \in Deck /\ Turn(q.vecstich) \in Seats
<1> DEFINE vec == q.vecstich
           after == r.vecstich
           e == Turn(vec)
           d == q.game.rules.decider
<1>1. /\ q.ahand \in [Seats -> SUBSET Deck] /\ StichsOK(vec) /\ Chained(d, vec)
      /\ Deck = (UNION { q.ahand[seat] : seat \in Seats }) \cup CardsIn(vec)
      /\ Cardinality(Deck) = CardsHeld(q.ahand) + CountOf(vec)
      /\ GameOK(q.game) /\ DealOK(q.deal)
  BY DEF PositionKept
<1>2. /\ IsPosition(r) /\ r.game = q.game /\ r.deal = q.deal /\ card \in q.ahand[e]
      /\ r.ahand = [q.ahand EXCEPT ![e] = @ \ {card}]
      /\ OneCardMore(vec, after, d, card) /\ r.cache = Recount(after)
  BY DEF Moves
<1>3. e \in Seats
  BY <1>1, TurnIsSeat
<1> HIDE DEF vec, after, e, d
<1>4. /\ r.ahand \in [Seats -> SUBSET Deck] /\ card \in Deck
      /\ CardsHeld(q.ahand) \in Int /\ CardsHeld(q.ahand) = CardsHeld(r.ahand) + 1
      /\ UNION { q.ahand[seat] : seat \in Seats } = (UNION { r.ahand[seat] : seat \in Seats }) \cup {card}
  BY <1>1, <1>2, <1>3, OneCardLess
<1>5. /\ StichsOK(after) /\ CountOf(after) = CountOf(vec) + 1
      /\ CardsIn(after) = CardsIn(vec) \cup {card} /\ (Chained(d, vec) => Chained(d, after))
  BY <1>1, <1>2, <1>4, OneCardMoreOK
<1>6. Deck = (UNION { r.ahand[seat] : seat \in Seats }) \cup CardsIn(after)
  BY <1>1, <1>4, <1>5
<1>7. CountOf(vec) \in Int /\ CardsHeld(r.ahand) \in Int
  <2> DEFINE b == Len(vec[Len(vec)].cards)
             m == Len(vec)
  <2>1. b \in 0 .. 4 /\ m \in Nat
    BY <1>1 DEF StichsOK
  <2>2. CountOf(vec) = 4 * (m - 1) + b
    BY DEF CountOf
  <2>3. CardsHeld(r.ahand) \in Int
    <3>1. \A seat \in Seats : Cardinality(r.ahand[seat]) \in Int
      BY <1>4, FourSeats, FS_Subset, FS_CardinalityType
    <3> DEFINE a == [seat \in Seats |-> Cardinality(r.ahand[seat])]
    <3>2. a[0] \in Int /\ a[1] \in Int /\ a[2] \in Int /\ a[3] \in Int
      BY <3>1, FourSeats
    <3> HIDE DEF a
    <3>3. Total(a) \in Int
      BY <3>2 DEF Total
    <3> QED
      BY <3>3 DEF CardsHeld, a
  <2> HIDE DEF b, m
  <2> QED
    BY <2>1, <2>2, <2>3
<1>8. Cardinality(Deck) = CardsHeld(r.ahand) + CountOf(after)
  BY <1>1, <1>4, <1>5, <1>7
<1> QED
  BY <1>2, <1>3, <1>4, <1>5, <1>1, <1>6, <1>8 DEF PositionKept, vec, after, d, e

\* Only cards of the hand are allowed.
LEMMA AllowedFromHand == ASSUME NEW q, NEW e PROVE C(q)!AllAllowedCards(e) \subseteq q.ahand[e]
<1>1. \A hand : C(q)!RufspielFirst(hand) \subseteq hand
  BY DEF C!RufspielFirst
<1>2. \A hand : C(q)!RufspielWithin(e, hand) \subseteq hand
  BY DEF C!RufspielWithin
<1>3. \A hand : C(q)!Following(hand) \subseteq hand
  BY DEF C!Following
<1>4. \A hand : C(q)!Stichzwang(hand) \subseteq hand
  BY <1>3 DEF C!Stichzwang
<1> QED
  BY <1>1, <1>2, <1>3, <1>4 DEF C!AllAllowedCards

(***************************************************************************)
(* A search: the positions from the one it began with to the one where it  *)
(* is, and the calls that wait.                                            *)
(***************************************************************************)
IsSearch(s) ==
  s = [game |-> s.game, ahand |-> s.ahand, vecstich |-> s.vecstich, deal |-> s.deal, cache |-> s.cache,
       stack |-> s.stack, output |-> s.output]

IsSeq(stack) == \E S : stack \in Seq(S)

\* a call in the position q
CallIn(frame, q) ==
  /\ frame = [epi |-> frame.epi, todo |-> frame.todo, card |-> frame.card, stich |-> frame.stich, best |-> frame.best]
  /\ frame.epi = Turn(q.vecstich)
  /\ frame.todo \subseteq q.ahand[Turn(q.vecstich)]
  /\ frame.best \subseteq OutputsFor(q.game.epi)

\* what is registered when the position r comes after q
StichRegistered(q, r) ==
  IF BetweenStichs(r.vecstich)
  THEN LET winner == r.vecstich[Len(r.vecstich)].epi_first
       IN  {[epi_winner |-> winner, n_points_before |-> q.cache[winner].n_point]}
  ELSE {}

\* a call in q explores a card that leads to r
Leads(frame, q, r) ==
  \E card : Moves(q, r, card) /\ frame.card = {card} /\ frame.stich = StichRegistered(q, r)

\* the positions h of the first k calls, and the one after
CallsLead(stack, k, h, start) ==
  /\ h[1] = start
  /\ \A i \in 1 .. k + 1 : PositionKept(h[i])
  /\ \A i \in 1 .. k : CallIn(stack[i], h[i]) /\ Leads(stack[i], h[i], h[i + 1])

\* a call begins in the position of s
Entering(s, h, start) ==
  /\ IsSearch(s) /\ IsSeq(s.stack) /\ s.output = {}
  /\ CallsLead(s.stack, Len(s.stack), h, start)
  /\ h[Len(s.stack) + 1] = PositionIn(s)

\* the innermost call has cards to try
Trying(s, h, start) ==
  /\ IsSearch(s) /\ IsSeq(s.stack) /\ s.output = {} /\ Len(s.stack) > 0
  /\ CallsLead(s.stack, Len(s.stack) - 1, h, start)
  /\ h[Len(s.stack)] = PositionIn(s)
  /\ CallIn(s.stack[Len(s.stack)], h[Len(s.stack)])

\* a call has returned
Returned(s, h, start) ==
  /\ IsSearch(s) /\ IsSeq(s.stack) /\ s.output # {} /\ s.output \subseteq OutputsFor(s.game.epi)
  /\ CallsLead(s.stack, Len(s.stack), h, start)
  /\ h[Len(s.stack) + 1] = PositionIn(s)

OnLine(s, h, start) == Trying(s, h, start) \/ Returned(s, h, start)

\* A sequence with one element more, whatever it is.
LEMMA SeqGrows ==
  ASSUME NEW s, IsSeq(s), NEW x
  PROVE  /\ Len(s) \in Nat
         /\ IsSeq(Append(s, x)) /\ Len(Append(s, x)) = Len(s) + 1
         /\ Append(s, x)[Len(s) + 1] = x
         /\ \A i \in 1 .. Len(s) : Append(s, x)[i] = s[i]
<1>1. PICK S : s \in Seq(S)
  BY DEF IsSeq
<1>2. s \in Seq(S \cup {x}) /\ x \in S \cup {x} /\ Len(s) \in Nat
  BY <1>1
<1> QED
  BY <1>2, OneMore DEF IsSeq

\* A sequence without its last element.
LEMMA SeqShrinks ==
  ASSUME NEW s, IsSeq(s), Len(s) > 0
  PROVE  /\ IsSeq(Front(s)) /\ Len(Front(s)) = Len(s) - 1 /\ Last(s) = s[Len(s)]
         /\ \A i \in 1 .. Len(s) - 1 : Front(s)[i] = s[i]
<1>1. PICK S : s \in Seq(S)
  BY DEF IsSeq
<1>2. Len(s) - 1 \in 0 .. Len(s)
  BY <1>1
<1> QED
  BY <1>1, <1>2, FirstElements DEF IsSeq, Front, Last

\* A game that is played to the end is the same game.
LEMMA PlayedGame ==
  ASSUME NEW s, IsSearch(s)
  PROVE  PlayedToTheEnd(s).game = s.game /\ PlayedToTheEnd(s).deal = s.deal
<1>1. \A x : [s EXCEPT !.vecstich = x].game = s.game /\ [s EXCEPT !.vecstich = x].deal = s.deal
  BY DEF IsSearch
<1>2. \A x, y : \A u : u = [s EXCEPT !.vecstich = x] =>
        [u EXCEPT !.cache[y] = [n_stich |-> @.n_stich + 1, n_point |-> @.n_point]].game = u.game
  OBVIOUS
<1> QED
  BY <1>1 DEF PlayedToTheEnd, WithStichRegistered

\* A call returns at once or has cards to try.
LEMMA CallIs ==
  ASSUME NEW s, IsSearch(s), GameOK(s.game), DealOK(s.deal), NEW t \in Call(s)
  PROVE  \/ \E output : /\ output # {} /\ output \subseteq OutputsFor(s.game.epi)
                        /\ t = [s EXCEPT !.output = output]
         \/ \E todo : /\ todo \subseteq s.ahand[Turn(s.vecstich)]
                      /\ t = [s EXCEPT !.stack =
                                Append(@, [epi |-> Turn(s.vecstich), todo |-> todo, card |-> {}, stich |-> {}, best |-> {}])]
<1>1. C(s)!Current = Turn(s.vecstich)
  BY DEF C!Current, C!SeatAt, C!CurrentStich, Turn
<1>2. \A game, cards : \A some \in Filtered(game, cards) : some \subseteq cards
  BY DEF Filtered
<1>3. CASE OneCardEach(s)
  <2>1. FinalOutput(PlayedToTheEnd(s)) \in OutputsFor(s.game.epi)
    <3>1. GameOK(PlayedToTheEnd(s).game) /\ DealOK(PlayedToTheEnd(s).deal) /\ s.game.epi \in EPIs
      BY PlayedGame DEF GameOK
    <3> QED
      BY <3>1, FinalOutputIs
  <2>2. t = [s EXCEPT !.output = {FinalOutput(PlayedToTheEnd(s))}]
    BY <1>3 DEF Call
  <2> QED
    BY <2>1, <2>2
<1>4. CASE ~ OneCardEach(s) /\ PrunedOutput(s) # {}
  <2>1. PrunedOutput(s) \subseteq OutputsFor(s.game.epi)
    BY PrunedOutputIs DEF GameOK
  <2>2. t = [s EXCEPT !.output = PrunedOutput(s)]
    BY <1>4 DEF Call
  <2> QED
    BY <1>4, <2>1, <2>2
<1>5. CASE ~ OneCardEach(s) /\ PrunedOutput(s) = {}
  <2> DEFINE seat == C(s)!Current
             allowed == C(s)!AllAllowedCards(seat)
  <2>1. PICK todo \in Filtered(s.game, allowed) :
          t = [s EXCEPT !.stack = Append(@, [epi |-> seat, todo |-> todo, card |-> {}, stich |-> {}, best |-> {}])]
    BY <1>5 DEF Call
  <2>2. allowed \subseteq s.ahand[seat]
    BY AllowedFromHand
  <2>3. todo \subseteq allowed
    BY <1>2
  <2> HIDE DEF allowed
  <2> QED
    BY <1>1, <2>1, <2>2, <2>3
<1> QED
  BY <1>3, <1>4, <1>5

\* The calls before are not touched by one more.
LEMMA CallsStay ==
  ASSUME NEW stack, NEW other, NEW k \in Nat, NEW h, NEW start, CallsLead(stack, k, h, start),
         \A i \in 1 .. k : other[i] = stack[i]
  PROVE  CallsLead(other, k, h, start)
BY DEF CallsLead

\* A call that begins leaves the search on its line of play.
LEMMA CallStaysOnLine ==
  ASSUME NEW s, NEW h, NEW start, Entering(s, h, start), NEW t \in Call(s)
  PROVE  OnLine(t, h, start)
<1> DEFINE n == Len(s.stack)
<1>1. /\ IsSearch(s) /\ IsSeq(s.stack) /\ s.output = {} /\ CallsLead(s.stack, n, h, start)
      /\ h[n + 1] = PositionIn(s) /\ n \in Nat
  BY SeqGrows DEF Entering
<1>6. /\ GameOK(s.game) /\ DealOK(s.deal)
      /\ PositionIn(s).game = s.game /\ PositionIn(s).ahand = s.ahand /\ PositionIn(s).vecstich = s.vecstich
  <2>1. n + 1 \in 1 .. n + 1
    BY <1>1
  <2>2. PositionKept(PositionIn(s))
    BY <1>1, <2>1 DEF CallsLead
  <2>3. PositionIn(s).game = s.game /\ PositionIn(s).deal = s.deal
    BY DEF PositionIn
  <2> QED
    BY <2>2, <2>3 DEF PositionKept, PositionIn
<1>2. ASSUME NEW output, output # {}, output \subseteq OutputsFor(s.game.epi), t = [s EXCEPT !.output = output]
      PROVE  Returned(t, h, start)
  <2>1. /\ IsSearch(t) /\ t.stack = s.stack /\ t.output = output /\ t.game = s.game
        /\ t.ahand = s.ahand /\ t.vecstich = s.vecstich /\ t.deal = s.deal /\ t.cache = s.cache
    BY <1>1, <1>2 DEF IsSearch
  <2>2. PositionIn(t) = PositionIn(s)
    BY <2>1 DEF PositionIn
  <2> QED
    BY <1>1, <1>2, <2>1, <2>2 DEF Returned
<1>3. ASSUME NEW todo, todo \subseteq s.ahand[Turn(s.vecstich)], NEW frame,
             frame = [epi |-> Turn(s.vecstich), todo |-> todo, card |-> {}, stich |-> {}, best |-> {}],
             t = [s EXCEPT !.stack = Append(@, frame)]
      PROVE  Trying(t, h, start)
  <2>1. /\ IsSearch(t) /\ t.stack = Append(s.stack, frame) /\ t.output = {} /\ t.game = s.game
        /\ t.ahand = s.ahand /\ t.vecstich = s.vecstich /\ t.deal = s.deal /\ t.cache = s.cache
    BY <1>1, <1>3 DEF IsSearch
  <2>2. PositionIn(t) = PositionIn(s)
    BY <2>1 DEF PositionIn
  <2>3. /\ IsSeq(t.stack) /\ Len(t.stack) = n + 1 /\ t.stack[n + 1] = frame
        /\ \A i \in 1 .. n : t.stack[i] = s.stack[i]
    BY <1>1, <2>1, SeqGrows
  <2>4. CallIn(frame, PositionIn(s))
    <3>1. frame.epi = Turn(s.vecstich) /\ frame.todo = todo /\ frame.best = {}
      BY <1>3
    <3> QED
      BY <1>3, <1>6, <3>1 DEF CallIn
  <2> HIDE DEF n
  <2>5. Len(t.stack) > 0 /\ Len(t.stack) - 1 = n
    BY <1>1, <2>3
  <2>6. CallsLead(t.stack, n, h, start)
    BY <1>1, <2>3, CallsStay
  <2> QED
    BY <1>1, <2>1, <2>2, <2>3, <2>4, <2>5, <2>6 DEF Trying
<1>4. ASSUME NEW todo, todo \subseteq s.ahand[Turn(s.vecstich)],
             t = [s EXCEPT !.stack =
                    Append(@, [epi |-> Turn(s.vecstich), todo |-> todo, card |-> {}, stich |-> {}, best |-> {}])]
      PROVE  Trying(t, h, start)
  BY <1>3, <1>4
<1>5. \/ \E output : /\ output # {} /\ output \subseteq OutputsFor(s.game.epi)
                     /\ t = [s EXCEPT !.output = output]
      \/ \E todo : /\ todo \subseteq s.ahand[Turn(s.vecstich)]
                   /\ t = [s EXCEPT !.stack =
                             Append(@, [epi |-> Turn(s.vecstich), todo |-> todo, card |-> {}, stich |-> {}, best |-> {}])]
  BY <1>1, <1>6, CallIs
<1> QED
  BY <1>2, <1>4, <1>5 DEF OnLine

\* the fields of a search
SearchIs(t, game, hands, vec, deal, cache, stack, output) ==
  /\ IsSearch(t)
  /\ t.game = game /\ t.ahand = hands /\ t.vecstich = vec /\ t.deal = deal /\ t.cache = cache
  /\ t.stack = stack /\ t.output = output

\* The hands and the Stichs of a search change.
LEMMA CardsChange ==
  ASSUME NEW s, IsSearch(s), NEW x, NEW y, NEW t, t = [s EXCEPT !.ahand = x, !.vecstich = y]
  PROVE  SearchIs(t, s.game, x, y, s.deal, s.cache, s.stack, s.output)
<1>1. IsSearch(t)
  BY DEF IsSearch
<1>2. /\ t.game = s.game /\ t.ahand = x /\ t.vecstich = y /\ t.deal = s.deal /\ t.cache = s.cache
      /\ t.stack = s.stack /\ t.output = s.output
  BY DEF IsSearch
<1> QED
  BY <1>1, <1>2 DEF SearchIs

\* Its cache changes.
LEMMA CacheChanges ==
  ASSUME NEW s, IsSearch(s), NEW x, NEW t, t = [s EXCEPT !.cache = x]
  PROVE  SearchIs(t, s.game, s.ahand, s.vecstich, s.deal, x, s.stack, s.output)
<1>1. IsSearch(t)
  BY DEF IsSearch
<1>2. /\ t.game = s.game /\ t.ahand = s.ahand /\ t.vecstich = s.vecstich /\ t.deal = s.deal /\ t.cache = x
      /\ t.stack = s.stack /\ t.output = s.output
  BY DEF IsSearch
<1> QED
  BY <1>1, <1>2 DEF SearchIs

\* A Stich is registered.
LEMMA StichIsRegistered ==
  ASSUME NEW s, IsSearch(s), NEW w, w = s.vecstich[Len(s.vecstich)].epi_first,
         NEW k, k = PointsStich(s.vecstich[Len(s.vecstich) - 1])
  PROVE  SearchIs(WithStichRegistered(s), s.game, s.ahand, s.vecstich, s.deal, Registered(s.cache, w, k),
                  s.stack, s.output)
<1> DEFINE counts == Registered(s.cache, w, k)
           t == WithStichRegistered(s)
<1>1. t = [s EXCEPT !.cache = counts]
  BY DEF WithStichRegistered, Registered
<1> HIDE DEF counts, t
<1>2. SearchIs(t, s.game, s.ahand, s.vecstich, s.deal, counts, s.stack, s.output)
  BY <1>1, CacheChanges
<1> QED
  BY <1>2 DEF counts, t

\* Its calls change.
LEMMA StackChanges ==
  ASSUME NEW s, IsSearch(s), NEW x, NEW t, t = [s EXCEPT !.stack = x]
  PROVE  SearchIs(t, s.game, s.ahand, s.vecstich, s.deal, s.cache, x, s.output)
<1>1. IsSearch(t)
  BY DEF IsSearch
<1>2. /\ t.game = s.game /\ t.ahand = s.ahand /\ t.vecstich = s.vecstich /\ t.deal = s.deal /\ t.cache = s.cache
      /\ t.stack = x /\ t.output = s.output
  BY DEF IsSearch
<1> QED
  BY <1>1, <1>2 DEF SearchIs

\* A call has found or explores a card.
LEMMA CallChanges ==
  ASSUME NEW f, f = [epi |-> f.epi, todo |-> f.todo, card |-> f.card, stich |-> f.stich, best |-> f.best],
         NEW x, NEW y, NEW z, NEW g, g = [f EXCEPT !.todo = x, !.card = y, !.stich = z]
  PROVE  g = [epi |-> f.epi, todo |-> x, card |-> y, stich |-> z, best |-> f.best]
<1>1. g = [epi |-> g.epi, todo |-> g.todo, card |-> g.card, stich |-> g.stich, best |-> g.best]
  OBVIOUS
<1>2. g.epi = f.epi /\ g.todo = x /\ g.card = y /\ g.stich = z /\ g.best = f.best
  OBVIOUS
<1> QED
  BY <1>1, <1>2

\* Where the search is when it plays the card, and what the call waits for.
LEMMA Explored ==
  ASSUME NEW s, IsSearch(s), PositionKept(PositionIn(s)), NEW frame, frame = Last(s.stack),
         frame = [epi |-> frame.epi, todo |-> frame.todo, card |-> frame.card, stich |-> frame.stich, best |-> frame.best],
         frame.epi = Turn(s.vecstich), NEW card \in s.ahand[frame.epi], NEW t \in Explore(s, card)
  PROVE  \E next, called :
           /\ t \in Call(next) /\ IsSearch(next)
           /\ next.stack = Append(Front(s.stack), called) /\ next.output = s.output
           /\ Moves(PositionIn(s), PositionIn(next), card)
           /\ called = [epi |-> frame.epi, todo |-> frame.todo \ {card}, card |-> {card},
                        stich |-> StichRegistered(PositionIn(s), PositionIn(next)), best |-> frame.best]
<1> DEFINE vec == s.vecstich
           after == C(s)!StichsAfter(card)
           d == s.game.rules.decider
           hands == [s.ahand EXCEPT ![frame.epi] = @ \ {card}]
           played == [s EXCEPT !.ahand[frame.epi] = @ \ {card}, !.vecstich = after]
           complete == BetweenStichs(after)
           winner == after[Len(after)].epi_first
           stich == IF complete THEN {[epi_winner |-> winner, n_points_before |-> s.cache[winner].n_point]} ELSE {}
           called == [frame EXCEPT !.todo = @ \ {card}, !.card = {card}, !.stich = stich]
           below == [played EXCEPT !.stack = Append(Front(@), called)]
           next == IF complete THEN WithStichRegistered(below) ELSE below
<1>1. /\ s.ahand \in [Seats -> SUBSET Deck] /\ StichsOK(vec) /\ s.cache = Recount(vec)
  BY DEF PositionKept, PositionIn
<1>2. frame.epi \in Seats /\ card \in Deck
  BY <1>1, TurnIsSeat
<1>3. OneCardMore(vec, after, d, card)
  <2> HIDE DEF after
  <2> QED
    BY <1>1, <1>2, StichsAfterCard DEF after
<1>12. CountsAfter(vec, after)
  <2> HIDE DEF after, vec, d
  <2> QED
    BY <1>1, <1>2, <1>3, RecountAfter
<1>4. t \in Call(next)
  <2>1. played.vecstich = after /\ s.stack = played.stack
    <3> HIDE DEF after
    <3> QED
      BY DEF IsSearch
  <2>2. C(played)!CurrentStich.epi_first = winner
    BY <2>1 DEF C!CurrentStich
  <2> QED
    BY <2>1, <2>2 DEF Explore
<1> HIDE DEF after
<1>5. SearchIs(played, s.game, hands, after, s.deal, s.cache, s.stack, s.output)
  <2>1. played = [s EXCEPT !.ahand = hands, !.vecstich = after]
    OBVIOUS
  <2> HIDE DEF played, hands
  <2> QED
    BY <2>1, CardsChange
<1>6. called = [epi |-> frame.epi, todo |-> frame.todo \ {card}, card |-> {card}, stich |-> stich, best |-> frame.best]
  <2>1. called = [frame EXCEPT !.todo = frame.todo \ {card}, !.card = {card}, !.stich = stich]
    OBVIOUS
  <2> HIDE DEF called, stich
  <2> QED
    BY <2>1, CallChanges
<1> HIDE DEF played, called, stich
<1>7. SearchIs(below, s.game, hands, after, s.deal, s.cache, Append(Front(s.stack), called), s.output)
  <2>1. below = [played EXCEPT !.stack = Append(Front(s.stack), called)]
    BY <1>5 DEF SearchIs
  <2> HIDE DEF below, hands
  <2>0. IsSearch(played)
    BY <1>5 DEF SearchIs
  <2>2. SearchIs(below, played.game, played.ahand, played.vecstich, played.deal, played.cache,
                 Append(Front(s.stack), called), played.output)
    BY <2>0, <2>1, StackChanges
  <2> QED
    BY <1>5, <2>2 DEF SearchIs
<1> HIDE DEF below, hands
<1>8. SearchIs(next, s.game, hands, after, s.deal, Recount(after), Append(Front(s.stack), called), s.output)
  <2>1. CASE complete
    <3> DEFINE k == PointsStich(after[Len(after) - 1])
               counts == Registered(s.cache, winner, k)
    <3>1. /\ IsSearch(below) /\ below.game = s.game /\ below.ahand = hands /\ below.vecstich = after
          /\ below.deal = s.deal /\ below.cache = s.cache
          /\ below.stack = Append(Front(s.stack), called) /\ below.output = s.output
      BY <1>7 DEF SearchIs
    <3>2. Recount(after) = counts
      BY <1>1, <1>12, <2>1 DEF CountsAfter
    <3>3. SearchIs(WithStichRegistered(below), below.game, below.ahand, below.vecstich, below.deal,
                   Registered(below.cache, winner, k), below.stack, below.output)
      BY <3>1, StichIsRegistered
    <3>4. next = WithStichRegistered(below)
      BY <2>1
    <3> HIDE DEF next, k, winner
    <3> QED
      BY <3>1, <3>2, <3>3, <3>4
  <2>2. CASE ~ complete
    <3>1. Recount(after) = s.cache
      <4>1. Recount(after) = Recount(vec)
        BY <1>12, <2>2 DEF CountsAfter
      <4> QED
        BY <1>1, <4>1
    <3>2. next = below
      BY <2>2
    <3> QED
      BY <1>7, <3>1, <3>2
  <2> QED
    BY <2>1, <2>2
<1> HIDE DEF next
<1>9. IsSearch(next) /\ next.stack = Append(Front(s.stack), called) /\ next.output = s.output
  BY <1>8 DEF SearchIs
<1>10. Moves(PositionIn(s), PositionIn(next), card)
  <2>1. /\ PositionIn(next) = [game |-> s.game, ahand |-> hands, vecstich |-> after, deal |-> s.deal, cache |-> Recount(after)]
        /\ PositionIn(s) = [game |-> s.game, ahand |-> s.ahand, vecstich |-> vec, deal |-> s.deal, cache |-> s.cache]
    BY <1>8 DEF PositionIn, SearchIs
  <2> QED
    BY <1>2, <1>3, <2>1 DEF Moves, IsPosition, hands
<1>11. stich = StichRegistered(PositionIn(s), PositionIn(next))
  <2>1. PositionIn(next).vecstich = after /\ PositionIn(s).cache = s.cache
    BY <1>8 DEF PositionIn, SearchIs
  <2> QED
    BY <2>1 DEF StichRegistered, stich
<1> QED
  BY <1>4, <1>6, <1>9, <1>10, <1>11

\* A line of play one card longer.
LEMMA CallsGrow ==
  ASSUME NEW k \in Nat, NEW stack, NEW h, NEW start, CallsLead(stack, k, h, start), NEW r, PositionKept(r),
         CallIn(stack[k + 1], h[k + 1]), Leads(stack[k + 1], h[k + 1], r),
         NEW g, g = [i \in 1 .. k + 2 |-> IF i = k + 2 THEN r ELSE h[i]]
  PROVE  CallsLead(stack, k + 1, g, start) /\ g[k + 2] = r
<1>1. /\ \A i \in 1 .. k + 1 : g[i] = h[i]
      /\ g[k + 2] = r
  OBVIOUS
<1>2. g[1] = start
  BY <1>1 DEF CallsLead
<1>3. \A i \in 1 .. k + 2 : i = k + 2 \/ i \in 1 .. k + 1
  OBVIOUS
<1>4. \A i \in 1 .. k + 2 : PositionKept(g[i])
  BY <1>1, <1>3 DEF CallsLead
<1>5. ASSUME NEW i \in 1 .. k + 1 PROVE CallIn(stack[i], g[i]) /\ Leads(stack[i], g[i], g[i + 1])
  <2>1. CASE i = k + 1
    <3>1. g[i] = h[k + 1] /\ g[i + 1] = r
      BY <1>1, <2>1
    <3> QED
      BY <2>1, <3>1
  <2>2. CASE i # k + 1
    <3>1. i \in 1 .. k /\ i + 1 \in 1 .. k + 1
      BY <2>2
    <3>2. g[i] = h[i] /\ g[i + 1] = h[i + 1]
      BY <1>1, <3>1
    <3> QED
      BY <3>1, <3>2 DEF CallsLead
  <2> QED
    BY <2>1, <2>2
<1>6. (k + 1) + 1 = k + 2
  OBVIOUS
<1> QED
  BY <1>1, <1>2, <1>4, <1>5, <1>6 DEF CallsLead

\* A card that is explored leaves the search on a line of play.
LEMMA ExploreStaysOnLine ==
  ASSUME NEW s, NEW h, NEW start, Trying(s, h, start), NEW card \in Last(s.stack).todo, NEW t \in Explore(s, card)
  PROVE  \E g : OnLine(t, g, start)
<1> DEFINE n == Len(s.stack)
           frame == Last(s.stack)
           k == n - 1
<1>1. /\ IsSearch(s) /\ IsSeq(s.stack) /\ s.output = {} /\ n > 0
      /\ CallsLead(s.stack, k, h, start)
      /\ h[n] = PositionIn(s) /\ CallIn(s.stack[n], h[n])
  BY DEF Trying
<1>2. /\ n \in Nat /\ frame = s.stack[n] /\ IsSeq(Front(s.stack)) /\ Len(Front(s.stack)) = k
      /\ \A i \in 1 .. k : Front(s.stack)[i] = s.stack[i]
  BY <1>1, SeqGrows, SeqShrinks
<1>3. k \in Nat /\ n = k + 1 /\ n \in 1 .. k + 1
  BY <1>1, <1>2
<1>4. PositionKept(PositionIn(s))
  BY <1>1, <1>3 DEF CallsLead
<1>5. /\ frame = [epi |-> frame.epi, todo |-> frame.todo, card |-> frame.card, stich |-> frame.stich, best |-> frame.best]
      /\ frame.epi = Turn(s.vecstich) /\ frame.todo \subseteq s.ahand[frame.epi]
      /\ frame.best \subseteq OutputsFor(PositionIn(s).game.epi)
  <2>1. PositionIn(s).vecstich = s.vecstich /\ PositionIn(s).ahand = s.ahand
    BY DEF PositionIn
  <2>2. CallIn(frame, PositionIn(s))
    BY <1>1, <1>2
  <2> QED
    BY <2>1, <2>2 DEF CallIn
<1> HIDE DEF n, frame, k
<1>6. PICK next, called :
           /\ t \in Call(next) /\ IsSearch(next)
           /\ next.stack = Append(Front(s.stack), called) /\ next.output = s.output
           /\ Moves(PositionIn(s), PositionIn(next), card)
           /\ called = [epi |-> frame.epi, todo |-> frame.todo \ {card}, card |-> {card},
                        stich |-> StichRegistered(PositionIn(s), PositionIn(next)), best |-> frame.best]
  BY <1>1, <1>4, <1>5, Explored DEF frame
<1>7. /\ IsSeq(next.stack) /\ Len(next.stack) = k + 1 /\ next.stack[k + 1] = called
      /\ \A i \in 1 .. k : next.stack[i] = s.stack[i]
  BY <1>2, <1>6, SeqGrows
<1>8. CallsLead(next.stack, k, h, start)
  BY <1>1, <1>3, <1>7, CallsStay
<1>9. CallIn(called, PositionIn(s))
  <2>1. PositionIn(s).vecstich = s.vecstich /\ PositionIn(s).ahand = s.ahand
    BY DEF PositionIn
  <2>2. called.todo \subseteq s.ahand[frame.epi] /\ called.epi = frame.epi /\ called.best = frame.best
    BY <1>5, <1>6
  <2> QED
    BY <1>5, <1>6, <2>1, <2>2 DEF CallIn
<1>10. Leads(called, PositionIn(s), PositionIn(next))
  BY <1>6 DEF Leads
<1>11. PositionKept(PositionIn(next))
  BY <1>4, <1>6, MoveKeeps
<1> DEFINE g == [i \in 1 .. k + 2 |-> IF i = k + 2 THEN PositionIn(next) ELSE h[i]]
<1>12. CallsLead(next.stack, k + 1, g, start) /\ g[k + 2] = PositionIn(next)
  <2>1. h[k + 1] = PositionIn(s)
    BY <1>1, <1>3
  <2> HIDE DEF g
  <2> QED
    BY <1>3, <1>7, <1>8, <1>9, <1>10, <1>11, <2>1, CallsGrow DEF g
<1> HIDE DEF g
<1>13. Entering(next, g, start)
  <2>1. Len(next.stack) + 1 = k + 2
    BY <1>3, <1>7
  <2> QED
    BY <1>1, <1>6, <1>7, <1>12, <2>1 DEF Entering
<1> QED
  BY <1>6, <1>13, CallStaysOnLine

\* All that a card changes is taken back.
LEMMA PositionChanges ==
  ASSUME NEW s, IsSearch(s), NEW x, NEW y, NEW z, NEW t, t = [s EXCEPT !.cache = x, !.ahand = y, !.vecstich = z]
  PROVE  SearchIs(t, s.game, y, z, s.deal, x, s.stack, s.output)
<1>1. IsSearch(t)
  BY DEF IsSearch
<1>2. /\ t.game = s.game /\ t.ahand = y /\ t.vecstich = z /\ t.deal = s.deal /\ t.cache = x
      /\ t.stack = s.stack /\ t.output = s.output
  BY DEF IsSearch
<1> QED
  BY <1>1, <1>2 DEF SearchIs

\* A call returns.
LEMMA StackAndOutputChange ==
  ASSUME NEW s, IsSearch(s), NEW x, NEW y, NEW t, t = [s EXCEPT !.stack = x, !.output = y]
  PROVE  SearchIs(t, s.game, s.ahand, s.vecstich, s.deal, s.cache, x, y)
<1>1. IsSearch(t)
  BY DEF IsSearch
<1>2. /\ t.game = s.game /\ t.ahand = s.ahand /\ t.vecstich = s.vecstich /\ t.deal = s.deal /\ t.cache = s.cache
      /\ t.stack = x /\ t.output = y
  BY DEF IsSearch
<1> QED
  BY <1>1, <1>2 DEF SearchIs

\* A call has explored a card.
LEMMA CallForgets ==
  ASSUME NEW f, f = [epi |-> f.epi, todo |-> f.todo, card |-> f.card, stich |-> f.stich, best |-> f.best],
         NEW x, NEW g, g = [f EXCEPT !.card = {}, !.stich = {}, !.best = x]
  PROVE  g = [epi |-> f.epi, todo |-> f.todo, card |-> {}, stich |-> {}, best |-> x]
<1>1. g = [epi |-> g.epi, todo |-> g.todo, card |-> g.card, stich |-> g.stich, best |-> g.best]
  OBVIOUS
<1>2. g.epi = f.epi /\ g.todo = f.todo /\ g.card = {} /\ g.stich = {} /\ g.best = x
  OBVIOUS
<1> QED
  BY <1>1, <1>2

\* the counts without what was registered last
Unregistered(counts, registered) ==
  [epi \in EPIs |->
     IF \E stich \in registered : stich.epi_winner = epi
     THEN [n_stich |-> counts[epi].n_stich - 1, n_point |-> (CHOOSE stich \in registered : TRUE).n_points_before]
     ELSE counts[epi]]

\* Who registers a Stich and unregisters it has the same counts again.
LEMMA RegisteredAndUnregistered ==
  ASSUME NEW c \in [EPIs -> Counts], NEW w, NEW k
  PROVE  /\ Unregistered(Registered(c, w, k), {[epi_winner |-> w, n_points_before |-> c[w].n_point]}) = c
         /\ Unregistered(c, {}) = c
<1> DEFINE r == Registered(c, w, k)
           stich == [epi_winner |-> w, n_points_before |-> c[w].n_point]
           u == Unregistered(r, {stich})
<1>1. ASSUME NEW e \in EPIs PROVE u[e] = c[e]
  <2>1. c[e] \in Counts /\ c[e].n_stich \in Int
    BY DEF Counts
  <2>2. (CHOOSE x \in {stich} : TRUE) = stich /\ stich.epi_winner = w /\ stich.n_points_before = c[w].n_point
    OBVIOUS
  <2>3. CASE e = w
    <3>1. u[e] = [n_stich |-> r[e].n_stich - 1, n_point |-> c[w].n_point]
      <4> HIDE DEF r, stich
      <4> QED
        BY <2>2, <2>3 DEF Unregistered
    <3>2. r[e].n_stich = c[e].n_stich + 1
      BY <2>3 DEF Registered
    <3>3. r[e].n_stich - 1 = c[e].n_stich
      <4> HIDE DEF r
      <4> QED
        BY <2>1, <3>2
    <3>4. c[e] = [n_stich |-> c[e].n_stich, n_point |-> c[e].n_point]
      BY <2>1 DEF Counts
    <3> HIDE DEF u, r
    <3> QED
      BY <2>3, <3>1, <3>3, <3>4
  <2>4. CASE e # w
    <3>1. u[e] = r[e]
      <4> HIDE DEF r, stich
      <4> QED
        BY <2>2, <2>4 DEF Unregistered
    <3>2. r[e] = c[e]
      BY <2>4 DEF Registered
    <3> QED
      BY <3>1, <3>2
  <2> QED
    BY <2>3, <2>4
<1>2. u = [e \in EPIs |-> u[e]]
  BY DEF Unregistered
<1>3. Unregistered(c, {}) = c
  BY DEF Unregistered
<1> HIDE DEF u
<1>4. u = c
  BY <1>1, <1>2
<1> QED
  BY <1>3, <1>4 DEF u

\* The search is back in the position where the card was played.
LEMMA TakenBack ==
  ASSUME NEW s, IsSearch(s), NEW q, PositionKept(q), NEW frame, frame = Last(s.stack),
         frame.epi = Turn(q.vecstich), Leads(frame, q, PositionIn(s))
  PROVE  /\ SearchIs(TakeBack(s), s.game, q.ahand, q.vecstich, s.deal, q.cache, s.stack, s.output)
         /\ q.game = s.game /\ q.deal = s.deal
<1> DEFINE r == PositionIn(s)
           vec == q.vecstich
           after == s.vecstich
           e == Turn(vec)
           d == q.game.rules.decider
           registered == StichRegistered(q, r)
           cache == Unregistered(s.cache, registered)
           hands == [s.ahand EXCEPT ![e] = @ \cup frame.card]
           stichs == C(s)!Restored(after)
           t == TakeBack(s)
<1>1. PICK card : Moves(q, r, card) /\ frame.card = {card} /\ frame.stich = registered
  BY DEF Leads
<1>2. r.game = s.game /\ r.ahand = s.ahand /\ r.vecstich = after /\ r.deal = s.deal /\ r.cache = s.cache
  BY DEF PositionIn
<1>3. /\ q.ahand \in [Seats -> SUBSET Deck] /\ StichsOK(vec) /\ q.cache = Recount(vec)
  BY DEF PositionKept
<1>4. card \in Deck /\ e \in Seats
  BY <1>1, MoveKeeps
<1>5. /\ q.game = s.game /\ q.deal = s.deal /\ card \in q.ahand[e]
      /\ s.ahand = [q.ahand EXCEPT ![e] = @ \ {card}]
      /\ OneCardMore(vec, after, d, card) /\ s.cache = Recount(after)
  BY <1>1, <1>2 DEF Moves
<1>6. hands = q.ahand
  <2>1. [s.ahand EXCEPT ![e] = @ \cup {card}] = q.ahand
    BY <1>3, <1>4, <1>5, OneCardLess
  <2> QED
    BY <1>1, <2>1
<1>7. stichs = vec
  <2> HIDE DEF vec, after, d
  <2> QED
    BY <1>3, <1>4, <1>5, CardIsTakenBack
<1>8. cache = q.cache
  <2>1. q.cache \in [EPIs -> Counts] /\ CountsAfter(vec, after)
    <3> HIDE DEF vec, after, d
    <3> QED
      BY <1>3, <1>4, <1>5, RecountAfter
  <2>2. CASE BetweenStichs(after)
    <3> DEFINE w == after[Len(after)].epi_first
               k == PointsStich(after[Len(after) - 1])
    <3>1. s.cache = Registered(q.cache, w, k)
      BY <1>3, <1>5, <2>1, <2>2 DEF CountsAfter
    <3>2. registered = {[epi_winner |-> w, n_points_before |-> q.cache[w].n_point]}
      <4> HIDE DEF r
      <4> QED
        BY <1>2, <2>2 DEF StichRegistered
    <3> HIDE DEF w, k, registered
    <3> QED
      BY <2>1, <3>1, <3>2, RegisteredAndUnregistered
  <2>3. CASE ~ BetweenStichs(after)
    <3>1. s.cache = q.cache
      BY <1>3, <1>5, <2>1, <2>3 DEF CountsAfter
    <3>2. registered = {}
      <4> HIDE DEF r
      <4> QED
        BY <1>2, <2>3 DEF StichRegistered
    <3> HIDE DEF registered
    <3> QED
      BY <2>1, <3>1, <3>2, RegisteredAndUnregistered
  <2> QED
    BY <2>2, <2>3
<1>9. t = [s EXCEPT !.cache = cache, !.ahand = hands, !.vecstich = stichs]
  <2>1. t = [s EXCEPT !.cache = Unregistered(s.cache, frame.stich), !.ahand[frame.epi] = @ \cup frame.card,
                      !.vecstich = stichs]
    BY DEF TakeBack, Unregistered
  <2> HIDE DEF t, stichs
  <2> QED
    BY <1>1, <2>1
<1> HIDE DEF t, cache, hands, stichs
<1>10. SearchIs(t, s.game, hands, stichs, s.deal, cache, s.stack, s.output)
  BY <1>9, PositionChanges
<1> QED
  BY <1>5, <1>6, <1>7, <1>8, <1>10 DEF t

\* Fewer calls are on the same line of play.
LEMMA FewerCalls ==
  ASSUME NEW k \in Nat, NEW stack, NEW h, NEW start, CallsLead(stack, k + 1, h, start)
  PROVE  /\ CallsLead(stack, k, h, start)
         /\ CallIn(stack[k + 1], h[k + 1]) /\ Leads(stack[k + 1], h[k + 1], h[k + 2]) /\ PositionKept(h[k + 1])
<1>1. \A i \in 1 .. k + 1 : i \in 1 .. (k + 1) + 1
  OBVIOUS
<1>2. \A i \in 1 .. k : i \in 1 .. k + 1
  OBVIOUS
<1>3. k + 1 \in 1 .. k + 1 /\ (k + 1) + 1 = k + 2
  OBVIOUS
<1>4. CallIn(stack[k + 1], h[k + 1]) /\ Leads(stack[k + 1], h[k + 1], h[k + 2])
  BY <1>3 DEF CallsLead
<1>5. PositionKept(h[k + 1])
  BY <1>1, <1>3 DEF CallsLead
<1>6. CallsLead(stack, k, h, start)
  BY <1>1, <1>2 DEF CallsLead
<1> QED
  BY <1>4, <1>5, <1>6

\* A call that returns leaves the search on its line of play.
LEMMA ReturnStaysOnLine ==
  ASSUME NEW s, NEW h, NEW start, Returned(s, h, start), ~ Finished(s)
  PROVE  OnLine(Return(s), h, start)
<1> DEFINE n == Len(s.stack)
           k == n - 1
           frame == Last(s.stack)
           q == h[n]
           combined == { IF frame.best = {} THEN output
                         ELSE Combine(s.game.epi, frame.epi, CHOOSE best \in frame.best : TRUE, output) :
                         output \in s.output }
           back == TakeBack(s)
           again == [frame EXCEPT !.card = {}, !.stich = {}, !.best = combined]
           t == Return(s)
<1>1. /\ IsSearch(s) /\ IsSeq(s.stack) /\ s.output # {} /\ s.output \subseteq OutputsFor(s.game.epi)
      /\ CallsLead(s.stack, n, h, start) /\ h[n + 1] = PositionIn(s)
  BY DEF Returned
<1>2. n \in Nat /\ n > 0
  <2>1. n \in Nat /\ s.stack # <<>>
    BY <1>1, SeqGrows DEF Finished
  <2>2. PICK S : s.stack \in Seq(S)
    BY <1>1 DEF IsSeq
  <2> QED
    BY <2>1, <2>2
<1>3. /\ frame = s.stack[n] /\ IsSeq(Front(s.stack)) /\ Len(Front(s.stack)) = k
      /\ \A i \in 1 .. k : Front(s.stack)[i] = s.stack[i]
  BY <1>1, <1>2, SeqShrinks
<1>4. k \in Nat /\ n = k + 1 /\ n + 1 = k + 2
  BY <1>2
<1> HIDE DEF n, k, frame
<1>5. CallsLead(s.stack, k, h, start) /\ CallIn(frame, q) /\ Leads(frame, q, PositionIn(s)) /\ PositionKept(q)
  BY <1>1, <1>3, <1>4, FewerCalls
<1>6. /\ frame = [epi |-> frame.epi, todo |-> frame.todo, card |-> frame.card, stich |-> frame.stich, best |-> frame.best]
      /\ frame.epi = Turn(q.vecstich) /\ frame.todo \subseteq q.ahand[Turn(q.vecstich)]
      /\ frame.best \subseteq OutputsFor(q.game.epi) /\ q.game.epi \in EPIs
  BY <1>5 DEF CallIn, PositionKept, GameOK
<1> HIDE DEF q
<1>7. /\ SearchIs(back, s.game, q.ahand, q.vecstich, s.deal, q.cache, s.stack, s.output)
      /\ q.game = s.game /\ q.deal = s.deal
  BY <1>1, <1>5, <1>6, TakenBack DEF frame
<1>8. combined # {} /\ combined \subseteq OutputsFor(q.game.epi)
  <2>1. ASSUME NEW output \in s.output, frame.best # {}
        PROVE  Combine(s.game.epi, frame.epi, CHOOSE best \in frame.best : TRUE, output) \in OutputsFor(s.game.epi)
    <3> DEFINE best == CHOOSE best \in frame.best : TRUE
    <3>1. best \in frame.best
      BY <2>1
    <3> HIDE DEF best
    <3>2. /\ best \in Outputs /\ OrderedFor(s.game.epi, best) /\ s.game.epi \in EPIs
          /\ output \in Outputs /\ OrderedFor(s.game.epi, output)
      BY <1>1, <1>6, <1>7, <3>1 DEF OutputsFor
    <3> QED
      BY <3>2, CombineType, CombineKeepsOrder DEF OutputsFor, best
  <2> QED
    BY <1>1, <1>7, <2>1
<1>9. t = IF frame.todo = {} THEN [back EXCEPT !.stack = Front(s.stack), !.output = combined]
          ELSE [back EXCEPT !.stack = Append(Front(s.stack), again), !.output = {}]
  <2>1. back.stack = s.stack
    BY <1>7 DEF SearchIs
  <2> HIDE DEF back, combined, again
  <2>2. t = IF frame.todo = {} THEN [back EXCEPT !.stack = Front(back.stack), !.output = combined]
            ELSE [back EXCEPT !.stack = Append(Front(back.stack), again), !.output = {}]
    BY DEF Return, frame, back, combined, again
  <2> QED
    BY <2>1, <2>2
<1> HIDE DEF combined, back, t
<1>10. again = [epi |-> frame.epi, todo |-> frame.todo, card |-> {}, stich |-> {}, best |-> combined]
  BY <1>6, CallForgets
<1> HIDE DEF again
<1>11. IsSearch(back) /\ back.game = s.game /\ back.ahand = q.ahand /\ back.vecstich = q.vecstich
       /\ back.deal = s.deal /\ back.cache = q.cache
  BY <1>7 DEF SearchIs
<1>12. ASSUME NEW x, NEW y, SearchIs(t, back.game, back.ahand, back.vecstich, back.deal, back.cache, x, y)
       PROVE  IsSearch(t) /\ PositionIn(t) = q /\ t.stack = x /\ t.output = y
  <2>1. q = [game |-> q.game, ahand |-> q.ahand, vecstich |-> q.vecstich, deal |-> q.deal, cache |-> q.cache]
    BY <1>5 DEF PositionKept, IsPosition
  <2>2. /\ IsSearch(t) /\ t.game = q.game /\ t.ahand = q.ahand /\ t.vecstich = q.vecstich /\ t.deal = q.deal
        /\ t.cache = q.cache /\ t.stack = x /\ t.output = y
    BY <1>7, <1>11, <1>12 DEF SearchIs
  <2> QED
    BY <2>1, <2>2 DEF PositionIn
<1>13. CASE frame.todo = {}
  <2>1. SearchIs(t, back.game, back.ahand, back.vecstich, back.deal, back.cache, Front(s.stack), combined)
    BY <1>9, <1>11, <1>13, StackAndOutputChange
  <2>2. IsSearch(t) /\ PositionIn(t) = q /\ t.stack = Front(s.stack) /\ t.output = combined
    BY <1>12, <2>1
  <2>3. CallsLead(t.stack, k, h, start)
    BY <1>3, <1>4, <1>5, <2>2, CallsStay
  <2>4. t.game = q.game
    BY <2>2 DEF PositionIn
  <2>5. t.output # {} /\ t.output \subseteq OutputsFor(t.game.epi)
    BY <1>8, <2>2, <2>4
  <2>6. Returned(t, h, start)
    BY <1>3, <1>4, <2>2, <2>3, <2>5 DEF Returned, q
  <2> QED
    BY <2>6 DEF OnLine, t
<1>14. CASE frame.todo # {}
  <2>1. SearchIs(t, back.game, back.ahand, back.vecstich, back.deal, back.cache, Append(Front(s.stack), again), {})
    BY <1>9, <1>11, <1>14, StackAndOutputChange
  <2>2. IsSearch(t) /\ PositionIn(t) = q /\ t.stack = Append(Front(s.stack), again) /\ t.output = {}
    BY <1>12, <2>1
  <2>3. /\ IsSeq(t.stack) /\ Len(t.stack) = k + 1 /\ t.stack[k + 1] = again
        /\ \A i \in 1 .. k : t.stack[i] = s.stack[i]
    BY <1>3, <2>2, SeqGrows
  <2>4. CallsLead(t.stack, k, h, start)
    BY <1>4, <1>5, <2>3, CallsStay
  <2>5. CallIn(again, q)
    BY <1>6, <1>8, <1>10 DEF CallIn
  <2>6. Trying(t, h, start)
    <3>1. Len(t.stack) > 0 /\ Len(t.stack) - 1 = k /\ Len(t.stack) = n
      BY <1>4, <2>3
    <3> QED
      BY <1>4, <2>2, <2>3, <2>4, <2>5, <3>1 DEF Trying, q
  <2> QED
    BY <2>6 DEF OnLine, t
<1> QED
  BY <1>13, <1>14

------------------------------------------------------------------------------
(***************************************************************************)
(* Where a search begins.                                                  *)
(***************************************************************************)
\* P are the seats of the l cards that are played from the seat f on
HavePlayed(f, l, P) == \A e \in {0, 1, 2, 3} : e \in P <=> \E i \in 1 .. l : (f + i - 1) % 4 = e

\* Each card is of another seat.
LEMMA SeatsThatPlayed ==
  ASSUME NEW f \in {0, 1, 2, 3}, NEW l \in {0, 1, 2, 3}, NEW P, HavePlayed(f, l, P)
  PROVE  (IF 0 \in P THEN 1 ELSE 0) + (IF 1 \in P THEN 1 ELSE 0)
           + (IF 2 \in P THEN 1 ELSE 0) + (IF 3 \in P THEN 1 ELSE 0) = l
<1>1. \A i \in 1 .. l : i \in {1, 2, 3} /\ i <= l
  OBVIOUS
<1>2. /\ 1 <= l => 1 \in 1 .. l
      /\ 2 <= l => 2 \in 1 .. l
      /\ 3 <= l => 3 \in 1 .. l
  OBVIOUS
<1>3. (f + 1 - 1) % 4 = f % 4 /\ (f + 2 - 1) % 4 = (f + 1) % 4 /\ (f + 3 - 1) % 4 = (f + 2) % 4
  OBVIOUS
<1>4. ASSUME NEW e \in {0, 1, 2, 3}
      PROVE  e \in P <=> (1 <= l /\ f % 4 = e) \/ (2 <= l /\ (f + 1) % 4 = e) \/ (3 <= l /\ (f + 2) % 4 = e)
  <2>1. ASSUME e \in P
        PROVE  (1 <= l /\ f % 4 = e) \/ (2 <= l /\ (f + 1) % 4 = e) \/ (3 <= l /\ (f + 2) % 4 = e)
    <3>1. PICK i \in 1 .. l : (f + i - 1) % 4 = e
      BY <2>1 DEF HavePlayed
    <3>2. i = 1 \/ i = 2 \/ i = 3
      BY <1>1
    <3>3. i <= l
      BY <1>1
    <3> QED
      BY <1>3, <3>1, <3>2, <3>3
  <2>2. ASSUME (1 <= l /\ f % 4 = e) \/ (2 <= l /\ (f + 1) % 4 = e) \/ (3 <= l /\ (f + 2) % 4 = e)
        PROVE  e \in P
    <3>1. \E i \in 1 .. l : (f + i - 1) % 4 = e
      BY <1>2, <1>3, <2>2
    <3> QED
      BY <3>1 DEF HavePlayed
  <2> QED
    BY <2>1, <2>2
<1> QED
  BY <1>4

\* The cards on the table and in the hands are all there are.
LEMMA CardsInTheGame ==
  ASSUME PositionOK, NEW h, GoodHands(h)
  PROVE  /\ Deck = (UNION { h[seat] : seat \in Seats }) \cup CardsIn(pos.vecstich)
         /\ Cardinality(Deck) = CardsHeld(h) + CountOf(pos.vecstich)
<1> DEFINE vec == pos.vecstich
           m == Len(vec)
           stich == vec[m]
           l == Len(stich.cards)
           P == { e \in Seats : \E i \in 1 .. l : (stich.epi_first + i - 1) % 4 = e }
           a == [e \in Seats |-> Cardinality(pos.ahand[e])]
<1>1. /\ m \in Nat /\ m > 0 /\ stich.cards \in Seq(Deck) /\ l \in 0 .. 4 /\ l # 4 /\ stich.epi_first \in Seats
      /\ C(pos)!CurrentStich = stich
  BY PositionTyped
<1>2. PlayedCards = CardsIn(vec)
  BY PositionTyped DEF PlayedCards, CardsIn
<1>3. PlayedCards \subseteq Deck
  BY DEF PositionOK, PlayedByTheRules
<1>4. Deck = (UNION { h[seat] : seat \in Seats }) \cup CardsIn(vec)
  BY <1>2, <1>3 DEF GoodHands
<1>5. CardsHeld(h) = CardsHeld(pos.ahand)
  <2>1. /\ CardsHeld(h) = Cardinality(UNION { h[e] : e \in Seats })
        /\ CardsHeld(pos.ahand) = Cardinality(UNION { pos.ahand[e] : e \in Seats })
    BY TrueHandsAreGood, CardsOfHands, FourSeats, SMTT(30) DEF GoodHands, CardsHeld
  <2>2. (UNION { h[e] : e \in Seats }) = UNION { pos.ahand[e] : e \in Seats }
    BY TrueHandsAreGood DEF GoodHands
  <2> QED
    BY <2>1, <2>2
<1>6. ASSUME NEW e \in Seats
      PROVE  a[e] = CardsPerPlayer - (m - 1) - (IF e \in P THEN 1 ELSE 0)
  <2>1. a[e] = Remaining(e)
    BY TrueHandsAreGood
  <2>2. Len(C(pos)!CompletedStichs) = m - 1
    <3>1. m - 1 \in 0 .. Len(vec) /\ vec \in Seq(Stiche)
      BY <1>1, PositionTyped
    <3>2. Len(SubSeq(vec, 1, m - 1)) = m - 1
      BY <3>1, FirstElements
    <3> QED
      BY <3>2 DEF C!CompletedStichs
  <2>3. DOMAIN stich.cards = 1 .. l
    BY <1>1
  <2>4. (\E i \in DOMAIN stich.cards : C(pos)!SeatAt(stich, i) = e) <=> e \in P
    <3> HIDE DEF stich, l
    <3> QED
      BY <2>3, FourSeats DEF C!SeatAt
  <2> HIDE DEF P, stich, m, vec, l, a
  <2> QED
    BY <1>1, <2>1, <2>2, <2>4 DEF Remaining
<1>7. (IF 0 \in P THEN 1 ELSE 0) + (IF 1 \in P THEN 1 ELSE 0)
        + (IF 2 \in P THEN 1 ELSE 0) + (IF 3 \in P THEN 1 ELSE 0) = l
  <2>1. l \in {0, 1, 2, 3} /\ stich.epi_first \in {0, 1, 2, 3} /\ Seats = {0, 1, 2, 3}
    BY <1>1, FourSeats
  <2>2. HavePlayed(stich.epi_first, l, P)
    BY <2>1 DEF HavePlayed
  <2> HIDE DEF l, stich, P
  <2> QED
    BY <2>1, <2>2, SeatsThatPlayed
<1>8. Cardinality(Deck) = CardsHeld(h) + CountOf(vec)
  <2>1. CardsHeld(h) = Total(a) /\ CountOf(vec) = 4 * (m - 1) + l
    BY <1>5 DEF CardsHeld, CountOf
  <2>2. Cardinality(Deck) = 4 * CardsPerPlayer /\ CardsPerPlayer \in Nat
    BY FourSeats, SMTT(60)
  <2>3. /\ a[0] = CardsPerPlayer - (m - 1) - (IF 0 \in P THEN 1 ELSE 0)
        /\ a[1] = CardsPerPlayer - (m - 1) - (IF 1 \in P THEN 1 ELSE 0)
        /\ a[2] = CardsPerPlayer - (m - 1) - (IF 2 \in P THEN 1 ELSE 0)
        /\ a[3] = CardsPerPlayer - (m - 1) - (IF 3 \in P THEN 1 ELSE 0)
    BY <1>6, FourSeats
  <2> HIDE DEF a, P, l, m
  <2>4. Total(a) = 4 * CardsPerPlayer - 4 * (m - 1) - l
    BY <1>1, <1>7, <2>2, <2>3 DEF Total
  <2> QED
    BY <1>1, <2>1, <2>2, <2>4
<1> QED
  BY <1>4, <1>8

\* The rules of the game are those of its search.
LEMMA SearchedRules == SearchedGame.rules = pos.game.rules
BY DEF SearchedGame

\* The game of a search can be paid for.
LEMMA SearchedGameOK == ASSUME PositionOK PROVE GameOK(SearchedGame)
<1>1. EpiFixed \in EPIs
  BY EpiFixedSeat, FourSeats DEF EPIs
<1> QED
  BY <1>1, SuggestAssumption DEF PositionOK, GameOK, SearchedGame

\* The deal of a position can be paid for.
LEMMA FixedOK ==
  ASSUME NEW game, game.rules.decider \in Deciders, NEW h, NEW vec
  PROVE  DealOK(Fixed(game, h, vec))
<1> DEFINE trumpfs == Selected(TrumpfsDescending(game.rules.decider), Deck)
           deal == Fixed(game, h, vec)
<1>1. DOMAIN deal.trumpfs = DOMAIN trumpfs /\ Len(deal.points) = CardsPerPlayer
  <2>1. CardsPerPlayer \in Nat
    BY FourSeats
  <2>2. Len([i \in 1 .. CardsPerPlayer |-> 0]) = CardsPerPlayer
    BY <2>1
  <2> QED
    BY <2>2 DEF Fixed
<1>2. IsFiniteSet(DOMAIN trumpfs)
  <2>1. PICK X : TrumpfsDescending(game.rules.decider) \in Seq(X)
    BY TrumpfListIsSeq
  <2>2. trumpfs \in Seq(X)
    BY <2>1, SelectedIs
  <2> HIDE DEF trumpfs
  <2>3. DOMAIN trumpfs = 1 .. Len(trumpfs) /\ Len(trumpfs) \in Nat
    BY <2>2
  <2> QED
    BY <2>3, FS_Interval
<1> HIDE DEF trumpfs, deal
<1>3. IsFiniteSet(DOMAIN deal.trumpfs) /\ Len(deal.points) \in Nat
  BY <1>1, <1>2, FourSeats
<1> QED
  BY <1>3 DEF DealOK, deal

\* The position in which a search begins has lost no card.
LEMMA JudgedKept ==
  ASSUME PositionOK, NEW h, GoodHands(h), NEW card \in AllowedCards
  PROVE  PositionKept(Judged(h, card)) /\ card \in HandFixed
<1> DEFINE q == [game |-> SearchedGame, ahand |-> h, vecstich |-> pos.vecstich, deal |-> Judged(h, card).deal,
                 cache |-> Recount(pos.vecstich)]
           d == pos.game.rules.decider
           left == [h EXCEPT ![EpiFixed] = @ \ {card}]
           after == C(pos)!StichsAfter(card)
<1>9. GameOK(SearchedGame) /\ DealOK(Fixed(SearchedGame, left, after))
  <2>1. pos.game.rules.decider \in Deciders
    BY PositionTyped DEF GameRules
  <2> QED
    BY <2>1, SearchedGameOK, SearchedRules, FixedOK
<1>1. EpiFixed = Turn(pos.vecstich) /\ EpiFixed \in Seats
  BY EpiFixedSeat DEF EpiFixed, C!Current, C!SeatAt, C!CurrentStich, Turn
<1>2. card \in h[EpiFixed] /\ card \in HandFixed /\ h \in [Seats -> SUBSET Deck]
  BY AllowedFromHand DEF AllowedCards, GoodHands, HandFixed
<1>3. card \in Deck
  BY <1>1, <1>2
<1>4. StichsOK(pos.vecstich)
  BY PositionTyped DEF StichsOK
<1>5. Chained(d, pos.vecstich)
  <2>1. ASSUME NEW i \in 2 .. Len(pos.vecstich) PROVE pos.vecstich[i].epi_first = WinnerIn(d, pos.vecstich[i - 1])
    <3>1. i \in 1 .. Len(pos.vecstich) /\ i > 1
      BY PositionTyped
    <3>2. pos.vecstich[i].epi_first = C(pos)!PreliminaryWinner(pos.vecstich[i - 1])
      BY <3>1 DEF PositionOK, PlayedByTheRules
    <3> QED
      BY <3>2, SameWinner
  <2> QED
    BY <2>1 DEF Chained
<1>6. SearchedGame.rules.decider = d
  BY SearchedRules
<1>7. PositionKept(q)
  <2>1. /\ Deck = (UNION { h[seat] : seat \in Seats }) \cup CardsIn(pos.vecstich)
        /\ Cardinality(Deck) = CardsHeld(h) + CountOf(pos.vecstich)
    BY CardsInTheGame
  <2> QED
    BY <1>2, <1>4, <1>5, <1>6, <1>9, <2>1 DEF PositionKept, IsPosition, Judged
<1>8. Moves(q, Judged(h, card), card)
  <2>1. OneCardMore(pos.vecstich, after, d, card)
    BY <1>3, <1>4, StichsAfterCard
  <2>2. Judged(h, card) = [game |-> SearchedGame, ahand |-> left, vecstich |-> after,
                           deal |-> Fixed(SearchedGame, left, after), cache |-> Recount(after)]
    BY DEF Judged
  <2> HIDE DEF after
  <2> QED
    BY <1>1, <1>2, <1>6, <2>1, <2>2 DEF Moves, IsPosition
<1> HIDE DEF q
<1> QED
  BY <1>2, <1>7, <1>8, MoveKeeps

\* A search begins on a line of play.
LEMMA BeginsOnLine ==
  ASSUME PositionOK, NEW h, GoodHands(h), NEW card \in AllowedCards,
         NEW t \in Begin(SearchedGame, [h EXCEPT ![EpiFixed] = @ \ {card}], C(pos)!StichsAfter(card))
  PROVE  \E g : OnLine(t, g, Judged(h, card))
<1> DEFINE q == Judged(h, card)
           s == [game |-> q.game, ahand |-> q.ahand, vecstich |-> q.vecstich, deal |-> q.deal, cache |-> q.cache,
                 stack |-> <<>>, output |-> {}]
           g == [i \in 1 .. 1 |-> q]
<1>1. t \in Call(s)
  BY DEF Begin, Judged
<1>2. PositionKept(q)
  BY JudgedKept
<1> HIDE DEF q
<1>3. /\ IsSearch(s) /\ s.stack = <<>> /\ s.output = {} /\ PositionIn(s) = q
  BY <1>2 DEF PositionKept, IsPosition, PositionIn, IsSearch
<1>4. IsSeq(<<>>) /\ Len(<<>>) = 0
  <2>1. <<>> \in Seq({})
    OBVIOUS
  <2> QED
    BY <2>1 DEF IsSeq
<1>5. CallsLead(<<>>, 0, g, q) /\ g[1] = q
  BY <1>2 DEF CallsLead
<1> HIDE DEF s, g
<1>6. Entering(s, g, q)
  BY <1>3, <1>4, <1>5 DEF Entering
<1>7. OnLine(t, g, q)
  BY <1>1, <1>6, CallStaysOnLine
<1> QED
  BY <1>7 DEF q

------------------------------------------------------------------------------
(***************************************************************************)
(* The searches of the workers.                                            *)
(***************************************************************************)
\* s is a search for the card with the hands h
SearchFor(s, h, card) == \E g : OnLine(s, g, Judged(h, card))

TasksInv ==
  \A task \in tasks : task.ahand \in Elements(pulled) /\ task.card \in AllowedCards

WorkersTyped ==
  worker = [w \in Workers |-> [card |-> worker[w].card, search |-> worker[w].search]]

\* w searches for one of the cards with hands that were pulled
Working(w) ==
  \A s \in worker[w].search : \A card \in worker[w].card :
    card \in AllowedCards /\ \E h \in Elements(pulled) : SearchFor(s, h, card)

SearchInv ==
  /\ PulledInv
  /\ TasksInv
  /\ WorkersTyped
  /\ \A w \in Workers : Working(w)

\* A search for a card is the same search as long as the position is the same.
LEMMA SearchForStays ==
  ASSUME pos' = pos, NEW s, NEW h, NEW card
  PROVE  SearchFor(s, h, card)' <=> SearchFor(s, h, card)
<1>1. Judged(h, card)' = Judged(h, card)
  BY PositionStays DEF Judged, SearchedGame, Remaining
<1> QED
  BY <1>1 DEF SearchFor

\* The elements of a sequence stay with one element more.
LEMMA PulledStay ==
  ASSUME [Next]_vars, PulledInv
  PROVE  Elements(pulled) \subseteq Elements(pulled')
<1>1. CASE pulled' = pulled
  BY <1>1
<1>2. ASSUME NEW h, pulled' = Append(pulled, h) PROVE Elements(pulled) \subseteq Elements(pulled')
  <2>1. pulled \in Seq(PossibleHands)
    BY DEF PulledInv
  <2> QED
    BY <1>2, <2>1, AppendElements
<1> QED
  BY <1>1, <1>2, PulledOrNot DEF PullTrueHands, PullNextHands, PullSample, Pull

\* What is searched with hands that were pulled is a good position.
LEMMA PulledAreGood ==
  ASSUME PulledInv, NEW h \in Elements(pulled)
  PROVE  GoodHands(h) /\ PositionOK
<1>1. pulled \in Seq(PossibleHands) /\ PositionOK
  BY DEF PulledInv
<1>2. h \in PossibleHands
  BY <1>1 DEF Elements
<1> QED
  BY <1>1, <1>2 DEF PossibleHands

\* A worker that does nothing works on.
LEMMA WorkingStays ==
  ASSUME [Next]_vars, PulledInv, NEW w, Working(w), worker'[w] = worker[w]
  PROVE  Working(w)'
<1> SUFFICES ASSUME NEW s \in worker[w].search, NEW card \in worker[w].card
             PROVE  card \in AllowedCards' /\ \E h \in Elements(pulled') : SearchFor(s, h, card)'
  BY DEF Working
<1>1. pos' = pos /\ AllowedCards' = AllowedCards
  BY PulledOrNot, PositionStays
<1>2. PICK h \in Elements(pulled) : SearchFor(s, h, card)
  BY DEF Working
<1>3. h \in Elements(pulled') /\ SearchFor(s, h, card)'
  BY <1>1, <1>2, PulledStay, SearchForStays
<1> QED
  BY <1>1, <1>3 DEF Working

\* Tasks that are taken leave the others as they were.
LEMMA TasksStay ==
  ASSUME [Next]_vars, PulledInv, TasksInv, tasks' \subseteq tasks
  PROVE  TasksInv'
<1>1. pos' = pos /\ AllowedCards' = AllowedCards /\ Elements(pulled) \subseteq Elements(pulled')
  BY PulledOrNot, PositionStays, PulledStay
<1>2. \A task \in tasks' : task.ahand \in Elements(pulled) /\ task.card \in AllowedCards
  BY DEF TasksInv
<1>3. \A task \in tasks' : task.ahand \in Elements(pulled') /\ task.card \in AllowedCards'
  BY <1>1, <1>2
<1>4. Elements(pulled') = Elements(pulled)'
  OBVIOUS
<1> QED
  BY <1>3, <1>4 DEF TasksInv

\* Hands that are pulled make tasks of their own.
LEMMA PullMakesTasks ==
  ASSUME [Next]_vars, PulledInv, TasksInv, NEW h, Pull(h)
  PROVE  TasksInv'
<1>1. pos' = pos /\ AllowedCards' = AllowedCards /\ Elements(pulled) \subseteq Elements(pulled')
  BY PulledOrNot, PositionStays, PulledStay
<1>2. h \in Elements(pulled')
  BY AppendElements DEF Pull, PulledInv
<1>3. \A task \in tasks : task.ahand \in Elements(pulled) /\ task.card \in AllowedCards
  BY DEF TasksInv
<1>4. tasks' = tasks \cup { [i_susp |-> Len(pulled), ahand |-> h, card |-> card] : card \in AllowedCards }
  BY DEF Pull
<1>5. \A task \in tasks' : task.ahand \in Elements(pulled') /\ task.card \in AllowedCards'
  BY <1>1, <1>2, <1>3, <1>4
<1>6. Elements(pulled') = Elements(pulled)'
  OBVIOUS
<1> QED
  BY <1>5, <1>6 DEF TasksInv

\* The search of one worker changes.
LEMMA WorkerChanges ==
  ASSUME WorkersTyped, NEW w \in Workers, NEW x, NEW y,
         worker' = [worker EXCEPT ![w] = [card |-> x, search |-> y]]
  PROVE  /\ WorkersTyped'
         /\ worker'[w].card = x /\ worker'[w].search = y
         /\ \A v \in Workers \ {w} : worker'[v] = worker[v]
<1>1. DOMAIN worker = Workers
  BY DEF WorkersTyped
<1>2. \A v \in Workers : worker[v] = [card |-> worker[v].card, search |-> worker[v].search]
  BY DEF WorkersTyped
<1>3. /\ worker'[w] = [card |-> x, search |-> y]
      /\ \A v \in Workers \ {w} : worker'[v] = worker[v]
  BY <1>1
<1>4. \A v \in Workers : worker'[v] = [card |-> worker'[v].card, search |-> worker'[v].search]
  BY <1>2, <1>3
<1>5. worker' = [v \in Workers |-> worker'[v]]
  BY <1>1
<1>6. WorkersTyped'
  BY <1>4, <1>5 DEF WorkersTyped
<1> QED
  BY <1>3, <1>6

\* worker w takes the task and begins the search for it
BeginsWith(w, task, search) ==
  /\ tasks' = tasks \ {task}
  /\ worker' = [worker EXCEPT ![w] = [card |-> {task.card}, search |-> {search}]]
  /\ task.ahand \in Elements(pulled) /\ task.card \in AllowedCards
  /\ SearchFor(search, task.ahand, task.card)

\* A worker begins with a task that waits.
LEMMA BeginsWithTask ==
  ASSUME SearchInv, NEW w \in Workers, BeginSearch(w)
  PROVE  \E task \in tasks : \E search : BeginsWith(w, task, search)
<1>1. PulledInv /\ TasksInv /\ WorkersTyped
  BY DEF SearchInv
<1>2. PICK task \in tasks :
        LET ahand == [task.ahand EXCEPT ![EpiFixed] = @ \ {task.card}]
        IN  /\ \E epi \in Seats : ahand[epi] # {}
            /\ tasks' = tasks \ {task}
            /\ \E search \in Begin(SearchedGame, ahand, C(pos)!StichsAfter(task.card)) :
                 worker' = [worker EXCEPT ![w] = [card |-> {task.card}, search |-> {search}]]
  BY DEF BeginSearch
<1> DEFINE left == [task.ahand EXCEPT ![EpiFixed] = @ \ {task.card}]
<1>3. PICK search \in Begin(SearchedGame, left, C(pos)!StichsAfter(task.card)) :
        worker' = [worker EXCEPT ![w] = [card |-> {task.card}, search |-> {search}]]
  BY <1>2
<1>4. task.ahand \in Elements(pulled) /\ task.card \in AllowedCards
  BY <1>1 DEF TasksInv
<1>5. SearchFor(search, task.ahand, task.card)
  <2>1. GoodHands(task.ahand) /\ PositionOK
    BY <1>1, <1>4, PulledAreGood
  <2>2. \E g : OnLine(search, g, Judged(task.ahand, task.card))
    BY <1>3, <1>4, <2>1, BeginsOnLine
  <2> QED
    BY <2>2 DEF SearchFor
<1> QED
  BY <1>2, <1>3, <1>4, <1>5 DEF BeginsWith

\* A worker begins with a task.
LEMMA BeginKeepsWorking ==
  ASSUME SearchInv, NEW w \in Workers, BeginSearch(w), [Next]_vars
  PROVE  Working(w)' /\ WorkersTyped' /\ TasksInv' /\ \A v \in Workers \ {w} : worker'[v] = worker[v]
<1>1. PulledInv /\ TasksInv /\ WorkersTyped
  BY DEF SearchInv
<1>2. PICK task \in tasks : \E search : BeginsWith(w, task, search)
  BY BeginsWithTask
<1>3. PICK search : BeginsWith(w, task, search)
  BY <1>2
<1>4. /\ tasks' = tasks \ {task}
      /\ worker' = [worker EXCEPT ![w] = [card |-> {task.card}, search |-> {search}]]
      /\ task.ahand \in Elements(pulled) /\ task.card \in AllowedCards
  BY <1>3 DEF BeginsWith
<1>5. SearchFor(search, task.ahand, task.card)
  BY <1>3 DEF BeginsWith
<1>6. /\ WorkersTyped' /\ worker'[w].card = {task.card} /\ worker'[w].search = {search}
      /\ \A v \in Workers \ {w} : worker'[v] = worker[v]
  <2> DEFINE x == {task.card}
             y == {search}
  <2>1. worker' = [worker EXCEPT ![w] = [card |-> x, search |-> y]]
    BY <1>4
  <2> HIDE DEF x, y
  <2>2. /\ WorkersTyped' /\ worker'[w].card = x /\ worker'[w].search = y
        /\ \A v \in Workers \ {w} : worker'[v] = worker[v]
    BY <1>1, <2>1, WorkerChanges, ZenonT(30)
  <2> QED
    BY <2>2 DEF x, y
<1>7. tasks' \subseteq tasks
  BY <1>4
<1>8. TasksInv'
  BY <1>1, <1>7, TasksStay
<1>9. pos' = pos /\ AllowedCards' = AllowedCards /\ Elements(pulled) \subseteq Elements(pulled')
  BY <1>1, PulledOrNot, PositionStays, PulledStay
<1>10. SearchFor(search, task.ahand, task.card)' /\ task.ahand \in Elements(pulled') /\ task.card \in AllowedCards'
  <2> DEFINE a == task.ahand
             c == task.card
  <2>1. SearchFor(search, a, c) /\ a \in Elements(pulled') /\ c \in AllowedCards'
    BY <1>4, <1>5, <1>9
  <2>2. SearchFor(search, a, c)' <=> SearchFor(search, a, c)
    BY <1>9, SearchForStays
  <2> QED
    BY <2>1, <2>2
<1>11. Working(w)'
  BY <1>6, <1>10 DEF Working
<1> QED
  BY <1>6, <1>8, <1>11

\* Whatever line of play the search of a worker is on, a step stays on one from the same position.
StepFrom(w, s, search) ==
  /\ worker' = [worker EXCEPT ![w] = [card |-> worker[w].card, search |-> {search}]]
  /\ \A g, start : OnLine(s, g, start) => \E f : OnLine(search, f, start)

\* A step of a search.
LEMMA StepStaysOnLine ==
  ASSUME WorkersTyped, NEW w \in Workers, SearchStep(w)
  PROVE  \E s \in worker[w].search : \E search : StepFrom(w, s, search)
<1>1. WorkersTyped
  OBVIOUS
<1>2. PICK s \in worker[w].search :
        /\ ~ Finished(s)
        /\ \E search \in IF s.output # {} THEN {Return(s)}
                         ELSE UNION { Explore(s, card) : card \in Last(s.stack).todo } :
             worker' = [worker EXCEPT ![w].search = {search}]
  BY DEF SearchStep
<1>3. PICK search \in IF s.output # {} THEN {Return(s)}
                      ELSE UNION { Explore(s, card) : card \in Last(s.stack).todo } :
        worker' = [worker EXCEPT ![w].search = {search}]
  BY <1>2
<1>4. ASSUME NEW g, NEW start, OnLine(s, g, start)
      PROVE  \E f : OnLine(search, f, start)
  <2>1. CASE Trying(s, g, start)
    <3>1. s.output = {}
      BY <2>1 DEF Trying
    <3>2. PICK card \in Last(s.stack).todo : search \in Explore(s, card)
      BY <1>3, <3>1
    <3> QED
      BY <2>1, <3>2, ExploreStaysOnLine
  <2>2. CASE Returned(s, g, start)
    <3>1. s.output # {}
      BY <2>2 DEF Returned
    <3>2. search = Return(s)
      BY <1>3, <3>1
    <3>3. OnLine(Return(s), g, start)
      BY <1>2, <2>2, ReturnStaysOnLine
    <3> QED
      BY <3>2, <3>3
  <2> QED
    BY <1>4, <2>1, <2>2 DEF OnLine
<1>5. worker' = [worker EXCEPT ![w] = [card |-> worker[w].card, search |-> {search}]]
  <2>1. worker[w] = [card |-> worker[w].card, search |-> worker[w].search]
    BY <1>1 DEF WorkersTyped
  <2>2. [worker[w] EXCEPT !.search = {search}] = [card |-> worker[w].card, search |-> {search}]
    BY <2>1
  <2>3. worker' = [worker EXCEPT ![w] = [worker[w] EXCEPT !.search = {search}]]
    BY <1>3
  <2> QED
    BY <2>2, <2>3
<1> QED
  BY <1>4, <1>5 DEF StepFrom

\* A worker goes one step on in its search.
LEMMA StepKeepsWorking ==
  ASSUME SearchInv, NEW w \in Workers, SearchStep(w), [Next]_vars
  PROVE  Working(w)' /\ WorkersTyped' /\ \A v \in Workers \ {w} : worker'[v] = worker[v]
<1>1. PulledInv /\ TasksInv /\ WorkersTyped /\ Working(w)
  BY DEF SearchInv
<1>2. PICK s \in worker[w].search : \E search : StepFrom(w, s, search)
  BY <1>1, StepStaysOnLine
<1>3. PICK search : StepFrom(w, s, search)
  BY <1>2
<1>4. ASSUME NEW g, NEW start, OnLine(s, g, start)
      PROVE  \E f : OnLine(search, f, start)
  BY <1>3, <1>4 DEF StepFrom
<1>5. worker' = [worker EXCEPT ![w] = [card |-> worker[w].card, search |-> {search}]]
  BY <1>3 DEF StepFrom
<1>6. /\ WorkersTyped' /\ worker'[w].card = worker[w].card /\ worker'[w].search = {search}
      /\ \A v \in Workers \ {w} : worker'[v] = worker[v]
  <2> DEFINE x == worker[w].card
             y == {search}
  <2>1. worker' = [worker EXCEPT ![w] = [card |-> x, search |-> y]]
    BY <1>5
  <2> HIDE DEF x, y
  <2>2. /\ WorkersTyped' /\ worker'[w].card = x /\ worker'[w].search = y
        /\ \A v \in Workers \ {w} : worker'[v] = worker[v]
    BY <1>1, <2>1, WorkerChanges, ZenonT(30)
  <2> QED
    BY <2>2 DEF x, y
<1>7. pos' = pos /\ AllowedCards' = AllowedCards /\ Elements(pulled) \subseteq Elements(pulled')
  BY <1>1, PulledOrNot, PositionStays, PulledStay
<1>8. ASSUME NEW card \in worker[w].card
      PROVE  card \in AllowedCards' /\ \E h \in Elements(pulled') : SearchFor(search, h, card)'
  <2>1. PICK h \in Elements(pulled) : card \in AllowedCards /\ SearchFor(s, h, card)
    BY <1>1 DEF Working
  <2>2. SearchFor(search, h, card)
    BY <1>4, <2>1 DEF SearchFor
  <2>3. SearchFor(search, h, card)'
    BY <1>7, <2>2, SearchForStays
  <2> QED
    BY <1>7, <2>1, <2>3
<1>9. Working(w)'
  BY <1>6, <1>8 DEF Working
<1> QED
  BY <1>6, <1>9

\* A worker enters its result and is free.
LEMMA EnterKeepsWorking ==
  ASSUME SearchInv, NEW w \in Workers, EnterResult(w), [Next]_vars
  PROVE  Working(w)' /\ WorkersTyped' /\ \A v \in Workers \ {w} : worker'[v] = worker[v]
<1>1. WorkersTyped
  BY DEF SearchInv
<1>2. worker' = [worker EXCEPT ![w] = [card |-> {}, search |-> {}]]
  BY DEF EnterResult, Idle
<1>3. /\ WorkersTyped' /\ worker'[w].card = {} /\ worker'[w].search = {}
      /\ \A v \in Workers \ {w} : worker'[v] = worker[v]
  <2> DEFINE x == {}
  <2>1. worker' = [worker EXCEPT ![w] = [card |-> x, search |-> x]]
    BY <1>2
  <2> HIDE DEF x
  <2>2. /\ WorkersTyped' /\ worker'[w].card = x /\ worker'[w].search = x
        /\ \A v \in Workers \ {w} : worker'[v] = worker[v]
    BY <1>1, <2>1, WorkerChanges, ZenonT(30)
  <2> QED
    BY <2>2 DEF x
<1>4. Working(w)'
  BY <1>3 DEF Working
<1> QED
  BY <1>3, <1>4

\* What a worker does touches only its own search and takes tasks only from those that wait.
LEMMA WorkerKeepsSearches ==
  ASSUME SearchInv, NEW w \in Workers, BeginSearch(w) \/ SearchStep(w) \/ EnterResult(w), [Next]_vars
  PROVE  TasksInv' /\ WorkersTyped' /\ \A v \in Workers : Working(v)'
<1>1. PulledInv /\ TasksInv /\ WorkersTyped /\ \A v \in Workers : Working(v)
  BY DEF SearchInv
<1>2. Working(w)' /\ WorkersTyped' /\ \A v \in Workers \ {w} : worker'[v] = worker[v]
  BY BeginKeepsWorking, StepKeepsWorking, EnterKeepsWorking
<1>3. ASSUME NEW v \in Workers PROVE Working(v)'
  <2>1. CASE v = w
    BY <1>2, <2>1
  <2>2. CASE v # w
    BY <1>1, <1>2, <2>2, WorkingStays
  <2> QED
    BY <2>1, <2>2
<1>4. TasksInv'
  <2>1. CASE BeginSearch(w)
    BY <2>1, BeginKeepsWorking
  <2>2. CASE SearchStep(w) \/ EnterResult(w)
    <3>1. tasks' \subseteq tasks
      BY <2>2 DEF SearchStep, EnterResult
    <3> QED
      BY <1>1, <3>1, TasksStay
  <2> QED
    BY <2>1, <2>2
<1> QED
  BY <1>2, <1>3, <1>4

\* Every step keeps the searches on their lines of play.
LEMMA NextSearchInv == SearchInv /\ [Next]_vars => SearchInv'
<1> SUFFICES ASSUME SearchInv, [Next]_vars PROVE SearchInv'
  OBVIOUS
<1>1. PulledInv /\ TasksInv /\ WorkersTyped /\ \A v \in Workers : Working(v)
  BY DEF SearchInv
<1>2. PulledInv'
  BY <1>1, NextPulledInv
<1>3. CASE \E w \in Workers : BeginSearch(w) \/ SearchStep(w) \/ EnterResult(w)
  <2>1. PICK w \in Workers : BeginSearch(w) \/ SearchStep(w) \/ EnterResult(w)
    BY <1>3
  <2>2. TasksInv' /\ WorkersTyped' /\ \A v \in Workers : Working(v)'
    BY <2>1, WorkerKeepsSearches
  <2> QED
    BY <1>2, <2>2 DEF SearchInv
<1>4. ASSUME worker' = worker, TasksInv' PROVE SearchInv'
  <2>1. WorkersTyped'
    BY <1>1, <1>4 DEF WorkersTyped
  <2>2. ASSUME NEW v \in Workers PROVE Working(v)'
    <3>1. worker'[v] = worker[v]
      BY <1>4
    <3> QED
      BY <1>1, <3>1, WorkingStays
  <2> QED
    BY <1>2, <1>4, <2>1, <2>2 DEF SearchInv
<1>5. CASE PullTrueHands \/ PullNextHands \/ PullSample
  <2>1. PICK h : Pull(h)
    BY <1>5 DEF PullTrueHands, PullNextHands, PullSample
  <2>2. worker' = worker
    BY <2>1 DEF Pull
  <2>3. TasksInv'
    BY <1>1, <2>1, PullMakesTasks
  <2> QED
    BY <1>4, <2>2, <2>3
<1>6. CASE UNCHANGED vars \/ SuggestAtOnce \/ SkipHands \/ SuggestBest \/ Suggested
  <2>1. worker' = worker /\ tasks' = tasks
    BY <1>6 DEF SuggestAtOnce, SkipHands, SuggestBest, Suggested, vars
  <2>2. TasksInv'
    BY <1>1, <2>1, TasksStay
  <2> QED
    BY <1>4, <2>1, <2>2
<1> QED
  BY <1>3, <1>5, <1>6 DEF Next

\* All searches are on lines of play.
LEMMA InSearchInv == Spec => []SearchInv
<1>1. Init => PulledInv
  <2> SUFFICES ASSUME Init PROVE PulledInv
    OBVIOUS
  <2>1. PositionOK /\ vecepi = FirstVecEpi /\ pulled = <<>>
    BY DEF Init, PositionOK
  <2> QED
    BY <2>1, FirstVecEpiDeals DEF PulledInv
<1>2. Init => SearchInv
  <2> SUFFICES ASSUME Init PROVE TasksInv /\ WorkersTyped /\ \A v \in Workers : Working(v)
    BY <1>1 DEF SearchInv
  <2>1. tasks = {} /\ worker = [w \in Workers |-> [card |-> {}, search |-> {}]]
    BY DEF Init, Idle
  <2> QED
    BY <2>1 DEF TasksInv, WorkersTyped, Working
<1> QED
  BY <1>2, NextSearchInv, PTL DEF Spec

\* Where a search is, no card is lost; where it has finished, it began.
LEMMA OnLineKept ==
  ASSUME NEW s, NEW g, NEW start, OnLine(s, g, start)
  PROVE  PositionKept(PositionIn(s)) /\ (Finished(s) => PositionIn(s) = start)
<1> DEFINE n == Len(s.stack)
<1>1. CASE Trying(s, g, start)
  <2>1. n \in Nat /\ n > 0 /\ n - 1 + 1 = n /\ n \in 1 .. n
    BY <1>1, SeqGrows DEF Trying
  <2>2. PositionKept(g[n])
    BY <1>1, <2>1 DEF Trying, CallsLead
  <2>3. ~ Finished(s)
    BY <1>1 DEF Trying, Finished
  <2> QED
    BY <1>1, <2>2, <2>3 DEF Trying
<1>2. CASE Returned(s, g, start)
  <2>1. n \in Nat /\ n + 1 \in 1 .. n + 1
    BY <1>2, SeqGrows DEF Returned
  <2>2. PositionKept(g[n + 1]) /\ g[n + 1] = PositionIn(s) /\ g[1] = start
    BY <1>2, <2>1 DEF Returned, CallsLead
  <2>3. Finished(s) => n + 1 = 1
    BY DEF Finished
  <2> QED
    BY <2>2, <2>3
<1> QED
  BY <1>1, <1>2 DEF OnLine

\* On a line of play only values that fit each other are returned.
LEMMA OnLineOrdered ==
  ASSUME NEW s, NEW g, NEW start, OnLine(s, g, start)
  PROVE  \A output \in s.output : output \in Outputs /\ OrderedFor(s.game.epi, output)
BY DEF OnLine, Trying, Returned, OutputsFor

\* Whatever a search returns, with all branches or with some of them, pruned or played to the
\* end: the player that is searched for gets no more from others who play against it than from
\* others who play for themselves, and from those no more than from others who play for it
\* (the first part of SearchFindsValue).
THEOREM ValuesAreOrdered ==
  Spec => [](\A w \in Workers : \A s \in worker[w].search : \A card \in worker[w].card :
               \A output \in s.output : output \in Outputs /\ OrderedFor(s.game.epi, output))
<1>1. ASSUME SearchInv, NEW w \in Workers, NEW s \in worker[w].search, NEW card \in worker[w].card
      PROVE  \A output \in s.output : output \in Outputs /\ OrderedFor(s.game.epi, output)
  <2>1. Working(w)
    BY <1>1 DEF SearchInv
  <2>2. PICK h \in Elements(pulled) : SearchFor(s, h, card)
    BY <1>1, <2>1 DEF Working
  <2>3. PICK g : OnLine(s, g, Judged(h, card))
    BY <2>2 DEF SearchFor
  <2> QED
    BY <2>3, OnLineOrdered
<1>2. SearchInv => \A w \in Workers : \A s \in worker[w].search : \A card \in worker[w].card :
                     \A output \in s.output : output \in Outputs /\ OrderedFor(s.game.epi, output)
  BY <1>1
<1> QED
  BY <1>2, InSearchInv, PTL

\* Wherever a worker is in a search, no card is lost or held twice and the cache counts the
\* Stichs as they are; when it has finished, every card and Stich has been taken back.
THEOREM SearchesKeepPosition == Spec => []SearchKeepsPosition
<1>1. ASSUME SearchInv, NEW w \in Workers, NEW s \in worker[w].search, NEW card \in worker[w].card
      PROVE  /\ s.cache = Recount(s.vecstich)
             /\ \A i \in 2 .. Len(s.vecstich) :
                  s.vecstich[i].epi_first = C(s)!PreliminaryWinner(s.vecstich[i - 1])
             /\ Deck = (UNION { s.ahand[seat] : seat \in Seats }) \cup C(s)!CardsOf(s.vecstich)
             /\ Cardinality(Deck) = CardsLeft(s) + N * (Len(s.vecstich) - 1) + Len(Last(s.vecstich).cards)
             /\ Finished(s) =>
                  /\ s.vecstich = C(pos)!StichsAfter(card)
                  /\ [s.ahand EXCEPT ![EpiFixed] = @ \cup {card}] \in ToSet(pulled)
  <2>1. PulledInv /\ Working(w)
    BY <1>1 DEF SearchInv
  <2>2. PICK h \in Elements(pulled) : card \in AllowedCards /\ SearchFor(s, h, card)
    BY <1>1, <2>1 DEF Working
  <2>3. PICK g : OnLine(s, g, Judged(h, card))
    BY <2>2 DEF SearchFor
  <2>4. PositionKept(PositionIn(s)) /\ (Finished(s) => PositionIn(s) = Judged(h, card))
    BY <2>3, OnLineKept
  <2>5. /\ PositionIn(s).game = s.game /\ PositionIn(s).ahand = s.ahand
        /\ PositionIn(s).vecstich = s.vecstich /\ PositionIn(s).cache = s.cache
    BY DEF PositionIn
  <2>6. /\ s.ahand \in [Seats -> SUBSET Deck] /\ StichsOK(s.vecstich)
        /\ Chained(s.game.rules.decider, s.vecstich)
        /\ Deck = (UNION { s.ahand[seat] : seat \in Seats }) \cup CardsIn(s.vecstich)
        /\ Cardinality(Deck) = CardsHeld(s.ahand) + CountOf(s.vecstich)
        /\ s.cache = Recount(s.vecstich)
    BY <2>4, <2>5 DEF PositionKept
  <2>7. \A i \in 2 .. Len(s.vecstich) :
          s.vecstich[i].epi_first = C(s)!PreliminaryWinner(s.vecstich[i - 1])
    BY <2>6, SameWinner DEF Chained
  <2>8. C(s)!CardsOf(s.vecstich) = CardsIn(s.vecstich)
    BY DEF C!CardsOf, CardsIn, C!Elements, Elements
  <2>9. Cardinality(Deck) = CardsLeft(s) + N * (Len(s.vecstich) - 1) + Len(Last(s.vecstich).cards)
    <3> DEFINE m == Len(s.vecstich)
               l == Len(s.vecstich[m].cards)
               c == CardsHeld(s.ahand)
    <3>1. m \in Nat /\ l \in 0 .. 4
      BY <2>6 DEF StichsOK
    <3>2. c \in Int /\ CardsLeft(s) = c
      <4>1. CardsLeft(s) = c
        BY DEF CardsLeft, CardsHeld
      <4>2. \A seat \in Seats : Cardinality(s.ahand[seat]) \in Int
        BY <2>6, FourSeats, FS_Subset, FS_CardinalityType
      <4> DEFINE a == [seat \in Seats |-> Cardinality(s.ahand[seat])]
      <4>3. a[0] \in Int /\ a[1] \in Int /\ a[2] \in Int /\ a[3] \in Int
        BY <4>2, FourSeats
      <4> HIDE DEF a
      <4>4. Total(a) \in Int
        BY <4>3 DEF Total
      <4> QED
        BY <4>1, <4>4 DEF CardsHeld, a
    <3>3. CountOf(s.vecstich) = 4 * (m - 1) + l /\ Last(s.vecstich).cards = s.vecstich[m].cards /\ N = 4
      BY FourSeats DEF CountOf, Last
    <3>4. Cardinality(Deck) = c + (4 * (m - 1) + l)
      BY <2>6, <3>3
    <3> HIDE DEF m, l, c
    <3>5. Cardinality(Deck) = c + N * (m - 1) + l
      BY <3>1, <3>2, <3>3, <3>4
    <3> QED
      BY <3>2, <3>3, <3>5 DEF m, l
  <2>10. ASSUME Finished(s)
         PROVE  /\ s.vecstich = C(pos)!StichsAfter(card)
                /\ [s.ahand EXCEPT ![EpiFixed] = @ \cup {card}] \in ToSet(pulled)
    <3> DEFINE after == C(pos)!StichsAfter(card)
               left == [h EXCEPT ![EpiFixed] = @ \ {card}]
    <3>1. s.vecstich = after /\ s.ahand = left
      <4>1. PositionIn(s) = Judged(h, card)
        BY <2>4, <2>10
      <4>2. s.vecstich = Judged(h, card).vecstich /\ s.ahand = Judged(h, card).ahand
        BY <2>5, <4>1
      <4>3. Judged(h, card).vecstich = after /\ Judged(h, card).ahand = left
        BY Zenon DEF Judged
      <4> HIDE DEF after, left
      <4> QED
        BY <4>2, <4>3
    <3>2. GoodHands(h) /\ PositionOK
      BY <2>1, PulledAreGood
    <3>3. h \in [Seats -> SUBSET Deck] /\ card \in h[EpiFixed] /\ EpiFixed \in Seats
      <4>1. card \in HandFixed
        BY <2>2, <3>2, JudgedKept
      <4>2. h \in [Seats -> SUBSET Deck] /\ h[EpiFixed] = HandFixed
        BY <3>2 DEF GoodHands
      <4>3. EpiFixed \in Seats
        BY <3>2, EpiFixedSeat
      <4> QED
        BY <4>1, <4>2, <4>3
    <3>4. [s.ahand EXCEPT ![EpiFixed] = @ \cup {card}] = h
      <4> DEFINE hands == s.ahand
      <4>1. hands = [h EXCEPT ![EpiFixed] = @ \ {card}]
        BY <3>1
      <4> HIDE DEF hands
      <4>2. ASSUME NEW seat \in Seats
            PROVE  [hands EXCEPT ![EpiFixed] = @ \cup {card}][seat] = h[seat]
        BY <3>3, <4>1
      <4>3. [hands EXCEPT ![EpiFixed] = @ \cup {card}] = h
        <5> HIDE DEF left
        <5>1. hands \in [Seats -> SUBSET Deck]
          BY <3>3, <4>1
        <5> QED
          BY <3>3, <4>2, <5>1
      <4> QED
        BY <4>3 DEF hands
    <3>5. h \in ToSet(pulled)
      BY <2>1 DEF ToSet, Elements, PulledInv
    <3> QED
      BY <3>1, <3>4, <3>5
  <2> QED
    BY <2>6, <2>7, <2>8, <2>9, <2>10
<1>2. SearchInv => SearchKeepsPosition
  BY <1>1 DEF SearchKeepsPosition
<1> QED
  BY <1>2, InSearchInv, PTL

------------------------------------------------------------------------------
(***************************************************************************)
(* The statistics, which workers accumulate in any order.                  *)
(***************************************************************************)
LEMMA AccumulateStatsType ==
  ASSUME NEW a \in PayoutStats, NEW b \in PayoutStats
  PROVE  AccumulateStats(a, b) \in PayoutStats
BY DEF AccumulateStats, PayoutStats

\* Two statistics come out the same either way round.
LEMMA AccumulateStatsCommutes ==
  ASSUME NEW a \in PayoutStats, NEW b \in PayoutStats
  PROVE  AccumulateStats(a, b) = AccumulateStats(b, a)
BY DEF AccumulateStats, PayoutStats

\* So do three, whichever two come first.
LEMMA AccumulateStatsAssociates ==
  ASSUME NEW a \in PayoutStats, NEW b \in PayoutStats, NEW c \in PayoutStats
  PROVE  AccumulateStats(AccumulateStats(a, b), c) = AccumulateStats(a, AccumulateStats(b, c))
BY DEF AccumulateStats, PayoutStats

\* accumulate is commutative and associative: in whatever order the workers get the mutex,
\* the statistics of a card come out the same.
THEOREM OrderOfWorkersIsIrrelevant ==
  ASSUME NEW a \in [Strategies -> PayoutStats], NEW b \in [Strategies -> PayoutStats],
         NEW c \in [Strategies -> PayoutStats]
  PROVE  /\ Accumulate(a, b) \in [Strategies -> PayoutStats]
         /\ Accumulate(a, b) = Accumulate(b, a)
         /\ Accumulate(Accumulate(a, b), c) = Accumulate(a, Accumulate(b, c))
<1>1. \A s \in Strategies : a[s] \in PayoutStats /\ b[s] \in PayoutStats /\ c[s] \in PayoutStats
  OBVIOUS
<1>2. Accumulate(a, b) \in [Strategies -> PayoutStats]
  BY <1>1, AccumulateStatsType DEF Accumulate
<1>3. Accumulate(a, b) = Accumulate(b, a)
  BY <1>1, AccumulateStatsCommutes DEF Accumulate
<1>4. Accumulate(Accumulate(a, b), c) = Accumulate(a, Accumulate(b, c))
  BY <1>1, AccumulateStatsAssociates DEF Accumulate
<1> QED
  BY <1>2, <1>3, <1>4

\* n_min <= average <= n_max
Bounded(a) == a.n_min * a.n_count <= a.n_sum /\ a.n_sum <= a.n_max * a.n_count

\* Facts of arithmetic for the averages.
LEMMA TimesMonotone ==
  ASSUME NEW m \in Int, NEW n \in Int, NEW k \in Nat, m <= n
  PROVE  m * k <= n * k
OBVIOUS

\* A product with a sum.
LEMMA TimesSum ==
  ASSUME NEW m \in Int, NEW k \in Nat, NEW l \in Nat
  PROVE  m * (k + l) = m * k + m * l
OBVIOUS

\* The average of a card lies between the least and the greatest payout it was found to
\* have: a card whose statistics say that it wins for certain has a positive average.
THEOREM AverageIsBounded ==
  ASSUME NEW a \in PayoutStats, NEW b \in PayoutStats, Bounded(a), Bounded(b)
  PROVE  Bounded(AccumulateStats(a, b))
<1> DEFINE ab == AccumulateStats(a, b)
<1>1. /\ a.n_min \in Int /\ a.n_max \in Int /\ a.n_sum \in Int /\ a.n_count \in Nat
      /\ b.n_min \in Int /\ b.n_max \in Int /\ b.n_sum \in Int /\ b.n_count \in Nat
  BY DEF PayoutStats
<1>2. /\ ab.n_min \in Int /\ ab.n_min <= a.n_min /\ ab.n_min <= b.n_min
      /\ ab.n_max \in Int /\ ab.n_max >= a.n_max /\ ab.n_max >= b.n_max
      /\ ab.n_sum = a.n_sum + b.n_sum /\ ab.n_count = a.n_count + b.n_count
  BY <1>1 DEF AccumulateStats
<1>3. /\ ab.n_min * a.n_count <= a.n_min * a.n_count
      /\ ab.n_min * b.n_count <= b.n_min * b.n_count
      /\ a.n_max * a.n_count <= ab.n_max * a.n_count
      /\ b.n_max * b.n_count <= ab.n_max * b.n_count
  BY <1>1, <1>2, TimesMonotone
<1>4. /\ ab.n_min * ab.n_count = ab.n_min * a.n_count + ab.n_min * b.n_count
      /\ ab.n_max * ab.n_count = ab.n_max * a.n_count + ab.n_max * b.n_count
  BY <1>1, <1>2, TimesSum
<1> HIDE DEF ab
<1>5. ab.n_min * ab.n_count <= ab.n_sum /\ ab.n_sum <= ab.n_max * ab.n_count
  <2>1. /\ ab.n_min * a.n_count \in Int /\ ab.n_min * b.n_count \in Int
        /\ ab.n_max * a.n_count \in Int /\ ab.n_max * b.n_count \in Int
        /\ a.n_min * a.n_count \in Int /\ b.n_min * b.n_count \in Int
        /\ a.n_max * a.n_count \in Int /\ b.n_max * b.n_count \in Int
    BY <1>1, <1>2
  <2> QED
    BY <1>1, <1>2, <1>3, <1>4, <2>1 DEF Bounded
<1> QED
  BY <1>5 DEF ab, Bounded

------------------------------------------------------------------------------
(***************************************************************************)
(* The order of the statistics.                                            *)
(***************************************************************************)
Statistics == [Strategies -> PayoutStats]

\* the statistics of all cards are made of the same hands (EveryHandCounts)
SameHands(a, b) == \A s \in Strategies : a[s].n_count = b[s].n_count

\* A positive factor keeps the order.
LEMMA PositiveTimesMonotone ==
  ASSUME NEW m \in Int, NEW n \in Int, NEW k \in Nat, k > 0
  PROVE  m * k < n * k <=> m < n
OBVIOUS

\* With equal counts the averages are ordered as the sums.
LEMMA AverageOrder ==
  ASSUME NEW a \in Statistics, NEW b \in Statistics, SameHands(a, b)
  PROVE  AvgLess(a["t_selfish_min"], b["t_selfish_min"])
           <=> a["t_selfish_min"].n_sum < b["t_selfish_min"].n_sum
<1> DEFINE avg_a == a["t_selfish_min"]
           avg_b == b["t_selfish_min"]
<1>1. /\ avg_a.n_sum \in Int /\ avg_b.n_sum \in Int
      /\ avg_a.n_count \in Nat /\ avg_a.n_count > 0 /\ avg_a.n_count = avg_b.n_count
  BY FourStrategies DEF Statistics, PayoutStats, SameHands
<1>2. avg_a.n_sum * avg_a.n_count < avg_b.n_sum * avg_a.n_count <=> avg_a.n_sum < avg_b.n_sum
  BY <1>1, PositiveTimesMonotone
<1> QED
  BY <1>1, <1>2 DEF AvgLess

\* what cmp compares with equal counts: whether the worst case wins, is even or loses,
\* then the worst case if it wins, then the average
LEMMA StatsLessCases ==
  ASSUME NEW a \in Statistics, NEW b \in Statistics, SameHands(a, b)
  PROVE  LET m == a["t_min"].n_min
             n == b["t_min"].n_min
             less == a["t_selfish_min"].n_sum < b["t_selfish_min"].n_sum
         IN  StatsLess(a, b) <=>
               \/ m > 0 /\ n > 0 /\ (m < n \/ (m = n /\ less))
               \/ m <= 0 /\ n > 0
               \/ m < 0 /\ n = 0
               \/ ((m = 0 /\ n = 0) \/ (m < 0 /\ n < 0)) /\ less
<1>1. a["t_min"].n_min \in Int /\ b["t_min"].n_min \in Int
  BY FourStrategies DEF Statistics, PayoutStats
<1> QED
  BY <1>1, AverageOrder DEF StatsLess

\* SPayoutStatsPerStrategy::cmp is a weak order on the statistics of the same hands, as
\* Ord demands and max_set_by_key relies on: a card that beats another is not beaten by
\* it, and whatever lies between two cards that are not equally good beats one of them or
\* is beaten by the other.
THEOREM StatsLessIsWeakOrder ==
  ASSUME NEW a \in Statistics, NEW b \in Statistics, NEW c \in Statistics,
         SameHands(a, b), SameHands(b, c)
  PROVE  /\ ~ (StatsLess(a, b) /\ StatsLess(b, a))
         /\ StatsLess(a, b) /\ StatsLess(b, c) => StatsLess(a, c)
         /\ StatsLess(a, c) => StatsLess(a, b) \/ StatsLess(b, c)
<1>1. SameHands(a, c) /\ SameHands(b, a)
  BY DEF SameHands
<1>2. /\ a["t_min"].n_min \in Int /\ b["t_min"].n_min \in Int /\ c["t_min"].n_min \in Int
      /\ a["t_selfish_min"].n_sum \in Int /\ b["t_selfish_min"].n_sum \in Int
      /\ c["t_selfish_min"].n_sum \in Int
  BY FourStrategies DEF Statistics, PayoutStats
<1>3. ~ (StatsLess(a, b) /\ StatsLess(b, a))
  BY <1>1, <1>2, StatsLessCases
<1>4. StatsLess(a, b) /\ StatsLess(b, c) => StatsLess(a, c)
  BY <1>1, <1>2, StatsLessCases
<1>5. StatsLess(a, c) => StatsLess(a, b) \/ StatsLess(b, c)
  BY <1>1, <1>2, StatsLessCases
<1> QED
  BY <1>3, <1>4, <1>5

\* A card that wins with every hand is never suggested behind one that does not.
THEOREM SureWinBeatsAll ==
  ASSUME NEW cards, NEW stats \in [cards -> Statistics],
         NEW sure \in cards, stats[sure]["t_min"].n_min > 0,
         \A x, y \in cards : SameHands(stats[x], stats[y])
  PROVE  \A card \in CardsWithMaximumValue(stats, cards) : stats[card]["t_min"].n_min > 0
<1> SUFFICES ASSUME NEW card \in cards, ~ StatsLess(stats[card], stats[sure])
             PROVE  stats[card]["t_min"].n_min > 0
  BY DEF CardsWithMaximumValue
<1>1. stats[card] \in Statistics /\ stats[sure] \in Statistics
  OBVIOUS
<1>2. stats[card]["t_min"].n_min \in Int
  BY <1>1, FourStrategies DEF Statistics, PayoutStats
<1> QED
  BY <1>1, <1>2, StatsLessCases

------------------------------------------------------------------------------
(***************************************************************************)
(* What the statistics of a card count.                                    *)
(***************************************************************************)
\* other has x more at i
ChangedAt(n, i, x, values, other) ==
  /\ values \in [1 .. n -> Int] /\ other \in [1 .. n -> Int]
  /\ other[i] = values[i] + x
  /\ \A j \in 1 .. n : j # i => other[j] = values[j]

SumGrows(x, values, other) == SumInOrder(values) \in Int /\ SumInOrder(other) = SumInOrder(values) + x

\* One value of a sequence is changed, and the sum by as much.
LEMMA SumChanges ==
  ASSUME NEW n \in Nat, NEW i \in 1 .. n, NEW x \in Int, NEW values, NEW other, ChangedAt(n, i, x, values, other)
  PROVE  SumGrows(x, values, other)
<1>0. /\ values \in [1 .. n -> Int] /\ other \in [1 .. n -> Int]
      /\ other[i] = values[i] + x
      /\ \A j \in 1 .. n : j # i => other[j] = values[j]
  BY DEF ChangedAt
<1>1. PICK f : SumsUp(f, n, values) /\ SumInOrder(values) = f[n]
  <2>1. \E f : SumsUp(f, n, values) /\ SumInOrder(values) = f[n]
    BY <1>0, SumIs
  <2> QED
    BY <2>1
<1>2. PICK g : SumsUp(g, n, other) /\ SumInOrder(other) = g[n]
  <2>1. \E g : SumsUp(g, n, other) /\ SumInOrder(other) = g[n]
    BY <1>0, SumIs
  <2> QED
    BY <2>1
<1> DEFINE Right(k) == g[k] = f[k] + (IF k >= i THEN x ELSE 0)
           Wrong == { k \in 0 .. n : ~ Right(k) }
<1>3. ASSUME Wrong # {} PROVE FALSE
  <2>1. Wrong \in SUBSET Nat
    OBVIOUS
  <2>2. PICK k \in Wrong : \A j \in Wrong : k <= j
    BY <1>3, <2>1, LeastOf
  <2>3. k # 0
    BY <1>1, <1>2, <2>2 DEF SumsUp
  <2>4. k \in 1 .. n /\ k - 1 \in 0 .. n /\ k - 1 \notin Wrong
    BY <2>2, <2>3
  <2>5. Right(k - 1)
    BY <2>4
  <2>6. f[k] = f[k - 1] + values[k] /\ g[k] = g[k - 1] + other[k]
    BY <1>1, <1>2, <2>4 DEF SumsUp
  <2>7. f[k - 1] \in Int /\ values[k] \in Int
    BY <1>0, <1>1, <2>4 DEF SumsUp
  <2>8. Right(k)
    <3>1. CASE k = i
      BY <1>0, <2>4, <2>5, <2>6, <2>7, <3>1
    <3>2. CASE k # i
      BY <1>0, <2>4, <2>5, <2>6, <2>7, <3>2, SMTT(60)
    <3> QED
      BY <3>1, <3>2
  <2> QED
    BY <2>2, <2>8
<1>4. Right(n) /\ f[n] \in Int /\ n >= i
  <2>1. n \in 0 .. n /\ n \notin Wrong
    BY <1>3
  <2>2. Right(n)
    BY <2>1
  <2>3. f[n] \in Int
    BY <1>1, <2>1 DEF SumsUp
  <2> QED
    BY <2>2, <2>3
<1> QED
  BY <1>1, <1>2, <1>4 DEF SumGrows

\* The sum of zeros.
LEMMA SumOfZeros ==
  ASSUME NEW n \in Nat, NEW values \in [1 .. n -> Int], \A j \in 1 .. n : values[j] = 0
  PROVE  SumInOrder(values) = 0
<1>1. PICK f : SumsUp(f, n, values) /\ SumInOrder(values) = f[n]
  <2>1. \E f : SumsUp(f, n, values) /\ SumInOrder(values) = f[n]
    BY SumIs
  <2> QED
    BY <2>1
<1> DEFINE Wrong == { k \in 0 .. n : f[k] # 0 }
<1>2. ASSUME Wrong # {} PROVE FALSE
  <2>1. Wrong \in SUBSET Nat
    OBVIOUS
  <2>2. PICK k \in Wrong : \A j \in Wrong : k <= j
    BY <1>2, <2>1, LeastOf
  <2>3. k # 0
    BY <1>1, <2>2 DEF SumsUp
  <2>4. k \in 1 .. n /\ k - 1 \in 0 .. n /\ k - 1 \notin Wrong
    BY <2>2, <2>3
  <2>5. f[k - 1] = 0
    BY <2>4
  <2>6. f[k] = f[k - 1] + values[k] /\ values[k] = 0
    BY <1>1, <2>4 DEF SumsUp
  <2> QED
    BY <2>2, <2>5, <2>6
<1>3. n \in 0 .. n
  OBVIOUS
<1> QED
  BY <1>1, <1>2, <1>3

\* The sum of a sequence with a zero more is the same.
LEMMA SumOfZeroMore ==
  ASSUME NEW n \in Nat, NEW values \in [1 .. n -> Int], NEW other \in [1 .. n + 1 -> Int],
         other[n + 1] = 0, \A j \in 1 .. n : other[j] = values[j]
  PROVE  SumInOrder(other) = SumInOrder(values)
<1>1. PICK f : SumsUp(f, n, values) /\ SumInOrder(values) = f[n]
  <2>1. \E f : SumsUp(f, n, values) /\ SumInOrder(values) = f[n]
    BY SumIs
  <2> QED
    BY <2>1
<1>2. PICK g : SumsUp(g, n + 1, other) /\ SumInOrder(other) = g[n + 1]
  <2>1. n + 1 \in Nat
    OBVIOUS
  <2>2. \E g : SumsUp(g, n + 1, other) /\ SumInOrder(other) = g[n + 1]
    BY <2>1, SumIs
  <2> QED
    BY <2>2
<1> DEFINE Wrong == { k \in 0 .. n : g[k] # f[k] }
<1>3. ASSUME Wrong # {} PROVE FALSE
  <2>1. Wrong \in SUBSET Nat
    OBVIOUS
  <2>2. PICK k \in Wrong : \A j \in Wrong : k <= j
    BY <1>3, <2>1, LeastOf
  <2>3. k # 0
    BY <1>1, <1>2, <2>2 DEF SumsUp
  <2>4. k \in 1 .. n /\ k \in 1 .. n + 1 /\ k - 1 \in 0 .. n /\ k - 1 \notin Wrong
    BY <2>2, <2>3, SMTT(60)
  <2>5. g[k - 1] = f[k - 1]
    BY <2>4
  <2>6. f[k] = f[k - 1] + values[k] /\ g[k] = g[k - 1] + other[k]
    BY <1>1, <1>2, <2>4 DEF SumsUp
  <2> QED
    BY <2>2, <2>4, <2>5, <2>6
<1>4. g[n] = f[n] /\ f[n] \in Int
  <2>1. n \in 0 .. n /\ n \notin Wrong
    BY <1>3
  <2>2. g[n] = f[n]
    BY <2>1
  <2> QED
    BY <1>1, <2>1, <2>2 DEF SumsUp
<1>5. g[n + 1] = g[(n + 1) - 1] + other[n + 1]
  <2>1. n + 1 \in 1 .. n + 1
    OBVIOUS
  <2> QED
    BY <1>2, <2>1 DEF SumsUp
<1>6. (n + 1) - 1 = n
  OBVIOUS
<1> QED
  BY <1>1, <1>2, <1>4, <1>5, <1>6

\* the values of those in D, and nothing for the others
ValuesOf(D, n, f) == [i \in 1 .. n |-> IF i \in D THEN f[i] ELSE 0]

\* the statistics count each of D once, with the value of f that t_min has found
CountsOnce(stats, D, n, f) ==
  /\ stats \in [Strategies -> PayoutStats]
  /\ \A strategy \in Strategies : stats[strategy].n_count = Cardinality(D)
  /\ stats["t_min"].n_sum = SumInOrder(ValuesOf(D, n, f))
  /\ \E i \in D : stats["t_min"].n_min = f[i]
  /\ \E i \in D : stats["t_min"].n_max = f[i]
  /\ \A i \in D : stats["t_min"].n_min <= f[i] /\ f[i] <= stats["t_min"].n_max

\* what is entered for a card, if anything
Counted(ooutput, D, n, f) ==
  \/ ooutput = {} /\ D = {}
  \/ \E stats : ooutput = {stats} /\ CountsOnce(stats, D, n, f)

\* With hands more that were pulled and not yet searched the statistics are right.
LEMMA CountedOfMore ==
  ASSUME NEW n \in Nat, NEW D \in SUBSET (1 .. n), NEW f \in [Nat -> Int], NEW ooutput,
         Counted(ooutput, D, n, f)
  PROVE  Counted(ooutput, D, n + 1, f)
<1> DEFINE values == ValuesOf(D, n, f)
           other == ValuesOf(D, n + 1, f)
<1>1. values \in [1 .. n -> Int]
  BY DEF ValuesOf
<1>2. other \in [1 .. n + 1 -> Int] /\ other[n + 1] = 0
  BY DEF ValuesOf
<1>3. \A j \in 1 .. n : other[j] = values[j]
  BY DEF ValuesOf
<1> HIDE DEF values, other
<1>4. SumInOrder(other) = SumInOrder(values)
  BY <1>1, <1>2, <1>3, SumOfZeroMore
<1>5. \A stats : CountsOnce(stats, D, n, f) => CountsOnce(stats, D, n + 1, f)
  BY <1>4 DEF CountsOnce, values, other
<1> QED
  BY <1>5 DEF Counted

\* The statistics of one output count it once.
LEMMA StatsOfOutput ==
  ASSUME NEW output \in Outputs, NEW epi \in EPIs
  PROVE  /\ StatsOf(output, epi) \in [Strategies -> PayoutStats]
         /\ \A strategy \in Strategies :
              StatsOf(output, epi)[strategy] = [n_min |-> output[strategy][epi], n_sum |-> output[strategy][epi],
                                                n_max |-> output[strategy][epi], n_count |-> 1]
<1>1. \A strategy \in Strategies : output[strategy][epi] \in Int
  BY DEF Outputs, Payouts
<1> QED
  BY <1>1 DEF StatsOf, New1, PayoutStats

\* Statistics with others accumulated.
LEMMA AccumulatedStats ==
  ASSUME NEW a \in PayoutStats, NEW b \in PayoutStats
  PROVE  /\ AccumulateStats(a, b).n_min = IF b.n_min < a.n_min THEN b.n_min ELSE a.n_min
         /\ AccumulateStats(a, b).n_sum = a.n_sum + b.n_sum
         /\ AccumulateStats(a, b).n_max = IF b.n_max > a.n_max THEN b.n_max ELSE a.n_max
         /\ AccumulateStats(a, b).n_count = a.n_count + b.n_count
BY DEF AccumulateStats

\* What a worker enters is counted with what was entered before, once.
LEMMA CountedOnceMore ==
  ASSUME NEW n \in Nat, NEW D \in SUBSET (1 .. n), NEW f \in [Nat -> Int], NEW ooutput,
         Counted(ooutput, D, n, f),
         NEW i \in 1 .. n, i \notin D, NEW output \in Outputs, NEW epi \in EPIs,
         NEW g, g = [f EXCEPT ![i] = output["t_min"][epi]]
  PROVE  Counted(Entered(ooutput, StatsOf(output, epi)), D \cup {i}, n, g)
<1> DEFINE x == output["t_min"][epi]
           new == StatsOf(output, epi)
           values == ValuesOf(D, n, f)
           other == ValuesOf(D \cup {i}, n, g)
<1>1. x \in Int
  BY FourStrategies DEF Outputs, Payouts
<1>2. /\ g \in [Nat -> Int] /\ g[i] = x
      /\ \A j \in D : g[j] = f[j] /\ f[j] \in Int
  BY <1>1
<1>8. /\ values \in [1 .. n -> Int] /\ other \in [1 .. n -> Int]
      /\ \A j \in 1 .. n : j # i => other[j] = values[j]
  BY <1>2 DEF ValuesOf
<1>9. other[i] = values[i] + x
  BY <1>1, <1>2 DEF ValuesOf
<1>4. /\ new \in [Strategies -> PayoutStats]
      /\ \A strategy \in Strategies : new[strategy].n_count = 1
      /\ new["t_min"].n_min = x /\ new["t_min"].n_max = x /\ new["t_min"].n_sum = x
  <2>1. /\ new \in [Strategies -> PayoutStats]
        /\ \A strategy \in Strategies :
             new[strategy] = [n_min |-> output[strategy][epi], n_sum |-> output[strategy][epi],
                              n_max |-> output[strategy][epi], n_count |-> 1]
    BY StatsOfOutput
  <2> HIDE DEF new
  <2>2. new["t_min"] = [n_min |-> x, n_sum |-> x, n_max |-> x, n_count |-> 1]
    BY <2>1, FourStrategies
  <2> HIDE DEF x
  <2> QED
    BY <2>1, <2>2
<1>5. /\ IsFiniteSet(D) /\ Cardinality(D) \in Nat /\ Cardinality(D \cup {i}) = Cardinality(D) + 1
  <2>1. IsFiniteSet(1 .. n)
    BY FS_Interval
  <2> QED
    BY <2>1, FS_Subset, FS_AddElement, FS_CardinalityType
<1> HIDE DEF x, new, values, other
<1>3. SumInOrder(values) \in Int /\ SumInOrder(other) = SumInOrder(values) + x
  <2>1. ChangedAt(n, i, x, values, other)
    BY <1>8, <1>9 DEF ChangedAt
  <2>2. SumGrows(x, values, other)
    BY <1>1, <2>1, SumChanges
  <2> QED
    BY <2>2 DEF SumGrows
<1>6. CASE ooutput = {} /\ D = {}
  <2>1. Entered(ooutput, new) = {new}
    BY <1>6 DEF Entered
  <2>2. SumInOrder(values) = 0
    <3>1. values \in [1 .. n -> Int] /\ \A j \in 1 .. n : values[j] = 0
      BY <1>6 DEF ValuesOf, values
    <3> QED
      BY <3>1, SumOfZeros
  <2>3. Cardinality(D) = 0
    BY <1>6, FS_EmptySet
  <2>4. CountsOnce(new, D \cup {i}, n, g)
    BY <1>1, <1>2, <1>3, <1>4, <1>5, <1>6, <2>2, <2>3 DEF CountsOnce, other
  <2> QED
    BY <2>1, <2>4 DEF Counted, new
<1>7. ASSUME NEW stats, ooutput = {stats}, CountsOnce(stats, D, n, f)
      PROVE  Counted(Entered(ooutput, new), D \cup {i}, n, g)
  <2> DEFINE both == Accumulate(stats, new)
  <2>1. Entered(ooutput, new) = {both}
    BY <1>7 DEF Entered
  <2>2. stats \in [Strategies -> PayoutStats]
    BY <1>7 DEF CountsOnce
  <2>3. both \in [Strategies -> PayoutStats]
    BY <1>4, <2>2, OrderOfWorkersIsIrrelevant
  <2>4. \A strategy \in Strategies :
          /\ stats[strategy] \in PayoutStats /\ new[strategy] \in PayoutStats
          /\ both[strategy] = AccumulateStats(stats[strategy], new[strategy])
    BY <1>4, <2>2 DEF Accumulate
  <2>5. \A strategy \in Strategies : both[strategy].n_count = Cardinality(D) + 1
    BY <1>4, <1>7, <2>4, AccumulatedStats DEF CountsOnce
  <2> DEFINE a == stats["t_min"]
             b == both["t_min"]
  <2>6. /\ a.n_min \in Int /\ a.n_max \in Int /\ a.n_sum \in Int
        /\ b.n_min = (IF x < a.n_min THEN x ELSE a.n_min)
        /\ b.n_max = (IF x > a.n_max THEN x ELSE a.n_max)
        /\ b.n_sum = a.n_sum + x
    <3>1. a \in PayoutStats /\ new["t_min"] \in PayoutStats /\ b = AccumulateStats(a, new["t_min"])
      BY <2>4, FourStrategies
    <3>2. a.n_min \in Int /\ a.n_max \in Int /\ a.n_sum \in Int
      BY <3>1 DEF PayoutStats
    <3> HIDE DEF a, b
    <3> QED
      BY <1>4, <3>1, <3>2, AccumulatedStats
  <2>7. /\ a.n_sum = SumInOrder(values)
        /\ \E j \in D : a.n_min = f[j]
        /\ \E j \in D : a.n_max = f[j]
        /\ \A j \in D : a.n_min <= f[j] /\ f[j] <= a.n_max
    BY <1>7 DEF CountsOnce, values
  <2> HIDE DEF a, b, both
  <2>8. \E j \in D \cup {i} : b.n_min = g[j]
    <3>1. CASE x < a.n_min
      BY <1>2, <2>6, <3>1
    <3>2. CASE ~ (x < a.n_min)
      BY <1>2, <2>6, <2>7, <3>2
    <3> QED
      BY <3>1, <3>2
  <2>9. \E j \in D \cup {i} : b.n_max = g[j]
    <3>1. CASE x > a.n_max
      BY <1>2, <2>6, <3>1
    <3>2. CASE ~ (x > a.n_max)
      BY <1>2, <2>6, <2>7, <3>2
    <3> QED
      BY <3>1, <3>2
  <2>10. ASSUME NEW j \in D \cup {i} PROVE b.n_min <= g[j] /\ g[j] <= b.n_max
    <3>1. CASE j = i
      BY <1>1, <1>2, <2>6, <3>1
    <3>2. CASE j \in D
      <4>1. g[j] \in Int /\ a.n_min <= g[j] /\ g[j] <= a.n_max
        BY <1>2, <2>7, <3>2
      <4> QED
        BY <1>1, <2>6, <4>1
    <3> QED
      BY <3>1, <3>2
  <2>11. CountsOnce(both, D \cup {i}, n, g)
    BY <1>3, <1>5, <2>3, <2>5, <2>6, <2>7, <2>8, <2>9, <2>10 DEF CountsOnce, b, other
  <2> QED
    BY <2>1, <2>11 DEF Counted
<1> QED
  BY <1>6, <1>7 DEF Counted, new

------------------------------------------------------------------------------
(***************************************************************************)
(* Which hands are done for a card: those for which no task waits and that *)
(* no worker has.  at[w] is the place among the hands h that were pulled   *)
(* of those worker w searches with.                                        *)
(***************************************************************************)
TaskOf(h, i, card) == [i_susp |-> i - 1, ahand |-> h[i], card |-> card]
Waiting(ts, h, card) == { i \in 1 .. Len(h) : TaskOf(h, i, card) \in ts }
Under(wk, at, card) == { at[w] : w \in { v \in Workers : card \in wk[v].card } }
Done(ts, h, wk, at, card) == ((1 .. Len(h)) \ Waiting(ts, h, card)) \ Under(wk, at, card)

TasksOf(ts, h, cards) == \A task \in ts : \E i \in 1 .. Len(h) : \E card \in cards : task = TaskOf(h, i, card)

\* Tasks of other hands or cards are other tasks.
LEMMA TaskOfOne ==
  ASSUME NEW h, NEW i \in Nat, NEW j \in Nat, NEW g, NEW card, NEW other,
         TaskOf(h, i, card) = TaskOf(g, j, other)
  PROVE  i = j /\ card = other
<1>1. TaskOf(h, i, card).i_susp = i - 1 /\ TaskOf(g, j, other).i_susp = j - 1
  BY DEF TaskOf
<1>2. TaskOf(h, i, card).card = card /\ TaskOf(g, j, other).card = other
  BY DEF TaskOf
<1> QED
  BY <1>1, <1>2

\* the hands x are pulled after h, with a task for each card
PulledAfter(h, g, x, ts, us, cards) ==
  /\ IsSeq(h) /\ g = Append(h, x)
  /\ us = ts \cup { [i_susp |-> Len(h), ahand |-> x, card |-> card] : card \in cards }

SameDone(h, g, ts, us, wk, at, cards) ==
  /\ TasksOf(us, g, cards)
  /\ \A card \in cards : Done(us, g, wk, at, card) = Done(ts, h, wk, at, card)
  /\ \A card : \A i \in 1 .. Len(h) : i \in Waiting(us, g, card) => i \in Waiting(ts, h, card)

\* Hands that are pulled are not done at once.
LEMMA DoneWithMoreHands ==
  ASSUME NEW h, NEW g, NEW x, NEW ts, NEW us, NEW cards, PulledAfter(h, g, x, ts, us, cards),
         TasksOf(ts, h, cards), NEW wk, NEW at
  PROVE  SameDone(h, g, ts, us, wk, at, cards)
<1>0. /\ IsSeq(h) /\ g = Append(h, x)
      /\ us = ts \cup { [i_susp |-> Len(h), ahand |-> x, card |-> card] : card \in cards }
  BY DEF PulledAfter
<1> DEFINE n == Len(h)
<1>1. /\ n \in Nat /\ Len(g) = n + 1 /\ g[n + 1] = x
      /\ \A i \in 1 .. n : g[i] = h[i]
  BY <1>0, SeqGrows
<1>2. \A i \in 1 .. n : \A card : TaskOf(g, i, card) = TaskOf(h, i, card)
  BY <1>1 DEF TaskOf
<1>3. \A card : TaskOf(g, n + 1, card) = [i_susp |-> n, ahand |-> x, card |-> card]
  <2>1. (n + 1) - 1 = n
    BY <1>1
  <2> QED
    BY <1>1, <2>1 DEF TaskOf
<1>4. us = ts \cup { TaskOf(g, n + 1, card) : card \in cards }
  BY <1>0, <1>3
<1> HIDE DEF n
<1>5. \A i \in 1 .. n : i \in 1 .. n + 1 /\ i \in Nat /\ i # n + 1
  BY <1>1
<1>6. n + 1 \in 1 .. n + 1 /\ n + 1 \in Nat /\ \A i \in 1 .. n + 1 : i \in 1 .. n \/ i = n + 1
  BY <1>1
<1>7. ASSUME NEW task \in us
      PROVE  \E i \in 1 .. n + 1 : \E card \in cards : task = TaskOf(g, i, card)
  <2>1. CASE task \in ts
    <3>1. PICK i \in 1 .. n : \E card \in cards : task = TaskOf(h, i, card)
      BY <2>1 DEF TasksOf, n
    <3> QED
      BY <1>2, <1>5, <3>1
  <2>2. CASE task \notin ts
    BY <1>4, <1>6, <2>2
  <2> QED
    BY <2>1, <2>2
<1>8. ASSUME NEW card, NEW i \in 1 .. n
      PROVE  TaskOf(g, i, card) \in us <=> TaskOf(h, i, card) \in ts
  <2>1. TaskOf(g, i, card) = TaskOf(h, i, card)
    BY <1>2
  <2>2. \A other : TaskOf(g, i, card) # TaskOf(g, n + 1, other)
    BY <1>5, <1>6, TaskOfOne
  <2> QED
    BY <1>4, <2>1, <2>2
<1>9. \A card \in cards : TaskOf(g, n + 1, card) \in us
  BY <1>4
<1>10. ASSUME NEW card \in cards
       PROVE  Done(us, g, wk, at, card) = Done(ts, h, wk, at, card)
  <2>1. \A i \in 1 .. n + 1 : i \notin Waiting(us, g, card) <=> i \in 1 .. n /\ i \notin Waiting(ts, h, card)
    BY <1>1, <1>5, <1>6, <1>8, <1>9 DEF Waiting, n
  <2>2. (1 .. n + 1) \ Waiting(us, g, card) = (1 .. n) \ Waiting(ts, h, card)
    BY <1>5, <2>1
  <2> QED
    BY <1>1, <2>2 DEF Done, n
<1>11. \A card : \A i \in 1 .. n : i \in Waiting(us, g, card) => i \in Waiting(ts, h, card)
  BY <1>1, <1>5, <1>8 DEF Waiting, n
<1> QED
  BY <1>1, <1>7, <1>10, <1>11 DEF TasksOf, SameDone, n

\* the hands of one task are searched with by a worker that had nothing to do
TaskTaken(h, ts, us, i, c, wk, xk, w, at, to) ==
  /\ i \in 1 .. Len(h) /\ TaskOf(h, i, c) \in ts /\ us = ts \ {TaskOf(h, i, c)}
  /\ wk[w].card = {} /\ xk[w].card = {c} /\ \A v \in Workers \ {w} : xk[v] = wk[v]
  /\ at \in [Workers -> Nat] /\ to = [at EXCEPT ![w] = i]

\* A task that a worker takes is not done at once.
LEMMA DoneWithTaskTaken ==
  ASSUME NEW h, NEW ts, NEW us, NEW i, NEW c, NEW wk, NEW xk, NEW w \in Workers, NEW at, NEW to,
         TaskTaken(h, ts, us, i, c, wk, xk, w, at, to)
  PROVE  /\ \A card : Done(us, h, xk, to, card) = Done(ts, h, wk, at, card)
         /\ \A card : Waiting(us, h, card) \subseteq Waiting(ts, h, card)
         /\ i \notin Waiting(us, h, c) /\ i \in Waiting(ts, h, c)
<1>0. /\ i \in 1 .. Len(h) /\ TaskOf(h, i, c) \in ts /\ us = ts \ {TaskOf(h, i, c)}
      /\ wk[w].card = {} /\ xk[w].card = {c} /\ \A v \in Workers \ {w} : xk[v] = wk[v]
      /\ at \in [Workers -> Nat] /\ to = [at EXCEPT ![w] = i]
  BY DEF TaskTaken
<1> USE <1>0
<1>1. \A j \in 1 .. Len(h) : j \in Nat
  OBVIOUS
<1>2. ASSUME NEW card, card # c
      PROVE  Waiting(us, h, card) = Waiting(ts, h, card) /\ Under(xk, to, card) = Under(wk, at, card)
  <2>1. \A j \in 1 .. Len(h) : TaskOf(h, j, card) # TaskOf(h, i, c)
    BY <1>1, <1>2, TaskOfOne
  <2>2. Waiting(us, h, card) = Waiting(ts, h, card)
    BY <2>1 DEF Waiting
  <2>3. \A v \in Workers : card \in xk[v].card <=> card \in wk[v].card
    BY <1>2
  <2>4. \A v \in Workers : card \in wk[v].card => v # w /\ to[v] = at[v]
    OBVIOUS
  <2>5. Under(xk, to, card) = Under(wk, at, card)
    BY <2>3, <2>4 DEF Under
  <2> QED
    BY <2>2, <2>5
<1>3. Waiting(us, h, c) = Waiting(ts, h, c) \ {i} /\ i \in Waiting(ts, h, c)
  <2>1. \A j \in 1 .. Len(h) : TaskOf(h, j, c) = TaskOf(h, i, c) => j = i
    BY <1>1, TaskOfOne
  <2> QED
    BY <2>1 DEF Waiting
<1>4. Under(xk, to, c) = Under(wk, at, c) \cup {i}
  <2>1. \A v \in Workers : c \in xk[v].card <=> c \in wk[v].card \/ v = w
    OBVIOUS
  <2>2. to[w] = i /\ \A v \in Workers : v # w => to[v] = at[v]
    OBVIOUS
  <2>3. ASSUME NEW k \in Under(xk, to, c) PROVE k \in Under(wk, at, c) \cup {i}
    <3>1. PICK v \in Workers : c \in xk[v].card /\ k = to[v]
      BY <2>3 DEF Under
    <3> QED
      BY <2>1, <2>2, <3>1 DEF Under
  <2>4. ASSUME NEW k \in Under(wk, at, c) PROVE k \in Under(xk, to, c)
    <3>1. PICK v \in Workers : c \in wk[v].card /\ k = at[v]
      BY <2>4 DEF Under
    <3>2. v # w /\ c \in xk[v].card /\ k = to[v]
      BY <2>2, <3>1
    <3> QED
      BY <3>2 DEF Under
  <2>5. i \in Under(xk, to, c)
    BY <2>2 DEF Under
  <2> QED
    BY <2>3, <2>4, <2>5
<1>5. ASSUME NEW card PROVE Done(us, h, xk, to, card) = Done(ts, h, wk, at, card)
  <2>1. CASE card = c
    BY <1>3, <1>4, <2>1 DEF Done
  <2>2. CASE card # c
    BY <1>2, <2>2 DEF Done
  <2> QED
    BY <2>1, <2>2
<1>6. \A card : Waiting(us, h, card) \subseteq Waiting(ts, h, card)
  BY DEF Waiting
<1> QED
  BY <1>3, <1>5, <1>6

\* worker w, that had the hands at[w] for the card c, is free
ResultEntered(h, ts, c, wk, xk, w, at) ==
  /\ wk[w].card = {c} /\ xk[w].card = {} /\ \A v \in Workers \ {w} : xk[v] = wk[v]
  /\ at[w] \in 1 .. Len(h) /\ at[w] \notin Waiting(ts, h, c)
  /\ \A v \in Workers \ {w} : c \in wk[v].card => at[v] # at[w]

\* What a worker has entered is done for its card.
LEMMA DoneWithResultEntered ==
  ASSUME NEW h, NEW ts, NEW c, NEW wk, NEW xk, NEW w \in Workers, NEW at, ResultEntered(h, ts, c, wk, xk, w, at)
  PROVE  /\ at[w] \notin Done(ts, h, wk, at, c)
         /\ Done(ts, h, xk, at, c) = Done(ts, h, wk, at, c) \cup {at[w]}
         /\ \A card : card # c => Done(ts, h, xk, at, card) = Done(ts, h, wk, at, card)
<1>0. /\ wk[w].card = {c} /\ xk[w].card = {} /\ \A v \in Workers \ {w} : xk[v] = wk[v]
      /\ at[w] \in 1 .. Len(h) /\ at[w] \notin Waiting(ts, h, c)
      /\ \A v \in Workers \ {w} : c \in wk[v].card => at[v] # at[w]
  BY DEF ResultEntered
<1> USE <1>0
<1>1. ASSUME NEW card, card # c PROVE Under(xk, at, card) = Under(wk, at, card)
  <2>1. \A v \in Workers : card \in xk[v].card <=> card \in wk[v].card
    BY <1>1
  <2> QED
    BY <2>1 DEF Under
<1>2. at[w] \in Under(wk, at, c)
  BY DEF Under
<1>3. Under(xk, at, c) = Under(wk, at, c) \ {at[w]}
  <2>1. \A v \in Workers : c \in xk[v].card <=> c \in wk[v].card /\ v # w
    OBVIOUS
  <2>2. \A v \in Workers : c \in wk[v].card /\ v # w => at[v] # at[w]
    OBVIOUS
  <2> QED
    BY <2>1, <2>2 DEF Under
<1>4. Done(ts, h, xk, at, c) = Done(ts, h, wk, at, c) \cup {at[w]}
  BY <1>2, <1>3 DEF Done
<1> QED
  BY <1>1, <1>2, <1>4 DEF Done

------------------------------------------------------------------------------
(***************************************************************************)
(* However the workers take turns, every hand counts once.                 *)
(***************************************************************************)
\* what epi gets for certain with these hands if it plays the card
OwnValue(h, card) == Value(Judged(h, card), {EpiFixed})

DoneNow(at, card) == Done(tasks, pulled, worker, at, card)

\* worker w has nothing to do, or a card and hands that nobody else has for it
BusyAt(w, at) ==
  \/ worker[w].card = {}
  \/ \E card \in AllowedCards :
       /\ worker[w].card = {card}
       /\ at[w] \in 1 .. Len(pulled) /\ at[w] \notin Waiting(tasks, pulled, card)
       /\ \A s \in worker[w].search : SearchFor(s, pulled[at[w]], card)

Apart(wk, at) ==
  \A w, v \in Workers : \A card \in wk[w].card : w # v /\ card \in wk[v].card => at[w] # at[v]

Placed(at) ==
  /\ at \in [Workers -> Nat]
  /\ TasksOf(tasks, pulled, AllowedCards)
  /\ \A w \in Workers : BusyAt(w, at)
  /\ Apart(worker, at)

\* the statistics of each card count the hands that are done for it
Entries(at, found) ==
  /\ found \in [AllowedCards -> [Nat -> Int]]
  /\ mapcardooutput = [card \in AllowedCards |-> mapcardooutput[card]]
  /\ \A card \in AllowedCards :
       Counted(mapcardooutput[card], DoneNow(at, card), Len(pulled), found[card])

AsFound(at, found) ==
  \A card \in AllowedCards : \A i \in DoneNow(at, card) : found[card][i] = OwnValue(pulled[i], card)

Tallied(at, found, right) ==
  /\ Placed(at)
  /\ Entries(at, found)
  /\ (right = TRUE /\ AllBranches) => AsFound(at, found)

\* when a card is suggested nobody is at work any more
Settled ==
  (suggested # {} /\ AtOnce = {}) => tasks = {} /\ \A w \in Workers : worker[w].card = {}

CountInv(right) == Settled /\ \E at, found : Tallied(at, found, right)

\* What is asked stays the same.
LEMMA QuestionStays ==
  ASSUME pos' = pos
  PROVE  /\ AllowedCards' = AllowedCards /\ AtOnce' = AtOnce /\ EpiFixed' = EpiFixed
         /\ AllBranches' <=> AllBranches
         /\ \A h, card : OwnValue(h, card)' = OwnValue(h, card)
<1>1. AllowedCards' = AllowedCards /\ EpiFixed' = EpiFixed
  BY PositionStays
<1>2. AtOnce' = AtOnce
  BY <1>1 DEF AtOnce, Advised, LooksForRufsau, RuffarbeCards, HandFixed
<1>3. SearchedGame' = SearchedGame
  BY <1>1 DEF SearchedGame, Remaining
<1>4. AllBranches' <=> AllBranches
  BY <1>3 DEF AllBranches
<1>5. ASSUME NEW h, NEW card PROVE OwnValue(h, card)' = OwnValue(h, card)
  <2>1. Judged(h, card)' = Judged(h, card)
    BY PositionStays DEF Judged, SearchedGame, Remaining
  <2> QED
    BY <1>1, <2>1 DEF OwnValue
<1> QED
  BY <1>1, <1>2, <1>4, <1>5

\* What is counted stays counted.
LEMMA TalliedStays ==
  ASSUME pos' = pos, tasks' = tasks, pulled' = pulled, worker' = worker, mapcardooutput' = mapcardooutput,
         NEW at, NEW found, NEW right, Tallied(at, found, right)
  PROVE  Tallied(at, found, right)'
<1>1. /\ AllowedCards' = AllowedCards /\ (AllBranches' <=> AllBranches)
      /\ \A h, card : OwnValue(h, card)' = OwnValue(h, card)
  BY QuestionStays
<1>2. \A card : DoneNow(at, card)' = DoneNow(at, card)
  BY DEF DoneNow
<1>3. ASSUME NEW w \in Workers PROVE BusyAt(w, at)'
  <2>1. BusyAt(w, at)
    BY DEF Tallied, Placed
  <2>2. \A s, h, card : SearchFor(s, h, card)' <=> SearchFor(s, h, card)
    BY SearchForStays
  <2> QED
    BY <1>1, <2>1, <2>2 DEF BusyAt
<1>4. Placed(at)'
  BY <1>1, <1>3 DEF Tallied, Placed
<1>5. Entries(at, found)'
  BY <1>1, <1>2 DEF Tallied, Entries
<1>6. (right = TRUE /\ AllBranches') => AsFound(at, found)'
  BY <1>1, <1>2 DEF Tallied, AsFound
<1> QED
  BY <1>4, <1>5, <1>6 DEF Tallied

\* A worker that does nothing has the hands that it had.
LEMMA BusyStays ==
  ASSUME pos' = pos, NEW v, worker'[v] = worker[v], NEW at, NEW to, to[v] = at[v], BusyAt(v, at),
         \A i \in 1 .. Len(pulled) : i \in 1 .. Len(pulled') /\ pulled'[i] = pulled[i],
         \A card : \A i \in 1 .. Len(pulled) : i \in Waiting(tasks', pulled', card) => i \in Waiting(tasks, pulled, card)
  PROVE  BusyAt(v, to)'
<1>1. AllowedCards' = AllowedCards
  BY QuestionStays
<1>2. CASE worker[v].card = {}
  BY <1>2 DEF BusyAt
<1>3. CASE worker[v].card # {}
  <2>1. PICK card \in AllowedCards :
          /\ worker[v].card = {card}
          /\ at[v] \in 1 .. Len(pulled) /\ at[v] \notin Waiting(tasks, pulled, card)
          /\ \A s \in worker[v].search : SearchFor(s, pulled[at[v]], card)
    BY <1>3 DEF BusyAt
  <2>2. to[v] \in 1 .. Len(pulled') /\ to[v] \notin Waiting(tasks', pulled', card)
    BY <2>1
  <2>3. ASSUME NEW s \in worker'[v].search PROVE SearchFor(s, pulled[to[v]], card)'
    <3>1. SearchFor(s, pulled[at[v]], card) /\ pulled'[to[v]] = pulled[at[v]]
      BY <2>1, <2>3
    <3>2. \A x : SearchFor(s, x, card)' <=> SearchFor(s, x, card)
      BY SearchForStays
    <3> QED
      BY <3>1, <3>2
  <2> QED
    BY <1>1, <2>1, <2>2, <2>3 DEF BusyAt
<1> QED
  BY <1>2, <1>3

\* The hands that are pulled count nothing before they are searched.
LEMMA PullCounts ==
  ASSUME SearchInv, NEW at, NEW found, NEW right, Tallied(at, found, right), NEW h, Pull(h), [Next]_vars
  PROVE  Tallied(at, found, right)'
<1> DEFINE n == Len(pulled)
<1>1. /\ AllowedCards' = AllowedCards /\ (AllBranches' <=> AllBranches) /\ pos' = pos
      /\ \A x, card : OwnValue(x, card)' = OwnValue(x, card)
  BY PulledOrNot, QuestionStays
<1>2. pulled \in Seq(PossibleHands) /\ n \in Nat
  BY DEF SearchInv, PulledInv
<1>3. /\ pulled' = Append(pulled, h)
      /\ tasks' = tasks \cup { [i_susp |-> Len(pulled), ahand |-> h, card |-> card] : card \in AllowedCards }
      /\ worker' = worker /\ mapcardooutput' = mapcardooutput
  BY DEF Pull
<1>4. /\ Len(pulled') = n + 1
      /\ \A i \in 1 .. n : i \in 1 .. Len(pulled') /\ pulled'[i] = pulled[i]
  <2>1. pulled \in Seq(PossibleHands \cup {h}) /\ h \in PossibleHands \cup {h}
    BY <1>2
  <2>2. Len(pulled') = n + 1 /\ \A i \in 1 .. n : pulled'[i] = pulled[i]
    BY <1>3, <2>1, OneMore
  <2>3. 1 .. n \subseteq 1 .. n + 1
    BY <1>2
  <2> QED
    BY <2>2, <2>3
<1>5. Placed(at) /\ Entries(at, found) /\ ((right = TRUE /\ AllBranches) => AsFound(at, found))
  BY DEF Tallied
<1>6. /\ TasksOf(tasks', pulled', AllowedCards)
      /\ \A card \in AllowedCards : Done(tasks', pulled', worker, at, card) = Done(tasks, pulled, worker, at, card)
      /\ \A card : \A i \in 1 .. Len(pulled) : i \in Waiting(tasks', pulled', card) => i \in Waiting(tasks, pulled, card)
  <2>1. TasksOf(tasks, pulled, AllowedCards)
    BY <1>5 DEF Placed
  <2>2. PulledAfter(pulled, pulled', h, tasks, tasks', AllowedCards)
    BY <1>2, <1>3 DEF PulledAfter, IsSeq
  <2>3. SameDone(pulled, pulled', tasks, tasks', worker, at, AllowedCards)
    BY <2>1, <2>2, DoneWithMoreHands
  <2> QED
    BY <2>3 DEF SameDone
<1>7. \A card \in AllowedCards : DoneNow(at, card)' = DoneNow(at, card)
  BY <1>3, <1>6 DEF DoneNow
<1>8. ASSUME NEW v \in Workers PROVE BusyAt(v, at)'
  <2>1. BusyAt(v, at) /\ worker'[v] = worker[v] /\ at[v] = at[v]
    BY <1>3, <1>5 DEF Placed
  <2> QED
    BY <1>1, <1>4, <1>6, <2>1, BusyStays
<1>9. Placed(at)'
  BY <1>1, <1>3, <1>5, <1>6, <1>8 DEF Placed
<1>10. Entries(at, found)'
  <2>1. ASSUME NEW card \in AllowedCards PROVE Counted(mapcardooutput[card], DoneNow(at, card), n + 1, found[card])
    <3>1. Counted(mapcardooutput[card], DoneNow(at, card), n, found[card]) /\ found[card] \in [Nat -> Int]
      BY <1>5 DEF Entries
    <3>2. DoneNow(at, card) \in SUBSET (1 .. n)
      BY DEF DoneNow, Done
    <3> QED
      BY <1>2, <3>1, <3>2, CountedOfMore
  <2> QED
    BY <1>1, <1>3, <1>4, <1>5, <1>7, <2>1 DEF Entries
<1>11. (right = TRUE /\ AllBranches') => AsFound(at, found)'
  <2> SUFFICES ASSUME right = TRUE, AllBranches, NEW card \in AllowedCards, NEW i \in DoneNow(at, card)
               PROVE  found[card][i] = OwnValue(pulled[i], card)'
    BY <1>1, <1>7 DEF AsFound
  <2>1. found[card][i] = OwnValue(pulled[i], card) /\ i \in 1 .. n
    BY <1>5 DEF AsFound, DoneNow, Done
  <2>2. pulled'[i] = pulled[i]
    BY <1>4, <2>1
  <2>3. \A x : OwnValue(x, card)' = OwnValue(x, card)
    BY <1>1
  <2> QED
    BY <2>1, <2>2, <2>3
<1> QED
  BY <1>9, <1>10, <1>11 DEF Tallied

\* A worker begins with hands that are not done and that nobody else has.
LEMMA BeginCounts ==
  ASSUME SearchInv, NEW at, NEW found, NEW right, Tallied(at, found, right), NEW w \in Workers, BeginSearch(w), [Next]_vars
  PROVE  \E to : Tallied(to, found, right)'
<1>1. /\ AllowedCards' = AllowedCards /\ (AllBranches' <=> AllBranches) /\ pos' = pos
      /\ \A x, card : OwnValue(x, card)' = OwnValue(x, card)
  BY PulledOrNot, QuestionStays
<1>2. pulled' = pulled /\ mapcardooutput' = mapcardooutput /\ worker[w] = Idle /\ WorkersTyped
  BY DEF BeginSearch, SearchInv
<1>3. PICK task \in tasks : \E search : BeginsWith(w, task, search)
  BY BeginsWithTask
<1>4. PICK search : BeginsWith(w, task, search)
  BY <1>3
<1>5. Placed(at) /\ Entries(at, found) /\ ((right = TRUE /\ AllBranches) => AsFound(at, found))
  BY DEF Tallied
<1>6. TasksOf(tasks, pulled, AllowedCards)
  BY <1>5 DEF Placed
<1>7. PICK i \in 1 .. Len(pulled) : \E card \in AllowedCards : task = TaskOf(pulled, i, card)
  BY <1>6 DEF TasksOf
<1>8. PICK c \in AllowedCards : task = TaskOf(pulled, i, c)
  BY <1>7
<1>9. task.ahand = pulled[i] /\ task.card = c /\ i \in Nat
  BY <1>8 DEF TaskOf
<1>10. /\ tasks' = tasks \ {task}
       /\ worker' = [worker EXCEPT ![w] = [card |-> {c}, search |-> {search}]]
       /\ SearchFor(search, pulled[i], c)
  BY <1>4, <1>9 DEF BeginsWith
<1>11. /\ worker'[w].card = {c} /\ worker'[w].search = {search}
       /\ \A v \in Workers \ {w} : worker'[v] = worker[v]
  <2> DEFINE x == {c}
             y == {search}
  <2>1. worker' = [worker EXCEPT ![w] = [card |-> x, search |-> y]]
    BY <1>10
  <2> HIDE DEF x, y
  <2>2. /\ WorkersTyped' /\ worker'[w].card = x /\ worker'[w].search = y
        /\ \A v \in Workers \ {w} : worker'[v] = worker[v]
    BY <1>2, <2>1, WorkerChanges, ZenonT(30)
  <2> QED
    BY <2>2 DEF x, y
<1> DEFINE to == [at EXCEPT ![w] = i]
<1>12. at \in [Workers -> Nat] /\ worker[w].card = {}
  BY <1>2, <1>5 DEF Placed, Idle
<1>13. /\ to \in [Workers -> Nat] /\ to[w] = i
       /\ \A v \in Workers : v # w => to[v] = at[v]
  BY <1>9, <1>12
<1>14. TaskTaken(pulled, tasks, tasks', i, c, worker, worker', w, at, to)
  BY <1>8, <1>10, <1>11, <1>12 DEF TaskTaken
<1> HIDE DEF to
<1>15. /\ \A card : Done(tasks', pulled, worker', to, card) = Done(tasks, pulled, worker, at, card)
       /\ \A card : Waiting(tasks', pulled, card) \subseteq Waiting(tasks, pulled, card)
       /\ i \notin Waiting(tasks', pulled, c) /\ i \in Waiting(tasks, pulled, c)
  BY <1>14, DoneWithTaskTaken
<1>16. \A card : DoneNow(to, card)' = DoneNow(at, card)
  BY <1>2, <1>15 DEF DoneNow
<1>17. ASSUME NEW v \in Workers PROVE BusyAt(v, to)'
  <2>1. CASE v = w
    <3>1. SearchFor(search, pulled[i], c)'
      <4>1. \A x : SearchFor(search, x, c)' <=> SearchFor(search, x, c)
        BY <1>1, SearchForStays
      <4> QED
        BY <1>2, <1>10, <4>1
    <3> QED
      BY <1>1, <1>2, <1>11, <1>13, <1>15, <2>1, <3>1 DEF BusyAt
  <2>2. CASE v # w
    <3>1. BusyAt(v, at) /\ worker'[v] = worker[v] /\ to[v] = at[v]
      BY <1>5, <1>11, <1>13, <2>2 DEF Placed
    <3>2. \A card : \A j \in 1 .. Len(pulled) : j \in Waiting(tasks', pulled', card) => j \in Waiting(tasks, pulled, card)
      BY <1>2, <1>15
    <3> QED
      BY <1>1, <1>2, <3>1, <3>2, BusyStays
  <2> QED
    BY <2>1, <2>2
<1>18. Apart(worker', to)
  <2> SUFFICES ASSUME NEW u \in Workers, NEW v \in Workers, NEW card \in worker'[u].card, u # v, card \in worker'[v].card
               PROVE  to[u] # to[v]
    BY DEF Apart
  <2>0. ASSUME NEW x \in Workers, x # w, c \in worker[x].card PROVE at[x] # i
    <3>1. BusyAt(x, at)
      BY <1>5 DEF Placed
    <3>2. at[x] \notin Waiting(tasks, pulled, c)
      BY <2>0, <3>1 DEF BusyAt
    <3> QED
      BY <1>15, <3>2
  <2>1. CASE u # w /\ v # w
    <3>1. card \in worker[u].card /\ card \in worker[v].card /\ to[u] = at[u] /\ to[v] = at[v]
      BY <1>11, <1>13, <2>1
    <3> QED
      BY <1>5, <3>1 DEF Placed, Apart
  <2>2. CASE u = w
    <3>1. card = c /\ v # w /\ c \in worker[v].card /\ to[u] = i /\ to[v] = at[v]
      BY <1>11, <1>13, <2>2
    <3> QED
      BY <2>0, <3>1
  <2>3. CASE v = w
    <3>1. card = c /\ u # w /\ c \in worker[u].card /\ to[v] = i /\ to[u] = at[u]
      BY <1>11, <1>13, <2>3
    <3> QED
      BY <2>0, <3>1
  <2> QED
    BY <2>1, <2>2, <2>3
<1>19. TasksOf(tasks', pulled, AllowedCards)
  BY <1>6, <1>10 DEF TasksOf
<1>20. Placed(to)'
  BY <1>1, <1>2, <1>13, <1>17, <1>18, <1>19 DEF Placed
<1>21. Entries(to, found)'
  BY <1>1, <1>2, <1>5, <1>16 DEF Entries
<1>22. (right = TRUE /\ AllBranches') => AsFound(to, found)'
  BY <1>1, <1>2, <1>5, <1>16 DEF AsFound
<1>23. Tallied(to, found, right)'
  BY <1>20, <1>21, <1>22 DEF Tallied
<1> QED
  BY <1>23

\* A step of a search neither takes hands nor gives any back.
LEMMA StepCounts ==
  ASSUME SearchInv, NEW at, NEW found, NEW right, Tallied(at, found, right), NEW w \in Workers, SearchStep(w), [Next]_vars
  PROVE  Tallied(at, found, right)'
<1>1. /\ AllowedCards' = AllowedCards /\ (AllBranches' <=> AllBranches) /\ pos' = pos
      /\ \A x, card : OwnValue(x, card)' = OwnValue(x, card)
  BY PulledOrNot, QuestionStays
<1>2. pulled' = pulled /\ mapcardooutput' = mapcardooutput /\ tasks' = tasks /\ WorkersTyped
  BY DEF SearchStep, SearchInv
<1>3. PICK s \in worker[w].search : \E search : StepFrom(w, s, search)
  BY <1>2, StepStaysOnLine
<1>4. PICK search : StepFrom(w, s, search)
  BY <1>3
<1>5. Placed(at) /\ Entries(at, found) /\ ((right = TRUE /\ AllBranches) => AsFound(at, found))
  BY DEF Tallied
<1>6. /\ worker'[w].card = worker[w].card /\ worker'[w].search = {search}
      /\ \A v \in Workers \ {w} : worker'[v] = worker[v]
  <2> DEFINE x == worker[w].card
             y == {search}
  <2>1. worker' = [worker EXCEPT ![w] = [card |-> x, search |-> y]]
    BY <1>4 DEF StepFrom
  <2> HIDE DEF x, y
  <2>2. /\ WorkersTyped' /\ worker'[w].card = x /\ worker'[w].search = y
        /\ \A v \in Workers \ {w} : worker'[v] = worker[v]
    BY <1>2, <2>1, WorkerChanges, ZenonT(30)
  <2> QED
    BY <2>2 DEF x, y
<1>7. \A v \in Workers : worker'[v].card = worker[v].card
  BY <1>6
<1>8. ASSUME NEW card PROVE DoneNow(at, card)' = DoneNow(at, card)
  <2>1. Under(worker', at, card) = Under(worker, at, card)
    BY <1>7 DEF Under
  <2> QED
    BY <1>2, <2>1 DEF DoneNow, Done
<1>9. ASSUME NEW v \in Workers PROVE BusyAt(v, at)'
  <2>0. BusyAt(v, at)
    BY <1>5 DEF Placed
  <2>1. CASE v = w
    <3>1. CASE worker[w].card = {}
      BY <1>6, <2>1, <3>1 DEF BusyAt
    <3>2. CASE worker[w].card # {}
      <4>1. PICK card \in AllowedCards :
              /\ worker[w].card = {card}
              /\ at[w] \in 1 .. Len(pulled) /\ at[w] \notin Waiting(tasks, pulled, card)
              /\ \A t \in worker[w].search : SearchFor(t, pulled[at[w]], card)
        BY <2>0, <2>1, <3>2 DEF BusyAt
      <4>2. SearchFor(search, pulled[at[w]], card)
        BY <1>3, <1>4, <4>1 DEF SearchFor, StepFrom
      <4>3. SearchFor(search, pulled[at[w]], card)'
        <5>1. \A x : SearchFor(search, x, card)' <=> SearchFor(search, x, card)
          BY <1>1, SearchForStays
        <5> QED
          BY <1>2, <4>2, <5>1
      <4> QED
        BY <1>1, <1>2, <1>6, <2>1, <4>1, <4>3 DEF BusyAt
    <3> QED
      BY <3>1, <3>2
  <2>2. CASE v # w
    <3>1. worker'[v] = worker[v] /\ at[v] = at[v]
      BY <1>6, <2>2
    <3> QED
      BY <1>1, <1>2, <2>0, <3>1, BusyStays
  <2> QED
    BY <2>1, <2>2
<1>10. Apart(worker', at)
  BY <1>5, <1>7 DEF Placed, Apart
<1>11. Placed(at)'
  BY <1>1, <1>2, <1>5, <1>9, <1>10 DEF Placed
<1>12. Entries(at, found)'
  BY <1>1, <1>2, <1>5, <1>8 DEF Entries
<1>13. (right = TRUE /\ AllBranches') => AsFound(at, found)'
  BY <1>1, <1>2, <1>5, <1>8 DEF AsFound
<1> QED
  BY <1>11, <1>12, <1>13 DEF Tallied

\* What a finished search has found for the card, if searches find the value.
LEMMA FoundValue ==
  ASSUME NEW w \in Workers, NEW s \in worker[w].search, NEW h, NEW card, SearchFor(s, h, card), Finished(s),
         NEW output \in s.output
  PROVE  /\ output \in Outputs
         /\ (SearchFindsValue /\ AllBranches) => output["t_min"][EpiFixed] = OwnValue(h, card)
<1>1. PICK g : OnLine(s, g, Judged(h, card))
  BY DEF SearchFor
<1>2. PositionIn(s) = Judged(h, card)
  BY <1>1, OnLineKept
<1>3. output \in Outputs
  BY <1>1, OnLineOrdered
<1>4. s.game = SearchedGame
  <2>1. PositionIn(s).game = s.game
    BY DEF PositionIn
  <2>2. Judged(h, card).game = SearchedGame
    BY DEF Judged
  <2> QED
    BY <1>2, <2>1, <2>2
<1>5. SearchedGame.epi = EpiFixed
  BY DEF SearchedGame
<1>6. ASSUME SearchFindsValue, AllBranches PROVE output["t_min"][EpiFixed] = OwnValue(h, card)
  <2>1. s.game.branches = {} /\ s.game.epi = EpiFixed
    BY <1>4, <1>5, <1>6 DEF AllBranches
  <2>2. output["t_min"][s.game.epi] = Value(PositionIn(s), {s.game.epi})
    BY <1>6, <2>1 DEF SearchFindsValue
  <2> QED
    BY <1>2, <2>1, <2>2 DEF OwnValue
<1> QED
  BY <1>3, <1>6

\* The result of a search is counted with the others for its card, once.
LEMMA EnterCounts ==
  ASSUME SearchInv, NEW at, NEW found, NEW right, Tallied(at, found, right), right = TRUE => SearchFindsValue,
         NEW w \in Workers, EnterResult(w), [Next]_vars
  PROVE  \E other : Tallied(at, other, right)'
<1>1. /\ AllowedCards' = AllowedCards /\ (AllBranches' <=> AllBranches) /\ pos' = pos
      /\ \A x, card : OwnValue(x, card)' = OwnValue(x, card)
  BY PulledOrNot, QuestionStays
<1>2. /\ pulled' = pulled /\ tasks' = tasks /\ WorkersTyped
      /\ worker' = [worker EXCEPT ![w] = [card |-> {}, search |-> {}]]
  BY DEF EnterResult, SearchInv, Idle
<1>3. PICK s \in worker[w].search : \E card \in worker[w].card : \E output \in s.output :
        /\ Finished(s)
        /\ mapcardooutput' = [mapcardooutput EXCEPT ![card] = Entered(@, StatsOf(output, EpiFixed))]
  BY DEF EnterResult
<1>4. PICK c \in worker[w].card : \E output \in s.output :
        /\ Finished(s)
        /\ mapcardooutput' = [mapcardooutput EXCEPT ![c] = Entered(@, StatsOf(output, EpiFixed))]
  BY <1>3
<1>5. PICK output \in s.output :
        /\ Finished(s)
        /\ mapcardooutput' = [mapcardooutput EXCEPT ![c] = Entered(@, StatsOf(output, EpiFixed))]
  BY <1>4
<1>6. Placed(at) /\ Entries(at, found) /\ ((right = TRUE /\ AllBranches) => AsFound(at, found))
  BY DEF Tallied
<1>7. /\ worker[w].card = {c} /\ c \in AllowedCards
      /\ at[w] \in 1 .. Len(pulled) /\ at[w] \notin Waiting(tasks, pulled, c)
      /\ SearchFor(s, pulled[at[w]], c)
  <2>1. BusyAt(w, at)
    BY <1>6 DEF Placed
  <2> QED
    BY <1>3, <1>4, <2>1 DEF BusyAt
<1>8. /\ worker'[w].card = {} /\ worker'[w].search = {}
      /\ \A v \in Workers \ {w} : worker'[v] = worker[v]
  <2> DEFINE x == {}
  <2>1. worker' = [worker EXCEPT ![w] = [card |-> x, search |-> x]]
    BY <1>2
  <2> HIDE DEF x
  <2>2. /\ WorkersTyped' /\ worker'[w].card = x /\ worker'[w].search = x
        /\ \A v \in Workers \ {w} : worker'[v] = worker[v]
    BY <1>2, <2>1, WorkerChanges, ZenonT(30)
  <2> QED
    BY <2>2 DEF x
<1> DEFINE k == at[w]
           D == DoneNow(at, c)
           n == Len(pulled)
<1>9. /\ output \in Outputs
      /\ (SearchFindsValue /\ AllBranches) => output["t_min"][EpiFixed] = OwnValue(pulled[k], c)
  <2> DEFINE h == pulled[at[w]]
  <2>1. SearchFor(s, h, c)
    BY <1>7
  <2> HIDE DEF h
  <2>2. output \in Outputs /\ ((SearchFindsValue /\ AllBranches) => output["t_min"][EpiFixed] = OwnValue(h, c))
    BY <1>3, <1>5, <2>1, FoundValue
  <2> QED
    BY <2>2 DEF h
<1>10. EpiFixed \in EPIs /\ n \in Nat
  <2>1. PositionOK /\ pulled \in Seq(PossibleHands)
    BY DEF SearchInv, PulledInv
  <2>2. EpiFixed \in Seats
    BY <2>1, EpiFixedSeat
  <2> QED
    BY <2>1, <2>2, FourSeats DEF EPIs
<1>11. PICK x \in Int : x = output["t_min"][EpiFixed]
  BY <1>9, <1>10, FourStrategies DEF Outputs, Payouts
<1> DEFINE g == [found[c] EXCEPT ![k] = x]
           other == [found EXCEPT ![c] = g]
<1>12. ResultEntered(pulled, tasks, c, worker, worker', w, at)
  <2>1. \A v \in Workers \ {w} : c \in worker[v].card => at[v] # at[w]
    BY <1>6, <1>7 DEF Placed, Apart
  <2> QED
    BY <1>7, <1>8, <2>1 DEF ResultEntered
<1>13. /\ k \notin D
       /\ Done(tasks, pulled, worker', at, c) = D \cup {k}
       /\ \A card : card # c => Done(tasks, pulled, worker', at, card) = Done(tasks, pulled, worker, at, card)
  BY <1>12, DoneWithResultEntered DEF DoneNow
<1>14. /\ DoneNow(at, c)' = D \cup {k}
       /\ \A card : card # c => DoneNow(at, card)' = DoneNow(at, card)
  BY <1>2, <1>13 DEF DoneNow
<1>15. /\ found \in [AllowedCards -> [Nat -> Int]] /\ mapcardooutput = [card \in AllowedCards |-> mapcardooutput[card]]
       /\ \A card \in AllowedCards : Counted(mapcardooutput[card], DoneNow(at, card), n, found[card])
  BY <1>6 DEF Entries
<1>16. D \in SUBSET (1 .. n) /\ k \in 1 .. n /\ k \in Nat /\ \A j \in D : j \in Nat
  BY <1>7, <1>10 DEF DoneNow, Done
<1>17. /\ g \in [Nat -> Int] /\ g[k] = x /\ \A i \in Nat : i # k => g[i] = found[c][i]
  BY <1>7, <1>11, <1>15, <1>16
<1>18. /\ other \in [AllowedCards -> [Nat -> Int]] /\ other[c] = g
       /\ \A card \in AllowedCards : card # c => other[card] = found[card]
  BY <1>7, <1>15, <1>17
<1>19. Counted(Entered(mapcardooutput[c], StatsOf(output, EpiFixed)), D \cup {k}, n, g)
  <2> DEFINE f == found[c]
             o == mapcardooutput[c]
  <2>1. Counted(o, D, n, f) /\ f \in [Nat -> Int] /\ g = [f EXCEPT ![k] = output["t_min"][EpiFixed]]
    BY <1>7, <1>11, <1>15
  <2>2. n \in Nat /\ D \in SUBSET (1 .. n) /\ k \in 1 .. n /\ k \notin D /\ EpiFixed \in EPIs /\ output \in Outputs
    BY <1>9, <1>10, <1>13, <1>16
  <2> HIDE DEF f, o, g, D, k, n
  <2>3. Counted(Entered(o, StatsOf(output, EpiFixed)), D \cup {k}, n, g)
    BY <2>1, <2>2, CountedOnceMore
  <2> QED
    BY <2>3 DEF o
<1>20. /\ mapcardooutput'[c] = Entered(mapcardooutput[c], StatsOf(output, EpiFixed))
       /\ \A card \in AllowedCards : card # c => mapcardooutput'[card] = mapcardooutput[card]
       /\ mapcardooutput' = [card \in AllowedCards |-> mapcardooutput'[card]]
  BY <1>5, <1>7, <1>15
<1> HIDE DEF g, other, D, k, n
<1>21. ASSUME NEW card \in AllowedCards
       PROVE  Counted(mapcardooutput'[card], DoneNow(at, card)', n, other[card])
  <2>1. CASE card = c
    BY <1>14, <1>18, <1>19, <1>20, <2>1
  <2>2. CASE card # c
    BY <1>14, <1>15, <1>18, <1>20, <2>2
  <2> QED
    BY <2>1, <2>2
<1>22. Entries(at, other)'
  <2>1. AllowedCards' = AllowedCards /\ Len(pulled)' = n
    BY <1>1, <1>2 DEF n
  <2>2. other \in [AllowedCards' -> [Nat -> Int]] /\ mapcardooutput' = [card \in AllowedCards' |-> mapcardooutput'[card]]
    BY <1>18, <1>20, <2>1
  <2>3. \A card \in AllowedCards' : Counted(mapcardooutput[card], DoneNow(at, card), Len(pulled), other[card])'
    BY <1>21, <2>1
  <2> QED
    BY <2>2, <2>3 DEF Entries
<1>23. ASSUME NEW v \in Workers PROVE BusyAt(v, at)'
  <2>1. CASE v = w
    BY <1>8, <2>1 DEF BusyAt
  <2>2. CASE v # w
    <3>1. BusyAt(v, at) /\ worker'[v] = worker[v] /\ at[v] = at[v]
      BY <1>6, <1>8, <2>2 DEF Placed
    <3> QED
      BY <1>1, <1>2, <3>1, BusyStays
  <2> QED
    BY <2>1, <2>2
<1>24. \A v \in Workers : worker'[v].card \subseteq worker[v].card
  BY <1>8
<1>25. Apart(worker', at)
  BY <1>6, <1>24 DEF Placed, Apart
<1>26. Placed(at)'
  BY <1>1, <1>2, <1>6, <1>23, <1>25 DEF Placed
<1>27. (right = TRUE /\ AllBranches') => AsFound(at, other)'
  <2> SUFFICES ASSUME right = TRUE, AllBranches, NEW card \in AllowedCards, NEW i \in DoneNow(at, card)'
               PROVE  other[card][i] = OwnValue(pulled[i], card)
    <3>1. AllowedCards' = AllowedCards /\ (AllBranches' <=> AllBranches)
      BY <1>1
    <3>2. \A y, card : OwnValue(pulled[y], card)' = OwnValue(pulled[y], card)
      <4>1. \A y, card : OwnValue(y, card)' = OwnValue(y, card)
        BY <1>1
      <4> QED
        BY <1>2, <4>1
    <3> QED
      BY <3>1, <3>2 DEF AsFound
  <2>1. SearchFindsValue /\ AsFound(at, found)
    BY <1>6
  <2>2. CASE card = c /\ i = k
    <3>1. other[card][i] = x
      BY <1>17, <1>18, <2>2
    <3> QED
      BY <1>9, <1>11, <2>1, <2>2, <3>1
  <2>3. CASE card = c /\ i # k
    <3>0. i \in D \cup {k}
      BY <1>14, <2>3
    <3>1. i \in D /\ i \in Nat
      BY <1>16, <2>3, <3>0
    <3>2. found[c][i] = OwnValue(pulled[i], c)
      BY <1>7, <2>1, <3>1 DEF AsFound, D
    <3> QED
      BY <1>17, <1>18, <2>3, <3>1, <3>2
  <2>4. CASE card # c
    BY <1>14, <1>18, <2>1, <2>4 DEF AsFound
  <2> QED
    BY <2>2, <2>3, <2>4
<1>28. Tallied(at, other, right)'
  BY <1>22, <1>26, <1>27 DEF Tallied
<1> QED
  BY <1>28

\* Every step counts every hand once.
LEMMA NextCountInv ==
  ASSUME SearchInv, NEW right, right = TRUE => SearchFindsValue, CountInv(right), [Next]_vars
  PROVE  CountInv(right)'
<1>1. PICK at, found : Tallied(at, found, right)
  BY DEF CountInv
<1>2. Settled
  BY DEF CountInv
<1>3. pos' = pos /\ AtOnce' = AtOnce /\ WorkersTyped
  BY PulledOrNot, QuestionStays DEF SearchInv
<1>4. Settled'
  <2>1. CASE UNCHANGED vars \/ SkipHands \/ Suggested
    BY <1>2, <1>3, <2>1 DEF Settled, SkipHands, Suggested, vars
  <2>2. CASE SuggestAtOnce
    BY <1>3, <2>2 DEF SuggestAtOnce, Settled
  <2>3. CASE PullTrueHands \/ PullNextHands \/ PullSample
    BY <2>3 DEF PullTrueHands, PullNextHands, PullSample, TryNextHands, MayPull, Pull, Settled
  <2>4. CASE SuggestBest
    BY <2>4 DEF SuggestBest, Idle, Settled
  <2>5. ASSUME NEW w \in Workers, BeginSearch(w) \/ SearchStep(w) \/ EnterResult(w) PROVE Settled'
    <3>1. suggested' = suggested
      BY <2>5 DEF BeginSearch, SearchStep, EnterResult
    <3>2. CASE suggested = {} \/ AtOnce # {}
      BY <1>3, <3>1, <3>2 DEF Settled
    <3>3. CASE suggested # {} /\ AtOnce = {}
      <4>1. tasks = {} /\ worker[w].card = {}
        BY <1>2, <3>3 DEF Settled
      <4>2. SearchStep(w)
        BY <1>1, <2>5, <4>1 DEF BeginSearch, EnterResult
      <4>3. PICK s \in worker[w].search : \E search : StepFrom(w, s, search)
        BY <1>3, <4>2, StepStaysOnLine
      <4>4. PICK search : StepFrom(w, s, search)
        BY <4>3
      <4>5. \A v \in Workers : worker'[v].card = worker[v].card
        <5> DEFINE x == worker[w].card
                   y == {search}
        <5>1. worker' = [worker EXCEPT ![w] = [card |-> x, search |-> y]]
          BY <4>4 DEF StepFrom
        <5> HIDE DEF x, y
        <5>2. /\ WorkersTyped' /\ worker'[w].card = x /\ worker'[w].search = y
              /\ \A v \in Workers \ {w} : worker'[v] = worker[v]
          BY <1>3, <5>1, WorkerChanges, ZenonT(30)
        <5> QED
          BY <5>2 DEF x
      <4>6. tasks' = tasks
        BY <4>2 DEF SearchStep
      <4> QED
        BY <1>2, <3>3, <4>5, <4>6 DEF Settled
    <3> QED
      BY <3>2, <3>3
  <2> QED
    BY <2>1, <2>2, <2>3, <2>4, <2>5 DEF Next
<1>5. \E to, other : Tallied(to, other, right)'
  <2>1. CASE UNCHANGED vars \/ SkipHands \/ Suggested \/ SuggestAtOnce \/ SuggestBest
    <3>1. tasks' = tasks /\ pulled' = pulled /\ worker' = worker /\ mapcardooutput' = mapcardooutput
      BY <2>1 DEF SkipHands, Suggested, SuggestAtOnce, SuggestBest, vars
    <3> QED
      BY <1>1, <1>3, <3>1, TalliedStays
  <2>2. CASE PullTrueHands \/ PullNextHands \/ PullSample
    <3>1. PICK h : Pull(h)
      BY <2>2 DEF PullTrueHands, PullNextHands, PullSample
    <3> QED
      BY <1>1, <3>1, PullCounts
  <2>3. ASSUME NEW w \in Workers, BeginSearch(w) PROVE \E to, other : Tallied(to, other, right)'
    BY <1>1, <2>3, BeginCounts
  <2>4. ASSUME NEW w \in Workers, SearchStep(w) PROVE \E to, other : Tallied(to, other, right)'
    BY <1>1, <2>4, StepCounts
  <2>5. ASSUME NEW w \in Workers, EnterResult(w) PROVE \E to, other : Tallied(to, other, right)'
    BY <1>1, <2>5, EnterCounts
  <2> QED
    BY <2>1, <2>2, <2>3, <2>4, <2>5 DEF Next
<1> QED
  BY <1>4, <1>5 DEF CountInv

\* At the beginning nothing is pulled, and nothing is counted.
LEMMA InitCountInv == ASSUME Init, NEW right PROVE CountInv(right)
<1> DEFINE at == [w \in Workers |-> 0]
           found == [card \in AllowedCards |-> [i \in Nat |-> 0]]
<1>1. /\ pulled = <<>> /\ tasks = {} /\ suggested = {} /\ worker = [w \in Workers |-> Idle]
      /\ mapcardooutput = [card \in AllowedCards |-> {}]
  BY DEF Init
<1>2. Settled
  BY <1>1 DEF Settled
<1>3. \A w \in Workers : worker[w].card = {}
  BY <1>1 DEF Idle
<1>4. Placed(at)
  <2>1. at \in [Workers -> Nat]
    OBVIOUS
  <2>2. \A w \in Workers : BusyAt(w, at)
    BY <1>3 DEF BusyAt
  <2>3. TasksOf(tasks, pulled, AllowedCards) /\ Apart(worker, at)
    BY <1>1, <1>3 DEF TasksOf, Apart
  <2> QED
    BY <2>1, <2>2, <2>3 DEF Placed
<1>5. PICK f : f = found
  OBVIOUS
<1>6. PICK a : a = at
  OBVIOUS
<1>7. Placed(a)
  BY <1>4, <1>6
<1>8. \A card : DoneNow(a, card) = {}
  BY <1>1 DEF DoneNow, Done
<1>9. Entries(a, f)
  <2>1. f \in [AllowedCards -> [Nat -> Int]]
    BY <1>5
  <2>2. \A card \in AllowedCards : mapcardooutput[card] = {}
    BY <1>1
  <2>3. mapcardooutput = [card \in AllowedCards |-> mapcardooutput[card]]
    BY <1>1
  <2> QED
    BY <1>8, <2>1, <2>2, <2>3 DEF Entries, Counted
<1>10. AsFound(a, f)
  BY <1>8 DEF AsFound
<1>11. Tallied(a, f, right)
  BY <1>7, <1>9, <1>10 DEF Tallied
<1> QED
  BY <1>2, <1>11 DEF CountInv

\* When a card is suggested, all hands are done.
LEMMA AllAreDone ==
  ASSUME SearchInv, NEW right, CountInv(right), suggested # {}, AtOnce = {}
  PROVE  \E f \in [AllowedCards -> [Nat -> Int]] :
           \A card \in AllowedCards :
             /\ Counted(mapcardooutput[card], 1 .. Len(pulled), Len(pulled), f[card])
             /\ (right = TRUE /\ AllBranches) => \A i \in 1 .. Len(pulled) : f[card][i] = OwnValue(pulled[i], card)
<1>1. PICK at, found : Tallied(at, found, right)
  BY DEF CountInv
<1>2. tasks = {} /\ \A w \in Workers : worker[w].card = {}
  BY DEF CountInv, Settled
<1>3. ASSUME NEW card PROVE DoneNow(at, card) = 1 .. Len(pulled)
  <2>1. Under(worker, at, card) = {}
    BY <1>2 DEF Under
  <2>2. Waiting(tasks, pulled, card) = {}
    BY <1>2 DEF Waiting
  <2> QED
    BY <2>1, <2>2 DEF DoneNow, Done
<1>4. found \in [AllowedCards -> [Nat -> Int]]
  BY <1>1 DEF Tallied, Entries
<1>5. \A card \in AllowedCards : Counted(mapcardooutput[card], 1 .. Len(pulled), Len(pulled), found[card])
  BY <1>1, <1>3 DEF Tallied, Entries
<1>6. (right = TRUE /\ AllBranches) =>
        \A card \in AllowedCards : \A i \in 1 .. Len(pulled) : found[card][i] = OwnValue(pulled[i], card)
  BY <1>1, <1>3 DEF Tallied, AsFound
<1> QED
  BY <1>4, <1>5, <1>6

\* However the workers take turns, no result is lost or counted twice: when a card is
\* suggested, each card that may be played counts as many results as hands were searched
\* (the first part of EveryHandCounts, whatever the searches find).
THEOREM EveryHandIsCounted ==
  Spec => []((suggested # {} /\ AtOnce = {}) =>
               \A card \in AllowedCards : \A stats \in mapcardooutput[card] :
                 \A strategy \in Strategies : stats[strategy].n_count = Len(pulled))
<1> DEFINE Right == (suggested # {} /\ AtOnce = {}) =>
                      \A card \in AllowedCards : \A stats \in mapcardooutput[card] :
                        \A strategy \in Strategies : stats[strategy].n_count = Len(pulled)
<1>1. Init => CountInv(FALSE)
  BY InitCountInv
<1>2. SearchInv /\ CountInv(FALSE) /\ [Next]_vars => CountInv(FALSE)'
  BY NextCountInv
<1>3. SearchInv /\ CountInv(FALSE) => Right
  <2> SUFFICES ASSUME SearchInv, CountInv(FALSE), suggested # {}, AtOnce = {},
                      NEW card \in AllowedCards, NEW stats \in mapcardooutput[card], NEW strategy \in Strategies
               PROVE  stats[strategy].n_count = Len(pulled)
    OBVIOUS
  <2>1. PICK f \in [AllowedCards -> [Nat -> Int]] :
          \A c \in AllowedCards : Counted(mapcardooutput[c], 1 .. Len(pulled), Len(pulled), f[c])
    BY AllAreDone
  <2>2. CountsOnce(stats, 1 .. Len(pulled), Len(pulled), f[card])
    BY <2>1 DEF Counted
  <2>3. Len(pulled) \in Nat
    BY DEF SearchInv, PulledInv
  <2>4. Cardinality(1 .. Len(pulled)) = Len(pulled)
    <3>1. \A n \in Nat : Cardinality(1 .. n) = n
      <4> TAKE n \in Nat
      <4> QED
        BY FS_Interval
    <3> QED
      BY <2>3, <3>1
  <2> QED
    BY <2>2, <2>4 DEF CountsOnce
<1> HIDE DEF Right
<1>4. Spec => []Right
  BY <1>1, <1>2, <1>3, InSearchInv, PTL DEF Spec
<1> QED
  BY <1>4 DEF Right

\* Where every search finds the value of its game tree, the statistics are those of the values
\* of all hands that were searched: least, greatest and sum.
THEOREM FoundValuesCount == Spec /\ []SearchFindsValue => []EveryHandCounts
<1>1. Init => CountInv(TRUE)
  BY InitCountInv
<1>2. SearchInv /\ SearchFindsValue /\ CountInv(TRUE) /\ [Next]_vars => CountInv(TRUE)'
  BY NextCountInv
<1>3. SearchInv /\ CountInv(TRUE) => EveryHandCounts
  <2> SUFFICES ASSUME SearchInv, CountInv(TRUE), suggested # {}, AtOnce = {},
                      NEW card \in AllowedCards, NEW stats \in mapcardooutput[card]
               PROVE  /\ \A strategy \in Strategies : stats[strategy].n_count = Len(pulled)
                      /\ AllBranches =>
                           LET values == [i \in DOMAIN pulled |-> Value(Judged(pulled[i], card), {EpiFixed})]
                           IN  /\ stats["t_min"].n_sum = SumInOrder(values)
                               /\ stats["t_min"].n_min = Min(ToSet(values))
                               /\ stats["t_min"].n_max = Max(ToSet(values))
    BY DEF EveryHandCounts
  <2> DEFINE n == Len(pulled)
             values == [i \in DOMAIN pulled |-> Value(Judged(pulled[i], card), {EpiFixed})]
  <2>1. PICK f \in [AllowedCards -> [Nat -> Int]] :
          \A c \in AllowedCards :
            /\ Counted(mapcardooutput[c], 1 .. Len(pulled), Len(pulled), f[c])
            /\ AllBranches => \A i \in 1 .. Len(pulled) : f[c][i] = OwnValue(pulled[i], c)
    BY AllAreDone
  <2>2. CountsOnce(stats, 1 .. n, n, f[card])
    BY <2>1 DEF Counted
  <2>3. n \in Nat /\ DOMAIN pulled = 1 .. n
    <3>1. pulled \in Seq(PossibleHands)
      BY DEF SearchInv, PulledInv
    <3> QED
      BY <3>1
  <2>4. Cardinality(1 .. n) = n
    <3>1. \A m \in Nat : Cardinality(1 .. m) = m
      BY FS_Interval
    <3> QED
      BY <2>3, <3>1
  <2>5. \A strategy \in Strategies : stats[strategy].n_count = n
    BY <2>2, <2>4 DEF CountsOnce
  <2>6. ASSUME AllBranches
        PROVE  /\ stats["t_min"].n_sum = SumInOrder(values)
               /\ stats["t_min"].n_min = Min(ToSet(values))
               /\ stats["t_min"].n_max = Max(ToSet(values))
    <3>1. \A i \in 1 .. n : values[i] = f[card][i]
      BY <2>1, <2>3, <2>6 DEF OwnValue
    <3>2. values = [i \in 1 .. n |-> values[i]]
      BY <2>3
    <3>3. ValuesOf(1 .. n, n, f[card]) = [i \in 1 .. n |-> f[card][i]]
      BY DEF ValuesOf
    <3> HIDE DEF values
    <3>4. values = ValuesOf(1 .. n, n, f[card])
      BY <3>1, <3>2, <3>3
    <3>5. stats["t_min"].n_sum = SumInOrder(values)
      BY <2>2, <3>4 DEF CountsOnce
    <3>6. ToSet(values) = { values[i] : i \in 1 .. n }
      BY <3>2 DEF ToSet
    <3>7. /\ \A x \in ToSet(values) : x \in Int
          /\ stats["t_min"].n_min \in ToSet(values) /\ stats["t_min"].n_max \in ToSet(values)
          /\ \A x \in ToSet(values) : stats["t_min"].n_min <= x /\ x <= stats["t_min"].n_max
      <4>1. f[card] \in [Nat -> Int] /\ \A i \in 1 .. n : i \in Nat
        BY <2>1, <2>3
      <4>2. \A i \in 1 .. n : f[card][i] \in Int
        BY <4>1
      <4> QED
        BY <2>2, <3>1, <3>6, <4>2, ZenonT(60) DEF CountsOnce
    <3>8. stats["t_min"].n_min = Min(ToSet(values))
      BY <3>7 DEF Min
    <3>9. stats["t_min"].n_max = Max(ToSet(values))
      BY <3>7 DEF Max
    <3> QED
      BY <3>5, <3>8, <3>9
  <2> QED
    BY <2>5, <2>6
<1> QED
  BY <1>1, <1>2, <1>3, InSearchInv, PTL DEF Spec

------------------------------------------------------------------------------
(***************************************************************************)
(* The hands that are dealt are those of all arrangements of the seats.    *)
(***************************************************************************)
\* the hands that share out the cards, with as many for each seat as it has to have
Deals == { h \in [Seats -> SUBSET Deck] : GoodHands(h) /\ \A e \in Seats : Cardinality(h[e]) = Remaining(e) }

\* the hands h, as far as they are dealt when k seats have theirs
DealtSoFar(h, k) ==
  [ahand |-> [e \in Seats |-> IF e < k THEN h[e] ELSE {}],
   left |-> Elements(UnknownCards) \ UNION { h[e] : e \in { f \in Seats : f < k } }]

\* One seat more of these hands is dealt.
LEMMA OneSeatMoreOf ==
  ASSUME PositionOK, NEW h \in Deals, NEW k \in 1 .. 4, NEW D, DealtSoFar(h, k - 1) \in D
  PROVE  DealtSoFar(h, k) \in NextDealt(D, k)
<1> DEFINE seat == k - 1
           d == DealtSoFar(h, seat)
           u == Elements(UnknownCards)
           hand == h[seat]
<1>1. /\ h \in [Seats -> SUBSET Deck] /\ h[EpiFixed] = HandFixed
      /\ \A e, f \in Seats : e # f => h[e] \cap h[f] = {}
      /\ UNION { h[e] : e \in Seats } = Deck \ PlayedCards
      /\ \A e \in Seats : Cardinality(h[e]) = Remaining(e)
  BY DEF Deals, GoodHands
<1>2. seat \in Seats /\ k = seat + 1 /\ \A e \in Seats : e \in Nat /\ (e < k <=> e < seat \/ e = seat) /\ ~ (seat < seat)
  BY FourSeats
<1>3. u = (Deck \ HandFixed) \ PlayedCards
  BY UnknownIs
<1>4. d.ahand = [e \in Seats |-> IF e < seat THEN h[e] ELSE {}] /\ d.left = u \ UNION { h[e] : e \in { f \in Seats : f < seat } }
  BY DEF DealtSoFar
<1> HIDE DEF seat, u, d
<1>5. hand \in IF seat = EpiFixed THEN {HandFixed} ELSE kSubset(Remaining(seat), d.left)
  <2>1. CASE seat = EpiFixed
    BY <1>1, <2>1
  <2>2. CASE seat # EpiFixed
    <3>1. hand \subseteq u
      <4>1. hand \subseteq Deck \ PlayedCards
        BY <1>1, <1>2
      <4>2. hand \cap HandFixed = {}
        BY <1>1, <1>2, <2>2, EpiFixedSeat
      <4> QED
        BY <1>3, <4>1, <4>2
    <3>2. \A e \in Seats : e < seat => hand \cap h[e] = {}
      BY <1>1, <1>2
    <3>3. hand \in SUBSET d.left
      BY <1>4, <3>1, <3>2
    <3>4. Cardinality(hand) = Remaining(seat)
      BY <1>1, <1>2
    <3> QED
      BY <2>2, <3>3, <3>4 DEF kSubset
  <2> QED
    BY <2>1, <2>2
<1>6. [d.ahand EXCEPT ![seat] = hand] = [e \in Seats |-> IF e < k THEN h[e] ELSE {}]
  <2>1. \A e \in Seats : [d.ahand EXCEPT ![seat] = hand][e] = IF e < k THEN h[e] ELSE {}
    BY <1>2, <1>4
  <2>2. [d.ahand EXCEPT ![seat] = hand] = [e \in Seats |-> [d.ahand EXCEPT ![seat] = hand][e]]
    BY <1>4
  <2> QED
    BY <2>1, <2>2
<1>7. d.left \ hand = u \ UNION { h[e] : e \in { f \in Seats : f < k } }
  <2>1. \A x : x \in d.left \ hand <=> x \in u /\ (\A e \in Seats : e < seat => x \notin h[e]) /\ x \notin h[seat]
    BY <1>4
  <2>2. \A x : x \in u \ UNION { h[e] : e \in { f \in Seats : f < k } } <=> x \in u /\ \A e \in Seats : e < k => x \notin h[e]
    OBVIOUS
  <2> QED
    BY <1>2, <2>1, <2>2
<1>8. DealtSoFar(h, k) = [ahand |-> [d.ahand EXCEPT ![seat] = hand], left |-> d.left \ hand]
  BY <1>6, <1>7 DEF DealtSoFar, u
<1>9. d \in D
  BY DEF d, seat
<1> HIDE DEF hand
<1>10. DealtSoFar(h, k) \in { [ahand |-> [d.ahand EXCEPT ![seat] = x], left |-> d.left \ x] :
                              x \in IF seat = EpiFixed THEN {HandFixed} ELSE kSubset(Remaining(seat), d.left) }
  BY <1>5, <1>8
<1> QED
  BY <1>9, <1>10, SMTT(60) DEF NextDealt, seat

\* The shuffles are all hands of these sizes.
LEMMA DealingsAreDeals == ASSUME PositionOK PROVE Dealings = Deals
<1>1. Dealings \subseteq Deals
  BY DealingsAreGood DEF Deals, GoodHands
<1>2. ASSUME NEW h \in Deals PROVE h \in Dealings
  <2>1. PICK dealt : DealtInTurn(dealt)
    BY DealingsAre
  <2>2. /\ dealt[0] = {NothingDealt}
        /\ dealt[1] = NextDealt(dealt[0], 1) /\ dealt[2] = NextDealt(dealt[1], 2)
        /\ dealt[3] = NextDealt(dealt[2], 3) /\ dealt[4] = NextDealt(dealt[3], 4)
        /\ Dealings = { d.ahand : d \in dealt[4] }
    BY <2>1 DEF DealtInTurn
  <2>3. DealtSoFar(h, 0) \in dealt[0]
    <3>1. \A e \in Seats : ~ (e < 0)
      BY FourSeats
    <3>2. DealtSoFar(h, 0) = NothingDealt
      BY <3>1 DEF DealtSoFar, NothingDealt
    <3> QED
      BY <2>2, <3>2
  <2>4. DealtSoFar(h, 1) \in dealt[1]
    <3>1. 1 - 1 = 0
      OBVIOUS
    <3> QED
      BY <2>2, <2>3, <3>1, OneSeatMoreOf
  <2>5. DealtSoFar(h, 2) \in dealt[2]
    <3>1. 2 - 1 = 1
      OBVIOUS
    <3> QED
      BY <2>2, <2>4, <3>1, OneSeatMoreOf
  <2>6. DealtSoFar(h, 3) \in dealt[3]
    <3>1. 3 - 1 = 2
      OBVIOUS
    <3> QED
      BY <2>2, <2>5, <3>1, OneSeatMoreOf
  <2>7. DealtSoFar(h, 4) \in dealt[4]
    <3>1. 4 - 1 = 3
      OBVIOUS
    <3> QED
      BY <2>2, <2>6, <3>1, OneSeatMoreOf
  <2>8. DealtSoFar(h, 4).ahand = h
    <3>1. \A e \in Seats : e < 4
      BY FourSeats
    <3>2. h = [e \in Seats |-> h[e]]
      BY DEF Deals
    <3>3. DealtSoFar(h, 4).ahand = [e \in Seats |-> IF e < 4 THEN h[e] ELSE {}]
      BY DEF DealtSoFar
    <3> QED
      BY <3>1, <3>2, <3>3
  <2> QED
    BY <2>2, <2>7, <2>8
<1> QED
  BY <1>1, <1>2

\* how often each seat has to come
Arrangements ==
  { v \in DealtTo : \A e \in Seats \ {EpiFixed} : Cardinality({ i \in 1 .. Len(UnknownCards) : v[i] = e }) = Remaining(e) }

\* Arrangements are permutations of each other.
LEMMA ArrangementsPermute ==
  ASSUME PositionOK, NEW v \in Arrangements, NEW w \in Arrangements
  PROVE  /\ v \in [1 .. Len(UnknownCards) -> Nat] /\ w \in [1 .. Len(UnknownCards) -> Nat]
         /\ SameCounts(v, w, Len(UnknownCards))
<1> DEFINE n == Len(UnknownCards)
<1>1. /\ v \in [1 .. n -> Seats \ {EpiFixed}] /\ w \in [1 .. n -> Seats \ {EpiFixed}]
      /\ \A e \in Seats \ {EpiFixed} : Cardinality({ i \in 1 .. n : v[i] = e }) = Cardinality({ i \in 1 .. n : w[i] = e })
  BY DEF Arrangements, DealtTo
<1> HIDE DEF n
<1>2. \A x : x \notin Seats \ {EpiFixed} => { i \in 1 .. n : v[i] = x } = {} /\ { i \in 1 .. n : w[i] = x } = {}
  BY <1>1
<1>3. SameCounts(v, w, n)
  BY <1>1, <1>2 DEF SameCounts
<1>4. v \in [1 .. n -> Nat] /\ w \in [1 .. n -> Nat]
  <2>1. Seats \ {EpiFixed} \subseteq Nat
    BY FourSeats
  <2> QED
    BY <1>1, <2>1
<1> QED
  BY <1>3, <1>4 DEF n

\* The permutation after an arrangement is one.
LEMMA NextArrangement ==
  ASSUME PositionOK, NEW v \in Arrangements, HasNextPermutation(v)
  PROVE  /\ NextPermutation(v) \in Arrangements
         /\ \E i, j : NextAt(v, NextPermutation(v), Len(UnknownCards), i, j)
<1> DEFINE n == Len(UnknownCards)
           S == Seats \ {EpiFixed}
           w == NextPermutation(v)
<1>1. n \in Nat /\ S \in SUBSET Nat /\ v \in [1 .. n -> S]
  BY UnknownIs, FourSeats DEF Arrangements, DealtTo
<1>2. v \in [1 .. n -> Nat]
  BY ArrangementsPermute
<1> HIDE DEF n, S, w
<1>3. w \in [1 .. n -> S] /\ \E i, j : NextAt(v, w, n, i, j)
  BY <1>1, NextPermutationIs DEF w
<1>4. SameCounts(w, v, n)
  BY <1>1, <1>2, <1>3, NextHasSameCounts
<1>5. \A e \in S : Cardinality({ i \in 1 .. n : v[i] = e }) = Remaining(e)
  BY DEF Arrangements, S, n
<1>6. \A e \in S : Cardinality({ i \in 1 .. n : w[i] = e }) = Remaining(e)
  BY <1>4, <1>5 DEF SameCounts
<1> QED
  BY <1>3, <1>6 DEF Arrangements, DealtTo, w, S, n

\* The first permutation, block by block.
LEMMA FirstVecEpiBlocks ==
  ASSUME PositionOK
  PROVE  /\ FirstVecEpi \in [1 .. Len(UnknownCards) -> Nat]
         /\ \A i \in 1 .. Len(UnknownCards) :
              FirstVecEpi[i] = IF i <= Size(0) THEN 0 ELSE IF i <= Size(0) + Size(1) THEN 1
                               ELSE IF i <= Size(0) + Size(1) + Size(2) THEN 2 ELSE 3
<1>1. /\ Own(0) \in Seq(Nat) /\ Own(1) \in Seq(Nat) /\ Own(2) \in Seq(Nat) /\ Own(3) \in Seq(Nat)
      /\ Len(Own(0)) = Size(0) /\ Len(Own(1)) = Size(1) /\ Len(Own(2)) = Size(2) /\ Len(Own(3)) = Size(3)
      /\ \A i \in 1 .. Size(0) : Own(0)[i] = 0
      /\ \A i \in 1 .. Size(1) : Own(1)[i] = 1
      /\ \A i \in 1 .. Size(2) : Own(2)[i] = 2
      /\ \A i \in 1 .. Size(3) : Own(3)[i] = 3
  BY SizesAre, FourSeats
<1> DEFINE a == Size(0)
           b == Size(1)
           c == Size(2)
           d == Size(3)
           n == Len(UnknownCards)
<1>2. a \in Nat /\ b \in Nat /\ c \in Nat /\ d \in Nat /\ a + b + c + d = n
  BY SizesAre
<1>3. FirstVecEpi \in Seq(Nat) /\ Len(FirstVecEpi) = a + b + c + d
  <2>1. Own(0) \in Seq(Nat) /\ Own(1) \in Seq(Nat) /\ Own(2) \in Seq(Nat) /\ Own(3) \in Seq(Nat)
    BY <1>1
  <2>2. /\ FirstVecEpi \in Seq(Nat)
        /\ Len(FirstVecEpi) = Len(Own(0)) + Len(Own(1)) + Len(Own(2)) + Len(Own(3))
    BY <2>1, FourParts, FirstVecEpiIs
  <2> QED
    BY <1>1, <2>2
<1> HIDE DEF n
<1>4. FirstVecEpi \in [1 .. n -> Nat]
  BY <1>2, <1>3, SMTT(60)
<1>5. ASSUME NEW i \in 1 .. n
      PROVE  FirstVecEpi[i] = IF i <= a THEN 0 ELSE IF i <= a + b THEN 1 ELSE IF i <= a + b + c THEN 2 ELSE 3
  <2>1. FirstVecEpi[i] = IF i <= a THEN Own(0)[i] ELSE IF i <= a + b THEN Own(1)[i - a]
                         ELSE IF i <= a + b + c THEN Own(2)[i - a - b] ELSE Own(3)[i - a - b - c]
    <3>1. i \in 1 .. Len(Own(0)) + Len(Own(1)) + Len(Own(2)) + Len(Own(3))
      BY <1>1, <1>2
    <3>2. Own(0) \in Seq(Nat) /\ Own(1) \in Seq(Nat) /\ Own(2) \in Seq(Nat) /\ Own(3) \in Seq(Nat)
      BY <1>1
    <3>3. FirstVecEpi[i] = IF i <= Len(Own(0)) THEN Own(0)[i]
             ELSE IF i <= Len(Own(0)) + Len(Own(1)) THEN Own(1)[i - Len(Own(0))]
             ELSE IF i <= Len(Own(0)) + Len(Own(1)) + Len(Own(2)) THEN Own(2)[i - Len(Own(0)) - Len(Own(1))]
             ELSE Own(3)[i - Len(Own(0)) - Len(Own(1)) - Len(Own(2))]
      BY <3>1, <3>2, InFourParts, FirstVecEpiIs, SMTT(60)
    <3> QED
      BY <1>1, <3>3
  <2> HIDE DEF a, b, c, d
  <2>2. i <= a => i \in 1 .. a
    BY <1>2
  <2>3. i > a /\ i <= a + b => i - a \in 1 .. b
    BY <1>2
  <2>4. i > a + b /\ i <= a + b + c => i - a - b \in 1 .. c
    BY <1>2
  <2>5. i > a + b + c => i - a - b - c \in 1 .. d
    BY <1>2
  <2>6. \A k \in 1 .. a : Own(0)[k] = 0
    BY <1>1 DEF a
  <2>7. \A k \in 1 .. b : Own(1)[k] = 1
    BY <1>1 DEF b
  <2>8. \A k \in 1 .. c : Own(2)[k] = 2
    BY <1>1 DEF c
  <2>9. \A k \in 1 .. d : Own(3)[k] = 3
    BY <1>1 DEF d
  <2>10. CASE i <= a
    BY <2>1, <2>2, <2>6, <2>10
  <2>11. CASE i > a /\ i <= a + b
    BY <1>2, <2>1, <2>3, <2>7, <2>11
  <2>12. CASE i > a + b /\ i <= a + b + c
    BY <1>2, <2>1, <2>4, <2>8, <2>12
  <2>13. CASE i > a + b + c
    BY <1>2, <2>1, <2>5, <2>9, <2>13
  <2> QED
    BY <1>2, <2>10, <2>11, <2>12, <2>13
<1> QED
  BY <1>4, <1>5 DEF n

\* The first permutation is an arrangement, and none comes before it.
LEMMA FirstArrangement ==
  ASSUME PositionOK
  PROVE  FirstVecEpi \in Arrangements /\ \A v \in Arrangements : ~ Lex(v, FirstVecEpi, Len(UnknownCards))
<1> DEFINE a == Size(0)
           b == a + Size(1)
           c == b + Size(2)
           n == Len(UnknownCards)
           z == FirstVecEpi
<1>1. /\ a \in Nat /\ b \in Nat /\ c \in Nat /\ n \in Nat /\ a <= b /\ b <= c /\ c <= n
      /\ Size(0) = a /\ Size(1) = b - a /\ Size(2) = c - b /\ Size(3) = n - c
  BY SizesAre
<1>2. /\ z \in [1 .. n -> Nat]
      /\ \A i \in 1 .. n : z[i] = IF i <= a THEN 0 ELSE IF i <= b THEN 1 ELSE IF i <= c THEN 2 ELSE 3
  BY FirstVecEpiBlocks
<1> HIDE DEF a, b, c, n, z
<1>9. ASSUME NEW i \in 1 .. n
      PROVE  /\ i \in Nat /\ i >= 1 /\ i <= n
             /\ z[i] = 0 <=> i <= a
             /\ z[i] = 1 <=> a < i /\ i <= b
             /\ z[i] = 2 <=> b < i /\ i <= c
             /\ z[i] = 3 <=> c < i
             /\ z[i] \in {0, 1, 2, 3}
  <2>1. z[i] = IF i <= a THEN 0 ELSE IF i <= b THEN 1 ELSE IF i <= c THEN 2 ELSE 3
    BY <1>2
  <2> QED
    BY <1>1, <2>1
<1>3. ASSUME NEW i \in 1 .. n, NEW j \in 1 .. n, i <= j PROVE z[i] <= z[j]
  <2>1. /\ i \in Nat /\ z[i] = 0 <=> i <= a
        /\ z[i] = 1 <=> a < i /\ i <= b
        /\ z[i] = 2 <=> b < i /\ i <= c
        /\ z[i] \in {0, 1, 2, 3}
    BY <1>9
  <2>2. /\ j \in Nat /\ z[j] = 0 <=> j <= a
        /\ z[j] = 1 <=> a < j /\ j <= b
        /\ z[j] = 2 <=> b < j /\ j <= c
        /\ z[j] \in {0, 1, 2, 3}
    BY <1>9
  <2> QED
    BY <1>1, <1>3, <2>1, <2>2
<1>4. /\ { i \in 1 .. n : z[i] = 0 } = 1 .. a
      /\ { i \in 1 .. n : z[i] = 1 } = a + 1 .. b
      /\ { i \in 1 .. n : z[i] = 2 } = b + 1 .. c
      /\ { i \in 1 .. n : z[i] = 3 } = c + 1 .. n
  <2>1. { i \in 1 .. n : z[i] = 0 } = 1 .. a
    BY <1>1, <1>9
  <2>2. { i \in 1 .. n : z[i] = 1 } = a + 1 .. b
    BY <1>1, <1>9
  <2>3. { i \in 1 .. n : z[i] = 2 } = b + 1 .. c
    BY <1>1, <1>9
  <2>4. { i \in 1 .. n : z[i] = 3 } = c + 1 .. n
    BY <1>1, <1>9
  <2> QED
    BY <2>1, <2>2, <2>3, <2>4
<1>5. \A p, q \in Nat : p <= q => Cardinality(p + 1 .. q) = q - p
  <2> SUFFICES ASSUME NEW p \in Nat, NEW q \in Nat, p <= q PROVE Cardinality(p + 1 .. q) = q - p
    OBVIOUS
  <2>1. p + 1 \in Int /\ q \in Int
    OBVIOUS
  <2> DEFINE r == p + 1
  <2>2. Cardinality(r .. q) = IF r > q THEN 0 ELSE q - r + 1
    BY <2>1, FS_Interval
  <2> QED
    BY <2>2
<1>6. \A e \in {0, 1, 2, 3} : Cardinality({ i \in 1 .. n : z[i] = e }) = Size(e)
  <2>1. Cardinality(1 .. a) = a
    <3>1. Cardinality(0 + 1 .. a) = a - 0 /\ 0 + 1 = 1 /\ a - 0 = a
      BY <1>1, <1>5
    <3> QED
      BY <3>1
  <2>2. Cardinality(a + 1 .. b) = b - a /\ Cardinality(b + 1 .. c) = c - b /\ Cardinality(c + 1 .. n) = n - c
    BY <1>1, <1>5
  <2> QED
    BY <1>1, <1>4, <2>1, <2>2
<1>7. z \in Arrangements
  <2>1. \A e \in Seats \ {EpiFixed} : Cardinality({ i \in 1 .. n : z[i] = e }) = Remaining(e)
    BY <1>6, FourSeats DEF Size
  <2> QED
    BY <2>1, FirstVecEpiDeals DEF Arrangements, n, z
<1>8. ASSUME NEW v \in Arrangements, Lex(v, z, n) PROVE FALSE
  <2>1. v \in [1 .. n -> Nat] /\ SameCounts(v, z, n)
    BY <1>7, ArrangementsPermute DEF n
  <2>2. PICK k \in 1 .. n : v[k] < z[k] /\ \A l \in 1 .. k - 1 : v[l] = z[l]
    BY <1>8 DEF Lex
  <2>3. v[k] # z[k]
    BY <1>2, <2>1, <2>2
  <2>4. PICK l \in k + 1 .. n : z[l] = v[k]
    <3>1. n \in Nat /\ z \in [1 .. n -> Nat] /\ FirstDiffer(v, z, k)
      BY <1>1, <1>2, <2>2, <2>3 DEF FirstDiffer
    <3>2. HasLater(z, v, n, k)
      BY <2>1, <3>1, OccursInTheRest
    <3> QED
      BY <3>2 DEF HasLater
  <2>5. k \in 1 .. n /\ l \in 1 .. n /\ k <= l /\ z[k] \in Nat /\ v[k] \in Nat
    BY <1>1, <1>2, <2>1, <2>4
  <2> QED
    BY <1>3, <2>2, <2>4, <2>5
<1> QED
  BY <1>7, <1>8 DEF n, z

\* What the iterator makes of an arrangement.
LEMMA HandsOfIs ==
  ASSUME PositionOK, NEW v \in DealtTo
  PROVE  /\ HandsOf(v)[EpiFixed] = HandFixed
         /\ HandsOf(v) = [e \in Seats |-> HandsOf(v)[e]]
         /\ \A e \in Seats \ {EpiFixed} :
              HandsOf(v)[e] = { UnknownCards[i] : i \in { k \in 1 .. Len(UnknownCards) : v[k] = e } }
<1>1. DOMAIN v = 1 .. Len(UnknownCards)
  BY DEF DealtTo
<1>2. EpiFixed \in Seats
  BY EpiFixedSeat
<1> QED
  BY <1>1, <1>2 DEF HandsOf

\* The hands of an arrangement have the right sizes.
LEMMA HandsOfArrangement ==
  ASSUME PositionOK, NEW v \in Arrangements
  PROVE  HandsOf(v) \in Deals
<1> DEFINE h == HandsOf(v)
           u == UnknownCards
           n == Len(UnknownCards)
<1>1. /\ v \in DealtTo
      /\ \A e \in Seats \ {EpiFixed} : Cardinality({ i \in 1 .. n : v[i] = e }) = Remaining(e)
  BY DEF Arrangements
<1>2. GoodHands(h)
  BY <1>1, HandsOfAreGood
<1>3. /\ h[EpiFixed] = HandFixed
      /\ \A e \in Seats \ {EpiFixed} : h[e] = { u[i] : i \in { k \in 1 .. n : v[k] = e } }
  BY <1>1, HandsOfIs
<1>4. n \in Nat /\ \A i, j \in 1 .. n : u[i] = u[j] => i = j
  BY UnknownIs
<1> HIDE DEF h, u, n
<1>5. ASSUME NEW e \in Seats \ {EpiFixed} PROVE Cardinality(h[e]) = Remaining(e)
  <2> DEFINE K == { k \in 1 .. n : v[k] = e }
             f == [k \in K |-> u[k]]
  <2>1. f \in Bijection(K, { u[i] : i \in K })
    BY <1>4 DEF Bijection, Injection, Surjection, IsInjective
  <2>2. ExistsBijection(K, { u[i] : i \in K })
    BY <2>1 DEF ExistsBijection
  <2>3. IsFiniteSet(K)
    <3>1. IsFiniteSet(1 .. n)
      BY <1>4, FS_Interval
    <3> QED
      BY <3>1, FS_Subset
  <2>4. Cardinality(K) = Remaining(e) /\ h[e] = { u[i] : i \in K }
    BY <1>1, <1>3
  <2> HIDE DEF K
  <2> QED
    BY <2>2, <2>3, <2>4, FS_Bijection
<1>6. Cardinality(h[EpiFixed]) = Remaining(EpiFixed)
  BY <1>3, EpiFixedSeat, TrueHandsAreGood DEF HandFixed
<1>7. \A e \in Seats : Cardinality(h[e]) = Remaining(e)
  BY <1>5, <1>6
<1> QED
  BY <1>2, <1>7 DEF Deals, GoodHands, h

\* Different arrangements make different hands.
LEMMA HandsOfDiffer ==
  ASSUME PositionOK, NEW v \in Arrangements, NEW w \in Arrangements, HandsOf(v) = HandsOf(w)
  PROVE  v = w
<1> DEFINE u == UnknownCards
           n == Len(UnknownCards)
<1>1. v \in [1 .. n -> Seats \ {EpiFixed}] /\ w \in [1 .. n -> Seats \ {EpiFixed}]
  BY DEF Arrangements, DealtTo
<1>2. \A e \in Seats \ {EpiFixed} : { u[i] : i \in { k \in 1 .. n : v[k] = e } } = { u[i] : i \in { k \in 1 .. n : w[k] = e } }
  BY HandsOfIs, ZenonT(60) DEF Arrangements
<1>3. \A i, j \in 1 .. n : u[i] = u[j] => i = j
  BY UnknownIs
<1> HIDE DEF u, n
<1>4. ASSUME NEW i \in 1 .. n PROVE v[i] = w[i]
  <2>1. v[i] \in Seats \ {EpiFixed}
    BY <1>1
  <2>2. u[i] \in { u[l] : l \in { k \in 1 .. n : v[k] = v[i] } }
    OBVIOUS
  <2>3. u[i] \in { u[l] : l \in { k \in 1 .. n : w[k] = v[i] } }
    BY <1>2, <2>1, <2>2
  <2>4. PICK l \in 1 .. n : w[l] = v[i] /\ u[l] = u[i]
    BY <2>3
  <2> QED
    BY <1>3, <2>4
<1>5. v = [i \in 1 .. n |-> v[i]] /\ w = [i \in 1 .. n |-> w[i]]
  BY <1>1
<1> QED
  BY <1>4, <1>5

\* All the hands that can be dealt are those of an arrangement.
LEMMA EveryDealIsArranged ==
  ASSUME PositionOK, NEW h \in Deals
  PROVE  \E v \in Arrangements : HandsOf(v) = h
<1> DEFINE u == UnknownCards
           n == Len(UnknownCards)
           S == Seats \ {EpiFixed}
           v == [i \in 1 .. n |-> CHOOSE e \in S : u[i] \in h[e]]
<1>1. /\ h \in [Seats -> SUBSET Deck] /\ h[EpiFixed] = HandFixed
      /\ \A e, f \in Seats : e # f => h[e] \cap h[f] = {}
      /\ UNION { h[e] : e \in Seats } = Deck \ PlayedCards
      /\ \A e \in Seats : Cardinality(h[e]) = Remaining(e)
  BY DEF Deals, GoodHands
<1>2. /\ n \in Nat /\ \A i, j \in 1 .. n : u[i] = u[j] => i = j
      /\ { u[i] : i \in 1 .. n } = (Deck \ HandFixed) \ PlayedCards
  BY UnknownIs, ZenonT(60) DEF Elements
<1>3. EpiFixed \in Seats
  BY EpiFixedSeat
<1> HIDE DEF u, n
<1>4. ASSUME NEW i \in 1 .. n PROVE v[i] \in S /\ u[i] \in h[v[i]]
  <2>1. u[i] \in (Deck \ HandFixed) \ PlayedCards
    BY <1>2
  <2>2. \E e \in Seats : u[i] \in h[e]
    BY <1>1, <2>1
  <2>3. \E e \in S : u[i] \in h[e]
    BY <1>1, <2>1, <2>2
  <2> QED
    BY <2>3
<1>5. v = [i \in 1 .. n |-> v[i]]
  OBVIOUS
<1> HIDE DEF v
<1>6. v \in [1 .. n -> S]
  BY <1>4, <1>5
<1>7. ASSUME NEW e \in S PROVE h[e] = { u[i] : i \in { k \in 1 .. n : v[k] = e } }
  <2>1. ASSUME NEW c \in h[e] PROVE c \in { u[i] : i \in { k \in 1 .. n : v[k] = e } }
    <3>1. c \in (Deck \ HandFixed) \ PlayedCards
      <4>1. c \in UNION { h[f] : f \in Seats } /\ c \notin h[EpiFixed]
        BY <1>1, <1>3, <2>1
      <4> QED
        BY <1>1, <4>1
    <3>2. PICK i \in 1 .. n : c = u[i]
      BY <1>2, <3>1
    <3>3. v[i] = e
      BY <1>1, <1>4, <2>1, <3>2
    <3> QED
      BY <3>2, <3>3
  <2>2. \A i \in 1 .. n : v[i] = e => u[i] \in h[e]
    BY <1>4
  <2> QED
    BY <2>1, <2>2
<1>8. ASSUME NEW e \in S PROVE Cardinality({ k \in 1 .. n : v[k] = e }) = Remaining(e)
  <2> DEFINE K == { k \in 1 .. n : v[k] = e }
             f == [k \in K |-> u[k]]
  <2>1. f \in Bijection(K, { u[i] : i \in K })
    BY <1>2 DEF Bijection, Injection, Surjection, IsInjective
  <2>2. ExistsBijection(K, { u[i] : i \in K })
    BY <2>1 DEF ExistsBijection
  <2>3. IsFiniteSet(K)
    <3>1. IsFiniteSet(1 .. n)
      BY <1>2, FS_Interval
    <3> QED
      BY <3>1, FS_Subset
  <2>4. Cardinality(h[e]) = Remaining(e) /\ h[e] = { u[i] : i \in K }
    BY <1>1, <1>7
  <2> DEFINE J == { u[i] : i \in K }
  <2> HIDE DEF K, J, S
  <2>5. ExistsBijection(K, J) /\ IsFiniteSet(K)
    BY <2>2, <2>3 DEF J
  <2>6. Cardinality(J) = Cardinality(K)
    BY <2>5, FS_Bijection
  <2> QED
    BY <2>4, <2>6 DEF K, J
<1>9. v \in Arrangements
  BY <1>6, <1>8 DEF Arrangements, DealtTo, n
<1>10. HandsOf(v) = h
  <2>1. /\ HandsOf(v)[EpiFixed] = HandFixed
        /\ HandsOf(v) = [e \in Seats |-> HandsOf(v)[e]]
        /\ \A e \in S : HandsOf(v)[e] = { u[i] : i \in { k \in 1 .. n : v[k] = e } }
    BY <1>9, HandsOfIs DEF Arrangements, u, n
  <2>2. \A e \in Seats : HandsOf(v)[e] = h[e]
    BY <1>1, <1>7, <2>1
  <2>3. h = [e \in Seats |-> h[e]]
    BY <1>1
  <2> QED
    BY <2>1, <2>2, <2>3
<1> QED
  BY <1>9, <1>10

------------------------------------------------------------------------------
(***************************************************************************)
(* all_possible_hands gives each of the possible hands, and gives it once. *)
(***************************************************************************)
\* the iterator that has come to z, the last one if valid is FALSE, has tried v
TriedAt(v, z, valid, n) == Lex(v, z, n) \/ (v = z /\ valid = FALSE)

\* the hands that passed the filter so far
TriedHands(z, valid) ==
  { HandsOf(v) : v \in { w \in Arrangements : TriedAt(w, z, valid, Len(UnknownCards)) /\ Compatible(HandsOf(w)) } }

\* the hands of one permutation, if they pass it
Passing(z) == { h \in {HandsOf(z)} : Compatible(h) }

\* When the iterator goes on to the next permutation, it has tried the one it comes from.
LEMMA TriedOneMore ==
  ASSUME PositionOK, NEW z \in Arrangements, HasNextPermutation(z), NEW v \in Arrangements
  PROVE  TriedAt(v, NextPermutation(z), TRUE, Len(UnknownCards))
           <=> TriedAt(v, z, TRUE, Len(UnknownCards)) \/ v = z
<1> DEFINE n == Len(UnknownCards)
           w == NextPermutation(z)
<1>1. w \in Arrangements /\ \E i, j : NextAt(z, w, n, i, j)
  BY NextArrangement
<1>2. n \in Nat
  BY UnknownIs
<1>3. /\ v \in [1 .. n -> Nat] /\ w \in [1 .. n -> Nat] /\ z \in [1 .. n -> Nat]
      /\ SameCounts(v, z, n)
  BY <1>1, ArrangementsPermute
<1> HIDE DEF n, w
<1>4. PICK i, j : NextAt(z, w, n, i, j)
  BY <1>1
<1>5. Lex(z, w, n)
  BY <1>2, <1>3, <1>4, NextComesAfter
<1>6. ASSUME Lex(v, z, n) \/ v = z PROVE Lex(v, w, n)
  BY <1>2, <1>3, <1>5, <1>6, LexTransitive
<1>7. ASSUME Lex(v, w, n), ~ Lex(v, z, n), v # z PROVE FALSE
  <2>1. Lex(z, v, n)
    BY <1>2, <1>3, <1>7, LexTotal
  <2>2. v # w
    BY <1>2, <1>3, <1>7, LexIrreflexive
  <2>3. Lex(w, v, n)
    BY <1>2, <1>3, <1>4, <2>1, <2>2, NoneBetween
  <2>4. Lex(v, v, n)
    BY <1>2, <1>3, <1>7, <2>3, LexTransitive
  <2> QED
    BY <1>2, <1>3, <2>4, LexIrreflexive
<1> QED
  BY <1>6, <1>7 DEF TriedAt, n, w

\* The first permutation comes before everything else, the last after everything else.
LEMMA TriedFirstAndLast ==
  ASSUME PositionOK
  PROVE  /\ FirstVecEpi \in Arrangements
         /\ TriedHands(FirstVecEpi, TRUE) = {}
         /\ \A z \in Arrangements : ~ HasNextPermutation(z) =>
              TriedHands(z, FALSE) = { h \in Deals : Compatible(h) }
<1> DEFINE n == Len(UnknownCards)
<1>1. FirstVecEpi \in Arrangements /\ \A v \in Arrangements : ~ Lex(v, FirstVecEpi, n)
  BY FirstArrangement
<1>2. TriedHands(FirstVecEpi, TRUE) = {}
  BY <1>1 DEF TriedHands, TriedAt
<1>3. ASSUME NEW z \in Arrangements, ~ HasNextPermutation(z)
      PROVE  TriedHands(z, FALSE) = { h \in Deals : Compatible(h) }
  <2>1. ASSUME NEW v \in Arrangements PROVE TriedAt(v, z, FALSE, n)
    <3>1. n \in Nat
      BY UnknownIs
    <3>2. v \in [1 .. n -> Nat] /\ z \in [1 .. n -> Nat] /\ SameCounts(v, z, n)
      BY ArrangementsPermute
    <3> HIDE DEF n
    <3>3. ~ Lex(z, v, n)
      BY <1>3, <3>1, <3>2, LastPermutation
    <3> QED
      BY <3>1, <3>2, <3>3, LexTotal DEF TriedAt
  <2>2. TriedHands(z, FALSE) = { HandsOf(v) : v \in { w \in Arrangements : Compatible(HandsOf(w)) } }
    BY <2>1 DEF TriedHands
  <2>3. \A v \in Arrangements : HandsOf(v) \in Deals
    BY HandsOfArrangement
  <2>4. \A h \in Deals : \E v \in Arrangements : HandsOf(v) = h
    BY EveryDealIsArranged
  <2> QED
    BY <2>2, <2>3, <2>4
<1> QED
  BY <1>1, <1>2, <1>3

\* One permutation more is tried, for the first time.
LEMMA TriedHandsGrow ==
  ASSUME PositionOK, NEW z \in Arrangements
  PROVE  /\ HasNextPermutation(z) => /\ NextPermutation(z) \in Arrangements
                                     /\ TriedHands(NextPermutation(z), TRUE) = TriedHands(z, TRUE) \cup Passing(z)
         /\ TriedHands(z, FALSE) = TriedHands(z, TRUE) \cup Passing(z)
         /\ HandsOf(z) \notin TriedHands(z, TRUE)
<1> DEFINE n == Len(UnknownCards)
           T(a, valid) == { w \in Arrangements : TriedAt(w, a, valid, n) /\ Compatible(HandsOf(w)) }
<1>1. \A a, valid : TriedHands(a, valid) = { HandsOf(v) : v \in T(a, valid) }
  BY DEF TriedHands
<1>2. Passing(z) = { HandsOf(v) : v \in { w \in {z} : Compatible(HandsOf(w)) } }
  BY DEF Passing
<1>3. ASSUME HasNextPermutation(z)
      PROVE  /\ NextPermutation(z) \in Arrangements
             /\ TriedHands(NextPermutation(z), TRUE) = TriedHands(z, TRUE) \cup Passing(z)
  <2>1. NextPermutation(z) \in Arrangements
    BY <1>3, NextArrangement
  <2>2. T(NextPermutation(z), TRUE) = T(z, TRUE) \cup { w \in {z} : Compatible(HandsOf(w)) }
    BY <1>3, TriedOneMore
  <2> HIDE DEF T
  <2> QED
    BY <1>1, <1>2, <2>1, <2>2
<1>4. TriedHands(z, FALSE) = TriedHands(z, TRUE) \cup Passing(z)
  <2>1. T(z, FALSE) = T(z, TRUE) \cup { w \in {z} : Compatible(HandsOf(w)) }
    BY DEF TriedAt
  <2> HIDE DEF T
  <2> QED
    BY <1>1, <1>2, <2>1
<1>5. HandsOf(z) \notin TriedHands(z, TRUE)
  <2> SUFFICES ASSUME NEW v \in T(z, TRUE), HandsOf(v) = HandsOf(z) PROVE FALSE
    BY <1>1
  <2>1. v = z
    BY HandsOfDiffer
  <2>2. n \in Nat /\ z \in [1 .. n -> Nat]
    BY UnknownIs, ArrangementsPermute
  <2>3. ~ Lex(z, z, n)
    BY <2>2, LexIrreflexive
  <2> QED
    BY <2>1, <2>3 DEF TriedAt
<1> QED
  BY <1>3, <1>4, <1>5

\* the hands that were pulled are those that were tried and passed, each once
TriesAll == ~ pos.ai.cheating /\ Remaining(EpiFixed) <= AllHandsUpTo

TriesInOrder ==
  /\ vecepi \in Arrangements
  /\ b_valid = TRUE \/ (b_valid = FALSE /\ ~ HasNextPermutation(vecepi))
  /\ \A i, j \in DOMAIN pulled : pulled[i] = pulled[j] => i = j
  /\ ToSet(pulled) = TriedHands(vecepi, b_valid)
  /\ suggested # {} /\ AtOnce = {} => b_valid = FALSE

OrderInv == PulledInv /\ (TriesAll => TriesInOrder)

\* None of it depends on more than the position.
LEMMA OrderStays ==
  ASSUME pos' = pos
  PROVE  /\ Arrangements' = Arrangements /\ Deals' = Deals
         /\ \A z, valid : TriedHands(z, valid)' = TriedHands(z, valid)
         /\ TriesAll' = TriesAll
         /\ AtOnce' = AtOnce
<1>1. /\ EpiFixed' = EpiFixed /\ HandFixed' = HandFixed /\ UnknownCards' = UnknownCards /\ DealtTo' = DealtTo
      /\ AllowedCards' = AllowedCards
  BY PositionStays
<1>2. \A e : Remaining(e)' = Remaining(e)
  BY DEF Remaining
<1>3. \A v : HandsOf(v)' = HandsOf(v)
  BY <1>1 DEF HandsOf
<1>4. \A h : (Compatible(h)' <=> Compatible(h)) /\ (GoodHands(h)' <=> GoodHands(h))
  BY JudgementStays
<1>5. Arrangements' = Arrangements
  BY <1>1, <1>2 DEF Arrangements
<1>6. Deals' = Deals
  BY <1>2, <1>4 DEF Deals
<1>7. ASSUME NEW z, NEW valid PROVE TriedHands(z, valid)' = TriedHands(z, valid)
  <2>1. \A v : Compatible(HandsOf(v))' <=> Compatible(HandsOf(v))
    BY <1>3, <1>4
  <2> QED
    BY <1>1, <1>3, <1>5, <2>1 DEF TriedHands
<1>8. TriesAll' = TriesAll
  BY <1>1, <1>2 DEF TriesAll
<1>9. AtOnce' = AtOnce
  BY <1>1 DEF AtOnce, Advised, LooksForRufsau, RuffarbeCards
<1> QED
  BY <1>5, <1>6, <1>7, <1>8, <1>9

\* A sequence that repeats nothing does not repeat what is new, either.
LEMMA AppendNew ==
  ASSUME NEW X, NEW s \in Seq(X), NEW x \in X, \A i, j \in DOMAIN s : s[i] = s[j] => i = j, x \notin ToSet(s)
  PROVE  /\ \A i, j \in DOMAIN Append(s, x) : Append(s, x)[i] = Append(s, x)[j] => i = j
         /\ ToSet(Append(s, x)) = ToSet(s) \cup {x}
<1> DEFINE t == Append(s, x)
           n == Len(s)
<1>1. n \in Nat /\ DOMAIN s = 1 .. n /\ DOMAIN t = 1 .. n + 1
      /\ (\A i \in 1 .. n : t[i] = s[i]) /\ t[n + 1] = x
  OBVIOUS
<1>2. \A i \in 1 .. n : s[i] # x
  BY <1>1 DEF ToSet
<1> HIDE DEF t, n
<1>3. ASSUME NEW i \in 1 .. n + 1, NEW j \in 1 .. n + 1, t[i] = t[j] PROVE i = j
  <2>1. CASE i = n + 1 /\ j = n + 1
    BY <2>1
  <2>2. CASE i = n + 1 /\ j \in 1 .. n
    BY <1>1, <1>2, <1>3, <2>2
  <2>3. CASE j = n + 1 /\ i \in 1 .. n
    BY <1>1, <1>2, <1>3, <2>3
  <2>4. CASE i \in 1 .. n /\ j \in 1 .. n
    BY <1>1, <1>3, <2>4
  <2> QED
    BY <1>1, <2>1, <2>2, <2>3, <2>4
<1>4. ToSet(t) = ToSet(s) \cup {x}
  <2>1. ToSet(t) = { t[i] : i \in 1 .. n + 1 } /\ ToSet(s) = { s[i] : i \in 1 .. n }
    BY <1>1 DEF ToSet
  <2>2. \A y : y \in { t[i] : i \in 1 .. n + 1 } <=> y \in { s[i] : i \in 1 .. n } \/ y = x
    <3>1. n + 1 \in 1 .. n + 1 /\ \A i \in 1 .. n + 1 : i \in 1 .. n \/ i = n + 1
      BY <1>1
    <3>2. \A i \in 1 .. n : i \in 1 .. n + 1
      BY <1>1
    <3> QED
      BY <1>1, <3>1, <3>2
  <2> QED
    BY <2>1, <2>2
<1> QED
  BY <1>1, <1>3, <1>4 DEF t

\* Only the iterator adds hands and goes on.
LEMMA IteratorOrNot ==
  ASSUME [Next]_vars
  PROVE  /\ pos' = pos
         /\ \/ /\ vecepi' = vecepi /\ b_valid' = b_valid /\ pulled' = pulled
               /\ suggested' = suggested \/ AtOnce # {} \/ Exhausted
            \/ PullTrueHands \/ PullNextHands \/ SkipHands \/ PullSample
<1>1. CASE UNCHANGED vars
  BY <1>1 DEF vars
<1>2. CASE SuggestAtOnce
  BY <1>2 DEF SuggestAtOnce
<1>3. CASE SuggestBest
  BY <1>3 DEF SuggestBest
<1>4. CASE Suggested
  BY <1>4 DEF Suggested, vars
<1>5. CASE PullTrueHands \/ PullNextHands \/ SkipHands \/ PullSample
  BY <1>5, PulledOrNot
<1>6. CASE \E w \in Workers : BeginSearch(w) \/ SearchStep(w) \/ EnterResult(w)
  BY <1>6 DEF BeginSearch, SearchStep, EnterResult
<1> QED
  BY <1>1, <1>2, <1>3, <1>4, <1>5, <1>6 DEF Next

\* After one permutation more, too, exactly those that passed were pulled.
LEMMA TriesNextInOrder ==
  ASSUME PulledInv, TriesInOrder, PullNextHands \/ SkipHands, pos' = pos
  PROVE  TriesInOrder'
<1> DEFINE z == vecepi
           h == HandsOf(vecepi)
<1>1. /\ TryNextHands /\ suggested' = suggested
      /\ IF Compatible(h) THEN pulled' = Append(pulled, h) ELSE pulled' = pulled
  BY DEF PullNextHands, SkipHands, Pull
<1>2. /\ b_valid' = HasNextPermutation(z) /\ suggested = {} /\ b_valid = TRUE
      /\ vecepi' = IF HasNextPermutation(z) THEN NextPermutation(z) ELSE z
  BY <1>1 DEF TryNextHands, MayPull, TriesInOrder
<1>3. /\ z \in Arrangements /\ ToSet(pulled) = TriedHands(z, TRUE) /\ PositionOK
      /\ \A i, j \in DOMAIN pulled : pulled[i] = pulled[j] => i = j
  BY <1>2 DEF TriesInOrder, PulledInv
<1>4. /\ HasNextPermutation(z) => /\ NextPermutation(z) \in Arrangements
                                  /\ TriedHands(NextPermutation(z), TRUE) = TriedHands(z, TRUE) \cup Passing(z)
      /\ TriedHands(z, FALSE) = TriedHands(z, TRUE) \cup Passing(z)
      /\ h \notin TriedHands(z, TRUE)
  BY <1>3, TriedHandsGrow
<1>5. /\ \A i, j \in DOMAIN pulled' : pulled'[i] = pulled'[j] => i = j
      /\ ToSet(pulled') = TriedHands(z, TRUE) \cup Passing(z)
  <2>1. CASE Compatible(h)
    <3>1. h \in PossibleHands
      <4>1. z \in DealtTo
        BY DEF PulledInv
      <4>2. GoodHands(h)
        BY <1>3, <4>1, HandsOfAreGood
      <4> QED
        BY <2>1, <4>2 DEF PossibleHands, GoodHands
    <3>2. pulled \in Seq(PossibleHands) /\ h \notin ToSet(pulled) /\ pulled' = Append(pulled, h)
      BY <1>1, <1>3, <1>4, <2>1 DEF PulledInv
    <3>3. Passing(z) = {h}
      BY <2>1 DEF Passing
    <3> HIDE DEF h, z
    <3>4. /\ \A i, j \in DOMAIN Append(pulled, h) : Append(pulled, h)[i] = Append(pulled, h)[j] => i = j
          /\ ToSet(Append(pulled, h)) = ToSet(pulled) \cup {h}
      BY <1>3, <3>1, <3>2, AppendNew, ZenonT(60)
    <3> QED
      BY <1>3, <3>2, <3>3, <3>4
  <2>2. CASE ~ Compatible(h)
    BY <1>1, <1>3, <2>2 DEF Passing
  <2> QED
    BY <2>1, <2>2
<1>6. Arrangements' = Arrangements /\ \A a, valid : TriedHands(a, valid)' = TriedHands(a, valid)
  BY OrderStays
<1>7. suggested' = {}
  BY <1>1, <1>2
<1> HIDE DEF z, h
<1>8. CASE HasNextPermutation(z)
  <2>1. b_valid' = TRUE /\ vecepi' = NextPermutation(z)
    BY <1>2, <1>8
  <2>2. vecepi' \in Arrangements' /\ ToSet(pulled') = TriedHands(vecepi, b_valid)'
    <3>1. TriedHands(vecepi, b_valid)' = TriedHands(NextPermutation(z), TRUE)
      BY <1>6, <2>1
    <3> QED
      BY <1>4, <1>5, <1>6, <1>8, <2>1, <3>1
  <2> QED
    BY <1>5, <1>7, <2>1, <2>2 DEF TriesInOrder
<1>9. CASE ~ HasNextPermutation(z)
  <2>1. b_valid' = FALSE /\ vecepi' = z
    BY <1>2, <1>9
  <2>2. vecepi' \in Arrangements' /\ ToSet(pulled') = TriedHands(vecepi, b_valid)'
    <3>1. TriedHands(vecepi, b_valid)' = TriedHands(z, FALSE)
      BY <1>6, <2>1
    <3> QED
      BY <1>3, <1>4, <1>5, <1>6, <2>1, <3>1
  <2>3. ~ HasNextPermutation(vecepi')
    BY <1>9, <2>1
  <2> QED
    BY <1>5, <1>7, <2>1, <2>2, <2>3 DEF TriesInOrder
<1> QED
  BY <1>8, <1>9

\* Every step keeps the order.
LEMMA NextOrderInv == OrderInv /\ [Next]_vars => OrderInv'
<1> SUFFICES ASSUME OrderInv, [Next]_vars PROVE OrderInv'
  OBVIOUS
<1>1. PulledInv /\ PulledInv' /\ pos' = pos
  BY NextPulledInv, IteratorOrNot DEF OrderInv
<1>2. /\ Arrangements' = Arrangements /\ TriesAll' = TriesAll /\ AtOnce' = AtOnce
      /\ \A a, valid : TriedHands(a, valid)' = TriedHands(a, valid)
  BY <1>1, OrderStays
<1>3. ASSUME TriesAll PROVE TriesInOrder'
  <2>1. TriesInOrder
    BY <1>3 DEF OrderInv
  <2>2. ~ PullTrueHands /\ ~ PullSample
    <3>1. pos.ai.cheating = FALSE /\ ~ (Remaining(EpiFixed) > AllHandsUpTo)
      <4>1. ~ pos.ai.cheating /\ Remaining(EpiFixed) <= AllHandsUpTo
        BY <1>3 DEF TriesAll
      <4>2. Remaining(EpiFixed) \in Nat /\ AllHandsUpTo \in Nat
        <5>1. Remaining(EpiFixed) = Cardinality(pos.ahand[EpiFixed]) /\ pos.ahand[EpiFixed] \in SUBSET Deck
          BY <1>1, TrueHandsAreGood, EpiFixedSeat DEF PulledInv, HandFixed
        <5> QED
          BY <5>1, FourSeats, FS_Subset, FS_CardinalityType, SuggestAssumption
      <4>3. pos.ai.cheating \in BOOLEAN
        BY <1>1, SuggestAssumption DEF PulledInv, PositionOK
      <4> QED
        BY <4>1, <4>2, <4>3
    <3> QED
      BY <3>1 DEF PullTrueHands, PullSample
  <2>3. CASE PullNextHands \/ SkipHands
    BY <1>1, <2>1, <2>3, TriesNextInOrder
  <2>4. CASE /\ vecepi' = vecepi /\ b_valid' = b_valid /\ pulled' = pulled
             /\ suggested' = suggested \/ AtOnce # {} \/ Exhausted
    <3>1. suggested' # {} /\ AtOnce' = {} => b_valid' = FALSE
      <4>1. CASE suggested' = suggested
        BY <1>2, <2>1, <2>4, <4>1 DEF TriesInOrder
      <4>2. CASE Exhausted
        <5>1. ~ b_valid
          BY <1>3, <4>2 DEF Exhausted, TriesAll
        <5> QED
          BY <2>1, <2>4, <5>1 DEF TriesInOrder
      <4> QED
        BY <1>2, <2>4, <4>1, <4>2
    <3>2. ToSet(pulled') = TriedHands(vecepi, b_valid)'
      BY <1>2, <2>1, <2>4 DEF TriesInOrder
    <3> QED
      BY <1>2, <2>1, <2>4, <3>1, <3>2 DEF TriesInOrder
  <2> QED
    BY <2>2, <2>3, <2>4, IteratorOrNot
<1> QED
  BY <1>1, <1>2, <1>3 DEF OrderInv

\* The iterator always has tried what comes before the permutation it has come to.
LEMMA InOrderInv == Spec => []OrderInv
<1>1. Init => OrderInv
  <2> SUFFICES ASSUME Init PROVE OrderInv
    OBVIOUS
  <2>1. PositionOK /\ vecepi = FirstVecEpi /\ b_valid = TRUE /\ pulled = <<>> /\ suggested = {}
    BY DEF Init, PositionOK
  <2>2. PulledInv
    BY <2>1, FirstVecEpiDeals DEF PulledInv
  <2>3. ToSet(pulled) = {} /\ DOMAIN pulled = {}
    BY <2>1 DEF ToSet
  <2>4. TriesInOrder
    BY <2>1, <2>3, TriedFirstAndLast DEF TriesInOrder
  <2> QED
    BY <2>2, <2>4 DEF OrderInv
<1> QED
  BY <1>1, NextOrderInv, PTL DEF Spec

\* When a card is suggested, every hand with which the game could have gone as it has was
\* searched, the true one among them, and none twice (all_possible_hands).
THEOREM PossibleHandsAreSearchedOnce == Spec => []PossibleHandsOnce
<1>1. OrderInv => PossibleHandsOnce
  <2> SUFFICES ASSUME OrderInv, suggested # {}, AtOnce = {}, TriesAll
               PROVE  /\ \A i, j \in DOMAIN pulled : pulled[i] = pulled[j] => i = j
                      /\ ToSet(pulled) = { ahand \in Dealings : Compatible(ahand) }
                      /\ pos.ahand \in ToSet(pulled)
    BY DEF PossibleHandsOnce, TriesAll
  <2>1. PositionOK /\ TriesInOrder
    BY DEF OrderInv, PulledInv
  <2>2. b_valid = FALSE /\ vecepi \in Arrangements /\ ~ HasNextPermutation(vecepi)
    BY <2>1 DEF TriesInOrder
  <2>3. ToSet(pulled) = { h \in Deals : Compatible(h) }
    BY <2>1, <2>2, TriedFirstAndLast DEF TriesInOrder
  <2>4. pos.ahand \in Deals /\ Compatible(pos.ahand)
    BY <2>1, TrueHandsAreGood DEF Deals, GoodHands, PositionOK, PlayedByTheRules
  <2>5. Dealings = Deals
    BY <2>1, DealingsAreDeals
  <2> QED
    BY <2>1, <2>3, <2>4, <2>5 DEF TriesInOrder
<1> QED
  BY <1>1, InOrderInv, PTL
===============================================================================
