--------------------------- MODULE StichOrderProofs ---------------------------
(***************************************************************************)
(* Theorems about the winner of a Stich (StichOrder), for every order of   *)
(* the cards and a Stich of any size.  The two descriptions of an order    *)
(* are joined by the place of a Trumpf in the list: it is computed from    *)
(* the card, it is where the list has the card, and compare_cards agrees   *)
(* with it.                                                                *)
(***************************************************************************)
EXTENDS StichOrder, FiniteSetTheorems, SequenceTheorems, TLAPS

(***************************************************************************)
(* Numbers of Farben and Schlaege.                                         *)
(***************************************************************************)
\* An element that a sequence has once stands where it is found.
LEMMA FoundOnce ==
  ASSUME NEW s, Len(s) \in Nat, \A i, j \in 1 .. Len(s) : s[j] = s[i] => j = i
  PROVE  /\ \A i \in 1 .. Len(s) : s[i] \in Elements(s) /\ Position(s, s[i]) = i
         /\ \A x \in Elements(s) : Position(s, x) \in 1 .. Len(s) /\ s[Position(s, x)] = x
BY DEF Position, Elements

\* The places of the Farben.
LEMMA FarbenNumbers ==
  /\ Len(Farben) = 4
  /\ Elements(Farben) = {"Eichel", "Gras", "Herz", "Schelln"}
  /\ \A i \in 1 .. 4 : Farben[i] \in Elements(Farben) /\ Position(Farben, Farben[i]) = i
  /\ \A f \in Elements(Farben) : Position(Farben, f) \in 1 .. 4 /\ Farben[Position(Farben, f)] = f
<1>1. Len(Farben) = 4
  BY DEF Farben
<1>2. \A i, j \in 1 .. Len(Farben) : Farben[j] = Farben[i] => j = i
  BY DEF Farben
<1>3. Elements(Farben) = { Farben[i] : i \in 1 .. 4 }
  BY <1>1 DEF Elements
<1>4. { Farben[i] : i \in 1 .. 4 } = {"Eichel", "Gras", "Herz", "Schelln"}
  BY DEF Farben
<1>5. Len(Farben) \in Nat
  BY <1>1
<1>6. /\ \A i \in 1 .. Len(Farben) : Farben[i] \in Elements(Farben) /\ Position(Farben, Farben[i]) = i
      /\ \A f \in Elements(Farben) :
           Position(Farben, f) \in 1 .. Len(Farben) /\ Farben[Position(Farben, f)] = f
  BY <1>2, <1>5, FoundOnce
<1> QED
  BY <1>1, <1>3, <1>4, <1>6

\* The Schlaege.
LEMMA SchlaegeNames ==
  Elements(Schlaege) = {"Ass", "Zehn", "Koenig", "Ober", "Unter", "S9", "S8", "S7"}
<1>1. Elements(Schlaege) = { Schlaege[i] : i \in 1 .. 8 }
  BY DEF Elements, Schlaege
<1> QED
  BY <1>1 DEF Schlaege

\* The places of the Schlaege in the order of the Farbe that is Trumpf.
LEMMA SimpleNumbers ==
  /\ Position(Simple, "S7") = 1 /\ Position(Simple, "S8") = 2
  /\ Position(Simple, "S9") = 3 /\ Position(Simple, "Unter") = 4
  /\ Position(Simple, "Ober") = 5 /\ Position(Simple, "Koenig") = 6
  /\ Position(Simple, "Zehn") = 7 /\ Position(Simple, "Ass") = 8
<1>1. Len(Simple) = 8 /\ \A i, j \in 1 .. Len(Simple) : Simple[j] = Simple[i] => j = i
  BY DEF Simple
<1>2. \A i \in 1 .. 8 : Position(Simple, Simple[i]) = i
  <2>1. Len(Simple) \in Nat
    BY <1>1
  <2>2. \A i \in 1 .. Len(Simple) : Position(Simple, Simple[i]) = i
    BY <1>1, <2>1, FoundOnce
  <2> QED
    BY <1>1, <2>2
<1>3. /\ Simple[1] = "S7" /\ Simple[2] = "S8" /\ Simple[3] = "S9" /\ Simple[4] = "Unter"
      /\ Simple[5] = "Ober" /\ Simple[6] = "Koenig" /\ Simple[7] = "Zehn" /\ Simple[8] = "Ass"
  BY DEF Simple
<1> QED
  BY <1>2, <1>3

\* The Schlaege that are Trumpf stand in their order, and Less looks at the first of
\* them that one of the cards has.
LEMMA LessBySchlag ==
  ASSUME NEW d, Len(d.schlaege) \in Nat, NEW a, NEW b, NEW m \in 1 .. Len(d.schlaege),
         d.schlaege[m] \in {a.schlag, b.schlag},
         \A k \in 1 .. m - 1 : d.schlaege[k] \notin {a.schlag, b.schlag}
  PROVE  Less(d, a, b) <=> SchlagLess(d.schlaege[m], a, b)
<1> DEFINE OK(i) == /\ i <= Len(d.schlaege) => d.schlaege[i] \in {a.schlag, b.schlag}
                    /\ \A j \in 1 .. i - 1 : d.schlaege[j] \notin {a.schlag, b.schlag}
<1>1. m \in 1 .. Len(d.schlaege) + 1 /\ OK(m)
  OBVIOUS
<1>2. \A i \in 1 .. Len(d.schlaege) + 1 : OK(i) => i = m
  OBVIOUS
<1>3. Deciding(d, a, b) = m
  BY <1>1, <1>2 DEF Deciding
<1> QED
  BY <1>3 DEF Less

\* Without such a Schlag Less looks at the Farben.
LEMMA LessByFarbe ==
  ASSUME NEW d, Len(d.schlaege) \in Nat, NEW a, NEW b,
         \A k \in 1 .. Len(d.schlaege) : d.schlaege[k] \notin {a.schlag, b.schlag}
  PROVE  Less(d, a, b) <=> FarbeLess(d, a, b)
<1> DEFINE L == Len(d.schlaege)
           OK(i) == /\ i <= L => d.schlaege[i] \in {a.schlag, b.schlag}
                    /\ \A j \in 1 .. i - 1 : d.schlaege[j] \notin {a.schlag, b.schlag}
<1>1. L + 1 \in 1 .. L + 1 /\ OK(L + 1)
  OBVIOUS
<1>2. \A i \in 1 .. L + 1 : OK(i) => i = L + 1
  OBVIOUS
<1>3. Deciding(d, a, b) = L + 1
  BY <1>1, <1>2 DEF Deciding
<1> QED
  BY <1>3 DEF Less

(***************************************************************************)
(* The Farbe that is Trumpf, in descending order.                          *)
(***************************************************************************)
\* one more Schlag of the list
NextUpto(d, i, t) ==
  IF Schlaege[i] \in Elements(d.schlaege) THEN t ELSE Append(t, Card(d.farbe, Schlaege[i]))

\* the definition of upto in FarbeDescending
IsUpto(d, upto) ==
  upto = [i \in 0 .. Len(Schlaege) |->
            IF i = 0 THEN <<>>
            ELSE IF Schlaege[i] \in Elements(d.schlaege) THEN upto[i - 1]
            ELSE Append(upto[i - 1], Card(d.farbe, Schlaege[i]))]

\* The recursion is well defined.
LEMMA UptoExists ==
  ASSUME NEW d
  PROVE  \E upto : IsUpto(d, upto)
<1> DEFINE t1 == NextUpto(d, 1, <<>>)
           t2 == NextUpto(d, 2, t1)
           t3 == NextUpto(d, 3, t2)
           t4 == NextUpto(d, 4, t3)
           t5 == NextUpto(d, 5, t4)
           t6 == NextUpto(d, 6, t5)
           t7 == NextUpto(d, 7, t6)
           t8 == NextUpto(d, 8, t7)
           upto == [i \in 0 .. 8 |->
                      IF i = 0 THEN <<>> ELSE IF i = 1 THEN t1 ELSE IF i = 2 THEN t2
                      ELSE IF i = 3 THEN t3 ELSE IF i = 4 THEN t4 ELSE IF i = 5 THEN t5
                      ELSE IF i = 6 THEN t6 ELSE IF i = 7 THEN t7 ELSE t8]
<1>1. /\ t1 = NextUpto(d, 1, <<>>) /\ t2 = NextUpto(d, 2, t1) /\ t3 = NextUpto(d, 3, t2)
      /\ t4 = NextUpto(d, 4, t3) /\ t5 = NextUpto(d, 5, t4) /\ t6 = NextUpto(d, 6, t5)
      /\ t7 = NextUpto(d, 7, t6) /\ t8 = NextUpto(d, 8, t7)
  OBVIOUS
<1> HIDE DEF t1, t2, t3, t4, t5, t6, t7, t8
<1>2. \A i \in 1 .. 8 : upto[i] = NextUpto(d, i, upto[i - 1])
  <2>1. upto[1] = t1 /\ upto[2] = t2 /\ upto[3] = t3 /\ upto[4] = t4
    OBVIOUS
  <2>2. upto[0] = <<>> /\ upto[5] = t5 /\ upto[6] = t6 /\ upto[7] = t7 /\ upto[8] = t8
    OBVIOUS
  <2> HIDE DEF upto
  <2>3. upto[1] = NextUpto(d, 1, upto[0]) /\ upto[2] = NextUpto(d, 2, upto[1])
    BY <1>1, <2>1, <2>2
  <2>4. upto[3] = NextUpto(d, 3, upto[2]) /\ upto[4] = NextUpto(d, 4, upto[3])
    BY <1>1, <2>1, <2>2
  <2>5. upto[5] = NextUpto(d, 5, upto[4]) /\ upto[6] = NextUpto(d, 6, upto[5])
    BY <1>1, <2>1, <2>2
  <2>6. upto[7] = NextUpto(d, 7, upto[6]) /\ upto[8] = NextUpto(d, 8, upto[7])
    BY <1>1, <2>1, <2>2
  <2>7. ASSUME NEW i \in 1 .. 8
        PROVE  upto[i] = NextUpto(d, i, upto[i - 1])
    <3>1. i = 1 \/ i = 2 \/ i = 3 \/ i = 4 \/ i = 5 \/ i = 6 \/ i = 7 \/ i = 8
      OBVIOUS
    <3> QED
      BY <3>1, <2>3, <2>4, <2>5, <2>6
  <2> QED
    BY <2>7
<1>3. upto[0] = <<>> /\ upto = [i \in 0 .. 8 |-> upto[i]]
  OBVIOUS
<1> HIDE DEF upto
<1>4. ASSUME NEW i \in 0 .. 8
      PROVE  upto[i] = IF i = 0 THEN <<>>
                       ELSE IF Schlaege[i] \in Elements(d.schlaege) THEN upto[i - 1]
                       ELSE Append(upto[i - 1], Card(d.farbe, Schlaege[i]))
  <2>1. CASE i = 0
    BY <1>3, <2>1
  <2>2. CASE i \in 1 .. 8
    BY <1>2, <2>2 DEF NextUpto
  <2> QED
    BY <2>1, <2>2
<1>5. Len(Schlaege) = 8
  BY DEF Schlaege
<1>6. IsUpto(d, upto)
  BY <1>3, <1>4, <1>5 DEF IsUpto
<1> QED
  BY <1>6

\* Its values.
LEMMA UptoStep ==
  ASSUME NEW d, NEW upto, IsUpto(d, upto), Len(Schlaege) = 8
  PROVE  upto[0] = <<>> /\ \A i \in 1 .. 8 : upto[i] = NextUpto(d, i, upto[i - 1])
<1>1. upto[0] = <<>>
  BY DEF IsUpto
<1>2. ASSUME NEW i \in 1 .. 8
      PROVE  upto[i] = NextUpto(d, i, upto[i - 1])
  <2>1. i \in 0 .. 8 /\ i # 0
    OBVIOUS
  <2>2. upto[i] = IF Schlaege[i] \in Elements(d.schlaege) THEN upto[i - 1]
                  ELSE Append(upto[i - 1], Card(d.farbe, Schlaege[i]))
    BY <2>1 DEF IsUpto
  <2> QED
    BY <2>2 DEF NextUpto
<1> QED
  BY <1>1, <1>2

\* Appending goes on with a list.
LEMMA AppendNext ==
  ASSUME NEW F, NEW n \in Nat
  PROVE  Append([k \in 1 .. n |-> F[k]], F[n + 1]) = [k \in 1 .. n + 1 |-> F[k]]
OBVIOUS

\* the Schlaege that are not Trumpf of their own, highest first
OtherSchlaege(d) ==
  IF d.schlaege = <<"Ober", "Unter">> THEN <<"Ass", "Zehn", "Koenig", "S9", "S8", "S7">>
  ELSE IF d.schlaege = <<"Unter">> THEN <<"Ass", "Zehn", "Koenig", "Ober", "S9", "S8", "S7">>
  ELSE <<"Ass", "Zehn", "Koenig", "Unter", "S9", "S8", "S7">>

\* The filter leaves these Schlaege.
LEMMA FarbeDescendingIs ==
  ASSUME NEW d \in Deciders, d.farbe # NoFarbe
  PROVE  FarbeDescending(d) =
           [k \in 1 .. Len(OtherSchlaege(d)) |-> Card(d.farbe, OtherSchlaege(d)[k])]
<1> DEFINE upto == CHOOSE upto : IsUpto(d, upto)
<1>1. IsUpto(d, upto)
  BY UptoExists
<1>2. FarbeDescending(d) = upto[8]
  <2>1. Len(Schlaege) = 8
    BY DEF Schlaege
  <2> QED
    BY <2>1 DEF FarbeDescending, IsUpto
<1> HIDE DEF upto
<1>3. upto[0] = <<>> /\ \A i \in 1 .. 8 : upto[i] = NextUpto(d, i, upto[i - 1])
  <2>1. Len(Schlaege) = 8
    BY DEF Schlaege
  <2> QED
    BY <1>1, <2>1, UptoStep
<1>4. /\ upto[1] = NextUpto(d, 1, upto[0]) /\ upto[2] = NextUpto(d, 2, upto[1])
      /\ upto[3] = NextUpto(d, 3, upto[2]) /\ upto[4] = NextUpto(d, 4, upto[3])
      /\ upto[5] = NextUpto(d, 5, upto[4]) /\ upto[6] = NextUpto(d, 6, upto[5])
      /\ upto[7] = NextUpto(d, 7, upto[6]) /\ upto[8] = NextUpto(d, 8, upto[7])
  BY <1>3
<1>5. /\ Schlaege[1] = "Ass" /\ Schlaege[2] = "Zehn" /\ Schlaege[3] = "Koenig" /\ Schlaege[4] = "Ober"
      /\ Schlaege[5] = "Unter" /\ Schlaege[6] = "S9" /\ Schlaege[7] = "S8" /\ Schlaege[8] = "S7"
  BY DEF Schlaege
<1> DEFINE other == OtherSchlaege(d)
           F == [k \in 1 .. Len(other) |-> Card(d.farbe, other[k])]
<1>6. \A n \in Nat : Append([k \in 1 .. n |-> F[k]], F[n + 1]) = [k \in 1 .. n + 1 |-> F[k]]
  BY AppendNext
<1>7. upto[0] = [k \in 1 .. 0 |-> F[k]]
  BY <1>3
<1>8. CASE d.schlaege = <<"Ober", "Unter">>
  <2>1. Elements(d.schlaege) = {"Ober", "Unter"}
    BY <1>8 DEF Elements
  <2>2. /\ Len(other) = 6 /\ other[1] = "Ass" /\ other[2] = "Zehn" /\ other[3] = "Koenig"
      /\ other[4] = "S9" /\ other[5] = "S8" /\ other[6] = "S7"
    BY <1>8 DEF OtherSchlaege
  <2>3. /\ F[1] = Card(d.farbe, "Ass") /\ F[2] = Card(d.farbe, "Zehn")
      /\ F[3] = Card(d.farbe, "Koenig") /\ F[4] = Card(d.farbe, "S9")
      /\ F[5] = Card(d.farbe, "S8") /\ F[6] = Card(d.farbe, "S7")
    BY <2>2, SMTT(60)
  <2> HIDE DEF F, other
  <2>4. upto[1] = Append(upto[0], F[1])
    BY <1>4, <1>5, <2>1, <2>3 DEF NextUpto
  <2>5. upto[2] = Append(upto[1], F[2])
    BY <1>4, <1>5, <2>1, <2>3 DEF NextUpto
  <2>6. upto[3] = Append(upto[2], F[3])
    BY <1>4, <1>5, <2>1, <2>3 DEF NextUpto
  <2>7. upto[4] = upto[3]
    BY <1>4, <1>5, <2>1 DEF NextUpto
  <2>8. upto[5] = upto[4]
    BY <1>4, <1>5, <2>1 DEF NextUpto
  <2>9. upto[6] = Append(upto[5], F[4])
    BY <1>4, <1>5, <2>1, <2>3 DEF NextUpto
  <2>10. upto[7] = Append(upto[6], F[5])
    BY <1>4, <1>5, <2>1, <2>3 DEF NextUpto
  <2>11. upto[8] = Append(upto[7], F[6])
    BY <1>4, <1>5, <2>1, <2>3 DEF NextUpto
  <2>12. upto[2] = [k \in 1 .. 2 |-> F[k]]
    BY <1>6, <1>7, <2>4, <2>5
  <2>13. upto[4] = [k \in 1 .. 3 |-> F[k]]
    BY <1>6, <2>12, <2>6, <2>7
  <2>14. upto[6] = [k \in 1 .. 4 |-> F[k]]
    BY <1>6, <2>13, <2>8, <2>9
  <2>15. upto[8] = [k \in 1 .. 6 |-> F[k]]
    BY <1>6, <2>14, <2>10, <2>11
  <2>16. FarbeDescending(d) = F
    BY <1>2, <2>2, <2>15 DEF F
  <2> QED
    BY <2>16 DEF F, other
<1>9. CASE d.schlaege = <<"Unter">>
  <2>1. Elements(d.schlaege) = {"Unter"}
    BY <1>9 DEF Elements
  <2>2. /\ Len(other) = 7 /\ other[1] = "Ass" /\ other[2] = "Zehn" /\ other[3] = "Koenig"
      /\ other[4] = "Ober" /\ other[5] = "S9" /\ other[6] = "S8" /\ other[7] = "S7"
    BY <1>9 DEF OtherSchlaege
  <2>3. /\ F[1] = Card(d.farbe, "Ass") /\ F[2] = Card(d.farbe, "Zehn")
      /\ F[3] = Card(d.farbe, "Koenig") /\ F[4] = Card(d.farbe, "Ober")
      /\ F[5] = Card(d.farbe, "S9") /\ F[6] = Card(d.farbe, "S8") /\ F[7] = Card(d.farbe, "S7")
    BY <2>2, SMTT(60)
  <2> HIDE DEF F, other
  <2>4. upto[1] = Append(upto[0], F[1])
    BY <1>4, <1>5, <2>1, <2>3 DEF NextUpto
  <2>5. upto[2] = Append(upto[1], F[2])
    BY <1>4, <1>5, <2>1, <2>3 DEF NextUpto
  <2>6. upto[3] = Append(upto[2], F[3])
    BY <1>4, <1>5, <2>1, <2>3 DEF NextUpto
  <2>7. upto[4] = Append(upto[3], F[4])
    BY <1>4, <1>5, <2>1, <2>3 DEF NextUpto
  <2>8. upto[5] = upto[4]
    BY <1>4, <1>5, <2>1 DEF NextUpto
  <2>9. upto[6] = Append(upto[5], F[5])
    BY <1>4, <1>5, <2>1, <2>3 DEF NextUpto
  <2>10. upto[7] = Append(upto[6], F[6])
    BY <1>4, <1>5, <2>1, <2>3 DEF NextUpto
  <2>11. upto[8] = Append(upto[7], F[7])
    BY <1>4, <1>5, <2>1, <2>3 DEF NextUpto
  <2>12. upto[2] = [k \in 1 .. 2 |-> F[k]]
    BY <1>6, <1>7, <2>4, <2>5
  <2>13. upto[4] = [k \in 1 .. 4 |-> F[k]]
    BY <1>6, <2>12, <2>6, <2>7
  <2>14. upto[6] = [k \in 1 .. 5 |-> F[k]]
    BY <1>6, <2>13, <2>8, <2>9
  <2>15. upto[8] = [k \in 1 .. 7 |-> F[k]]
    BY <1>6, <2>14, <2>10, <2>11
  <2>16. FarbeDescending(d) = F
    BY <1>2, <2>2, <2>15 DEF F
  <2> QED
    BY <2>16 DEF F, other
<1>10. CASE d.schlaege = <<"Ober">>
  <2>1. Elements(d.schlaege) = {"Ober"}
    BY <1>10 DEF Elements
  <2>2. /\ Len(other) = 7 /\ other[1] = "Ass" /\ other[2] = "Zehn" /\ other[3] = "Koenig"
      /\ other[4] = "Unter" /\ other[5] = "S9" /\ other[6] = "S8" /\ other[7] = "S7"
    BY <1>10 DEF OtherSchlaege
  <2>3. /\ F[1] = Card(d.farbe, "Ass") /\ F[2] = Card(d.farbe, "Zehn")
      /\ F[3] = Card(d.farbe, "Koenig") /\ F[4] = Card(d.farbe, "Unter")
      /\ F[5] = Card(d.farbe, "S9") /\ F[6] = Card(d.farbe, "S8") /\ F[7] = Card(d.farbe, "S7")
    BY <2>2, SMTT(60)
  <2> HIDE DEF F, other
  <2>4. upto[1] = Append(upto[0], F[1])
    BY <1>4, <1>5, <2>1, <2>3 DEF NextUpto
  <2>5. upto[2] = Append(upto[1], F[2])
    BY <1>4, <1>5, <2>1, <2>3 DEF NextUpto
  <2>6. upto[3] = Append(upto[2], F[3])
    BY <1>4, <1>5, <2>1, <2>3 DEF NextUpto
  <2>7. upto[4] = upto[3]
    BY <1>4, <1>5, <2>1 DEF NextUpto
  <2>8. upto[5] = Append(upto[4], F[4])
    BY <1>4, <1>5, <2>1, <2>3 DEF NextUpto
  <2>9. upto[6] = Append(upto[5], F[5])
    BY <1>4, <1>5, <2>1, <2>3 DEF NextUpto
  <2>10. upto[7] = Append(upto[6], F[6])
    BY <1>4, <1>5, <2>1, <2>3 DEF NextUpto
  <2>11. upto[8] = Append(upto[7], F[7])
    BY <1>4, <1>5, <2>1, <2>3 DEF NextUpto
  <2>12. upto[2] = [k \in 1 .. 2 |-> F[k]]
    BY <1>6, <1>7, <2>4, <2>5
  <2>13. upto[4] = [k \in 1 .. 3 |-> F[k]]
    BY <1>6, <2>12, <2>6, <2>7
  <2>14. upto[6] = [k \in 1 .. 5 |-> F[k]]
    BY <1>6, <2>13, <2>8, <2>9
  <2>15. upto[8] = [k \in 1 .. 7 |-> F[k]]
    BY <1>6, <2>14, <2>10, <2>11
  <2>16. FarbeDescending(d) = F
    BY <1>2, <2>2, <2>15 DEF F
  <2> QED
    BY <2>16 DEF F, other
<1> QED
  BY <1>8, <1>9, <1>10 DEF Deciders, SoloOf, WenzOf, GeierOf, BettelDecider

(***************************************************************************)
(* The place of a Trumpf in the list.                                      *)
(***************************************************************************)
\* The Schlaege that are Trumpf of their own.
LEMMA OwnSchlaege ==
  ASSUME NEW d \in Deciders
  PROVE  /\ Len(d.schlaege) \in 0 .. 2
         /\ d.farbe # NoFarbe => Len(d.schlaege) # 0
         /\ \A m \in 1 .. Len(d.schlaege) :
              /\ d.schlaege[m] \in Elements(Schlaege)
              /\ d.schlaege[m] \in Elements(d.schlaege)
              /\ Position(d.schlaege, d.schlaege[m]) = m
         /\ \A x \in Elements(d.schlaege) :
              /\ Position(d.schlaege, x) \in 1 .. Len(d.schlaege)
              /\ d.schlaege[Position(d.schlaege, x)] = x
<1>1. d.schlaege \in {<<>>, <<"Unter">>, <<"Ober">>, <<"Ober", "Unter">>}
  BY DEF Deciders, SoloOf, WenzOf, GeierOf, BettelDecider
<1>2. d.farbe # NoFarbe => d.schlaege # <<>>
  BY DEF Deciders, SoloOf, WenzOf, GeierOf, BettelDecider
<1>3. Len(d.schlaege) \in 0 .. 2 /\ (d.schlaege # <<>> => Len(d.schlaege) # 0)
  BY <1>1
<1>4. \A i, j \in 1 .. Len(d.schlaege) : d.schlaege[j] = d.schlaege[i] => j = i
  BY <1>1
<1>5. \A m \in 1 .. Len(d.schlaege) : d.schlaege[m] \in {"Ober", "Unter"}
  BY <1>1
<1> QED
  BY <1>2, <1>3, <1>4, <1>5, FoundOnce, SchlaegeNames

\* The other Schlaege: they stand in the order of the Farbe.
LEMMA Others ==
  ASSUME NEW d \in Deciders, d.farbe # NoFarbe
  PROVE  LET other == OtherSchlaege(d)
         IN  /\ Len(other) \in Nat
             /\ \A k \in 1 .. Len(other) :
                  /\ other[k] \in Elements(Schlaege) \ Elements(d.schlaege)
                  /\ Position(other, other[k]) = k
             /\ \A x \in Elements(Schlaege) \ Elements(d.schlaege) :
                  /\ Position(other, x) \in 1 .. Len(other)
                  /\ other[Position(other, x)] = x
             /\ \A x, y \in Elements(Schlaege) \ Elements(d.schlaege) :
                  Position(other, x) < Position(other, y) <=> Position(Simple, y) < Position(Simple, x)
<1> DEFINE other == OtherSchlaege(d)
<1>1. d.schlaege \in {<<"Unter">>, <<"Ober">>, <<"Ober", "Unter">>}
  BY DEF Deciders, SoloOf, WenzOf, GeierOf, BettelDecider
<1>2. /\ Len(other) \in {6, 7}
      /\ \A i, j \in 1 .. Len(other) : other[j] = other[i] => j = i
      /\ \A i, j \in 1 .. Len(other) : i < j => Position(Simple, other[j]) < Position(Simple, other[i])
      /\ Elements(other) = Elements(Schlaege) \ Elements(d.schlaege)
  <2>1. CASE d.schlaege = <<"Ober", "Unter">>
    <3>1. other = <<"Ass", "Zehn", "Koenig", "S9", "S8", "S7">>
      BY <2>1 DEF OtherSchlaege
    <3>2. Elements(d.schlaege) = {"Ober", "Unter"}
      BY <2>1 DEF Elements
    <3> HIDE DEF other
    <3>3. Len(other) = 6
      BY <3>1
    <3>4. Elements(other) = { other[i] : i \in 1 .. 6 }
      BY <3>3 DEF Elements
    <3>5. Elements(other) = {"Ass", "Zehn", "Koenig", "S9", "S8", "S7"}
      BY <3>1, <3>4
    <3>6. \A i, j \in 1 .. 6 : other[j] = other[i] => j = i
      BY <3>1
    <3>7. \A i \in 1 .. 6 : Position(Simple, other[i]) = IF i <= 3 THEN 9 - i ELSE 7 - i
      BY <3>1, SimpleNumbers
    <3>8. \A i, j \in 1 .. 6 : i < j => Position(Simple, other[j]) < Position(Simple, other[i])
      BY <3>7
    <3> QED
      BY <3>2, <3>3, <3>5, <3>6, <3>8, SchlaegeNames
  <2>2. CASE d.schlaege = <<"Unter">>
    <3>1. other = <<"Ass", "Zehn", "Koenig", "Ober", "S9", "S8", "S7">>
      BY <2>2 DEF OtherSchlaege
    <3>2. Elements(d.schlaege) = {"Unter"}
      BY <2>2 DEF Elements
    <3> HIDE DEF other
    <3>3. Len(other) = 7
      BY <3>1
    <3>4. Elements(other) = { other[i] : i \in 1 .. 7 }
      BY <3>3 DEF Elements
    <3>5. Elements(other) = {"Ass", "Zehn", "Koenig", "Ober", "S9", "S8", "S7"}
      BY <3>1, <3>4
    <3>6. \A i, j \in 1 .. 7 : other[j] = other[i] => j = i
      BY <3>1
    <3>7. \A i \in 1 .. 7 : Position(Simple, other[i]) = IF i <= 4 THEN 9 - i ELSE 8 - i
      BY <3>1, SimpleNumbers
    <3>8. \A i, j \in 1 .. 7 : i < j => Position(Simple, other[j]) < Position(Simple, other[i])
      BY <3>7
    <3> QED
      BY <3>2, <3>3, <3>5, <3>6, <3>8, SchlaegeNames
  <2>3. CASE d.schlaege = <<"Ober">>
    <3>1. other = <<"Ass", "Zehn", "Koenig", "Unter", "S9", "S8", "S7">>
      BY <2>3 DEF OtherSchlaege
    <3>2. Elements(d.schlaege) = {"Ober"}
      BY <2>3 DEF Elements
    <3> HIDE DEF other
    <3>3. Len(other) = 7
      BY <3>1
    <3>4. Elements(other) = { other[i] : i \in 1 .. 7 }
      BY <3>3 DEF Elements
    <3>5. Elements(other) = {"Ass", "Zehn", "Koenig", "Unter", "S9", "S8", "S7"}
      BY <3>1, <3>4
    <3>6. \A i, j \in 1 .. 7 : other[j] = other[i] => j = i
      BY <3>1
    <3>7. \A i \in 1 .. 7 : Position(Simple, other[i]) = IF i <= 3 THEN 9 - i ELSE 8 - i
      BY <3>1, SimpleNumbers
    <3>8. \A i, j \in 1 .. 7 : i < j => Position(Simple, other[j]) < Position(Simple, other[i])
      BY <3>7
    <3> QED
      BY <3>2, <3>3, <3>5, <3>6, <3>8, SchlaegeNames
  <2> QED
    BY <1>1, <2>1, <2>2, <2>3
<1> HIDE DEF other
<1>3. /\ \A i \in 1 .. Len(other) : other[i] \in Elements(other) /\ Position(other, other[i]) = i
      /\ \A x \in Elements(other) : Position(other, x) \in 1 .. Len(other) /\ other[Position(other, x)] = x
  <2>1. Len(other) \in Nat
    BY <1>2
  <2> QED
    BY <1>2, <2>1, FoundOnce
<1>4. ASSUME NEW x \in Elements(other), NEW y \in Elements(other)
      PROVE  Position(other, x) < Position(other, y) <=> Position(Simple, y) < Position(Simple, x)
  <2>1. PICK i \in 1 .. Len(other) : i = Position(other, x) /\ other[i] = x
    BY <1>3
  <2>2. PICK j \in 1 .. Len(other) : j = Position(other, y) /\ other[j] = y
    BY <1>3
  <2>3. Position(Simple, x) \in Nat /\ Position(Simple, y) \in Nat
    BY <1>2, SchlaegeNames, SimpleNumbers
  <2>4. i \in Nat /\ j \in Nat
    BY <1>2
  <2>5. CASE i < j
    BY <1>2, <2>1, <2>2, <2>3, <2>4, <2>5
  <2>6. CASE j < i
    BY <1>2, <2>1, <2>2, <2>3, <2>4, <2>6
  <2>7. CASE i = j
    BY <1>2, <2>1, <2>2, <2>3, <2>4, <2>7
  <2> QED
    BY <2>4, <2>5, <2>6, <2>7
<1> QED
  BY <1>2, <1>3, <1>4 DEF other

\* where the list has a Trumpf: first the Schlaege with their four Farben, then the Farbe
Place(d, card) ==
  IF card.schlag \in Elements(d.schlaege)
  THEN 4 * (Position(d.schlaege, card.schlag) - 1) + Position(Farben, card.farbe)
  ELSE 4 * Len(d.schlaege) + Position(OtherSchlaege(d), card.schlag)

\* the cards of the Farbe in the list
CountFarbe(d) == IF d.farbe = NoFarbe THEN 0 ELSE Len(OtherSchlaege(d))

\* One list behind another.
LEMMA Behind ==
  ASSUME NEW n \in Nat, NEW m \in Nat, NEW f, NEW g,
         f = [i \in 1 .. n |-> f[i]], g = [i \in 1 .. m |-> g[i]]
  PROVE  /\ Len(f \o g) = n + m
         /\ \A i \in 1 .. n : (f \o g)[i] = f[i]
         /\ \A i \in 1 .. m : (f \o g)[n + i] = g[i]
<1> DEFINE T == { f[i] : i \in 1 .. n } \cup { g[i] : i \in 1 .. m }
<1>1. f \in Seq(T) /\ Len(f) = n
  OBVIOUS
<1>2. g \in Seq(T) /\ Len(g) = m
  OBVIOUS
<1> HIDE DEF T
<1> QED
  BY <1>1, <1>2, ConcatProperties

\* The list, place by place.
LEMMA ListByPlace ==
  ASSUME NEW d \in Deciders
  PROVE  LET listed == TrumpfsDescending(d)
             L == Len(d.schlaege)
         IN  /\ Len(listed) = 4 * L + CountFarbe(d)
             /\ \A m \in 1 .. L : \A p \in 1 .. 4 :
                  listed[4 * (m - 1) + p] = Card(Farben[p], d.schlaege[m])
             /\ \A k \in 1 .. CountFarbe(d) :
                  listed[4 * L + k] = Card(d.farbe, OtherSchlaege(d)[k])
<1> DEFINE L == Len(d.schlaege)
           own == [ i \in 1 .. L * Len(Farben) |->
                      Card(Farben[((i - 1) % Len(Farben)) + 1], d.schlaege[((i - 1) \div Len(Farben)) + 1]) ]
           rest == FarbeDescending(d)
<1>1. L \in 0 .. 2 /\ Len(Farben) = 4
  BY OwnSchlaege, FarbenNumbers
<1>2. rest = [k \in 1 .. CountFarbe(d) |-> Card(d.farbe, OtherSchlaege(d)[k])]
  <2>1. CASE d.farbe = NoFarbe
    BY <2>1 DEF FarbeDescending, CountFarbe
  <2>2. CASE d.farbe # NoFarbe
    BY <2>2, FarbeDescendingIs DEF CountFarbe
  <2> QED
    BY <2>1, <2>2
<1>3. CountFarbe(d) \in Nat
  BY Others DEF CountFarbe
<1>4. TrumpfsDescending(d) = own \o rest
  BY DEF TrumpfsDescending
<1>5. own = [ i \in 1 .. 4 * L |-> Card(Farben[((i - 1) % 4) + 1], d.schlaege[((i - 1) \div 4) + 1]) ]
  BY <1>1
<1> HIDE DEF own, rest
<1>6. 4 * L \in Nat
  BY <1>1
<1>7. own = [i \in 1 .. 4 * L |-> own[i]] /\ rest = [i \in 1 .. CountFarbe(d) |-> rest[i]]
  <2>1. own = [i \in 1 .. 4 * L |-> own[i]]
    BY <1>5
  <2>2. rest = [i \in 1 .. CountFarbe(d) |-> rest[i]]
    BY <1>2
  <2> QED
    BY <2>1, <2>2
<1>8. /\ Len(own \o rest) = 4 * L + CountFarbe(d)
      /\ \A i \in 1 .. 4 * L : (own \o rest)[i] = own[i]
      /\ \A i \in 1 .. CountFarbe(d) : (own \o rest)[4 * L + i] = rest[i]
  <2> DEFINE n == 4 * L
             m == CountFarbe(d)
  <2>1. /\ n \in Nat /\ m \in Nat
        /\ own = [i \in 1 .. n |-> own[i]] /\ rest = [i \in 1 .. m |-> rest[i]]
    BY <1>3, <1>6, <1>7
  <2> HIDE DEF n, m
  <2>2. /\ Len(own \o rest) = n + m
        /\ \A i \in 1 .. n : (own \o rest)[i] = own[i]
        /\ \A i \in 1 .. m : (own \o rest)[n + i] = rest[i]
    BY <2>1, Behind
  <2> QED
    BY <2>2 DEF n, m
<1>9. ASSUME NEW m \in 1 .. L, NEW p \in 1 .. 4
      PROVE  (own \o rest)[4 * (m - 1) + p] = Card(Farben[p], d.schlaege[m])
  <2> DEFINE i == 4 * (m - 1) + p
  <2>1. i \in 1 .. 4 * L /\ (i - 1) % 4 = p - 1 /\ (i - 1) \div 4 = m - 1
    BY <1>1
  <2> HIDE DEF i
  <2>2. own[i] = Card(Farben[p], d.schlaege[m])
    BY <1>1, <1>5, <2>1
  <2>3. (own \o rest)[i] = own[i]
    BY <1>8, <2>1
  <2> QED
    BY <2>2, <2>3 DEF i
<1>10. ASSUME NEW k \in 1 .. CountFarbe(d)
       PROVE  (own \o rest)[4 * L + k] = Card(d.farbe, OtherSchlaege(d)[k])
  BY <1>2, <1>8
<1> QED
  BY <1>4, <1>8, <1>9, <1>10

\* What is Trumpf: a Schlag of its own, or the Farbe.
LEMMA TrumpfIs ==
  ASSUME NEW d \in Deciders, NEW card \in AllCards
  PROVE  /\ card.farbe \in Elements(Farben) /\ card.schlag \in Elements(Schlaege)
         /\ card = Card(card.farbe, card.schlag)
         /\ IsTrumpf(d, card) <=> \/ card.schlag \in Elements(d.schlaege)
                                  \/ d.farbe # NoFarbe /\ card.farbe = d.farbe
         /\ d.farbe # NoFarbe => d.farbe \in Elements(Farben) /\ d.order = Simple
<1>1. card.farbe \in Elements(Farben) /\ card.schlag \in Elements(Schlaege)
  BY DEF AllCards
<1>2. card = Card(card.farbe, card.schlag)
  BY DEF AllCards, Card
<1>3. card.farbe # NoFarbe /\ card.farbe # "Trumpf"
  BY <1>1, FarbenNumbers DEF NoFarbe
<1>4. d.farbe # NoFarbe => d.farbe \in Elements(Farben) /\ d.order = Simple
  BY DEF Deciders, SoloOf, WenzOf, GeierOf, BettelDecider
<1> QED
  BY <1>1, <1>2, <1>3, <1>4 DEF IsTrumpf, TrumpfOrFarbe

\* The list has every Trumpf at its place, and nothing else.
LEMMA ListedAtPlace ==
  ASSUME NEW d \in Deciders
  PROVE  LET listed == TrumpfsDescending(d)
         IN  /\ Len(listed) \in Nat
             /\ \A card \in AllCards :
                  IsTrumpf(d, card) => Place(d, card) \in 1 .. Len(listed) /\ listed[Place(d, card)] = card
             /\ \A i \in 1 .. Len(listed) :
                  listed[i] \in AllCards /\ IsTrumpf(d, listed[i]) /\ Place(d, listed[i]) = i
<1> DEFINE listed == TrumpfsDescending(d)
           L == Len(d.schlaege)
           n == CountFarbe(d)
           other == OtherSchlaege(d)
<1>1. L \in 0 .. 2
  BY OwnSchlaege
<1>2. n \in Nat /\ (d.farbe # NoFarbe => n = Len(other)) /\ (d.farbe = NoFarbe => n = 0)
  BY Others DEF CountFarbe
<1>3. /\ Len(listed) = 4 * L + n
      /\ \A m \in 1 .. L : \A p \in 1 .. 4 : listed[4 * (m - 1) + p] = Card(Farben[p], d.schlaege[m])
      /\ \A k \in 1 .. n : listed[4 * L + k] = Card(d.farbe, other[k])
  BY ListByPlace
<1> HIDE DEF listed, L, n, other
<1>4. ASSUME NEW card \in AllCards, IsTrumpf(d, card)
      PROVE  Place(d, card) \in 1 .. Len(listed) /\ listed[Place(d, card)] = card
  <2>1. CASE card.schlag \in Elements(d.schlaege)
    <3> DEFINE m == Position(d.schlaege, card.schlag)
               p == Position(Farben, card.farbe)
    <3>1. m \in 1 .. L /\ d.schlaege[m] = card.schlag
      BY <2>1, OwnSchlaege DEF L
    <3>2. p \in 1 .. 4 /\ Farben[p] = card.farbe
      BY TrumpfIs, FarbenNumbers
    <3>3. Place(d, card) = 4 * (m - 1) + p
      BY <2>1 DEF Place
    <3> HIDE DEF m, p
    <3>4. listed[Place(d, card)] = Card(card.farbe, card.schlag)
      BY <1>3, <3>1, <3>2, <3>3
    <3>5. Place(d, card) \in 1 .. Len(listed)
      BY <1>1, <1>2, <1>3, <3>1, <3>2, <3>3
    <3> QED
      BY <3>4, <3>5, TrumpfIs
  <2>2. CASE card.schlag \notin Elements(d.schlaege)
    <3> DEFINE k == Position(other, card.schlag)
    <3>1. /\ d.farbe # NoFarbe /\ card.farbe = d.farbe
          /\ card.schlag \in Elements(Schlaege) \ Elements(d.schlaege)
      BY <1>4, <2>2, TrumpfIs
    <3>2. k \in 1 .. n /\ other[k] = card.schlag
      BY <1>2, <3>1, Others DEF other
    <3>3. Place(d, card) = 4 * L + k
      BY <2>2 DEF Place, L, other
    <3> HIDE DEF k
    <3>4. listed[Place(d, card)] = Card(card.farbe, card.schlag)
      BY <1>3, <3>1, <3>2, <3>3
    <3>5. Place(d, card) \in 1 .. Len(listed)
      BY <1>1, <1>2, <1>3, <3>2, <3>3
    <3> QED
      BY <3>4, <3>5, TrumpfIs
  <2> QED
    BY <2>1, <2>2
<1>5. ASSUME NEW i \in 1 .. Len(listed)
      PROVE  listed[i] \in AllCards /\ IsTrumpf(d, listed[i]) /\ Place(d, listed[i]) = i
  <2>1. CASE i <= 4 * L
    <3>1. PICK m \in 1 .. L, p \in 1 .. 4 : i = 4 * (m - 1) + p
      BY <1>1, <2>1
    <3>2. listed[i] = Card(Farben[p], d.schlaege[m])
      BY <1>3, <3>1
    <3>3. /\ Farben[p] \in Elements(Farben) /\ Position(Farben, Farben[p]) = p
          /\ d.schlaege[m] \in Elements(Schlaege) /\ d.schlaege[m] \in Elements(d.schlaege)
          /\ Position(d.schlaege, d.schlaege[m]) = m
      BY FarbenNumbers, OwnSchlaege DEF L
    <3>4. listed[i] \in AllCards /\ listed[i].farbe = Farben[p] /\ listed[i].schlag = d.schlaege[m]
      BY <3>2, <3>3 DEF AllCards, Card
    <3>5. IsTrumpf(d, listed[i])
      BY <3>3, <3>4, TrumpfIs
    <3>6. Place(d, listed[i]) = i
      BY <3>1, <3>3, <3>4 DEF Place
    <3> QED
      BY <3>4, <3>5, <3>6
  <2>2. CASE i > 4 * L
    <3> DEFINE k == i - 4 * L
    <3>1. k \in 1 .. n /\ i = 4 * L + k
      BY <1>1, <1>2, <1>3, <2>2
    <3> HIDE DEF k
    <3>2. listed[i] = Card(d.farbe, other[k])
      BY <1>3, <3>1
    <3>3. d.farbe # NoFarbe
      BY <1>2, <3>1
    <3>4. other[k] \in Elements(Schlaege) \ Elements(d.schlaege) /\ Position(other, other[k]) = k
      BY <1>2, <3>1, <3>3, Others DEF other
    <3>5. d.farbe \in Elements(Farben)
      BY <3>3 DEF Deciders, SoloOf, WenzOf, GeierOf, BettelDecider
    <3>6. listed[i] \in AllCards /\ listed[i].farbe = d.farbe /\ listed[i].schlag = other[k]
      BY <3>2, <3>4, <3>5 DEF AllCards, Card
    <3>7. IsTrumpf(d, listed[i])
      BY <3>3, <3>6, TrumpfIs
    <3>8. Place(d, listed[i]) = i
      BY <3>1, <3>4, <3>6 DEF Place, L, other
    <3> QED
      BY <3>6, <3>7, <3>8
  <2> QED
    BY <1>1, <1>2, <1>3, <2>1, <2>2
<1>6. Len(listed) \in Nat
  BY <1>1, <1>2, <1>3
<1> QED
  BY <1>4, <1>5, <1>6 DEF listed

\* So the place is where a Trumpf is found.
LEMMA PositionIsPlace ==
  ASSUME NEW d \in Deciders, NEW card \in AllCards, IsTrumpf(d, card)
  PROVE  Position(TrumpfsDescending(d), card) = Place(d, card) /\ Place(d, card) \in Nat
<1> DEFINE listed == TrumpfsDescending(d)
<1>1. Place(d, card) \in 1 .. Len(listed) /\ listed[Place(d, card)] = card /\ Len(listed) \in Nat
  BY ListedAtPlace
<1>2. \A i \in 1 .. Len(listed) : listed[i] = card => i = Place(d, card)
  BY ListedAtPlace
<1> HIDE DEF listed
<1>3. Position(listed, card) = Place(d, card)
  BY <1>1, <1>2 DEF Position
<1> QED
  BY <1>1, <1>3 DEF listed

(***************************************************************************)
(* compare_cards and the list agree.                                       *)
(***************************************************************************)
\* Of two Trumpfs the one that stands further behind is beaten.
LEMMA LessByPlace ==
  ASSUME NEW d \in Deciders, NEW a \in AllCards, NEW b \in AllCards, IsTrumpf(d, a), IsTrumpf(d, b)
  PROVE  Less(d, a, b) <=> Place(d, b) < Place(d, a)
<1> DEFINE L == Len(d.schlaege)
           Pos(x) == Position(d.schlaege, x)
<1>1. L \in 0 .. 2
  BY OwnSchlaege
<1>2. \A x \in Elements(d.schlaege) : Pos(x) \in 1 .. L /\ d.schlaege[Pos(x)] = x
  BY OwnSchlaege
<1>3. \A m \in 1 .. L : d.schlaege[m] \in Elements(d.schlaege) /\ Pos(d.schlaege[m]) = m
  BY OwnSchlaege
<1>4. /\ Position(Farben, a.farbe) \in 1 .. 4
      /\ Position(Farben, b.farbe) \in 1 .. 4
  BY TrumpfIs, FarbenNumbers
<1>5. CASE a.schlag \in Elements(d.schlaege)
  <2> DEFINE m == Pos(a.schlag)
  <2>1. m \in 1 .. L /\ d.schlaege[m] = a.schlag
    BY <1>2, <1>5
  <2>2. Place(d, a) = 4 * (m - 1) + Position(Farben, a.farbe)
    BY <1>5 DEF Place
  <2>3. CASE b.schlag \in Elements(d.schlaege)
    <3> DEFINE p == Pos(b.schlag)
    <3>1. p \in 1 .. L /\ d.schlaege[p] = b.schlag
      BY <1>2, <2>3
    <3>2. Place(d, b) = 4 * (p - 1) + Position(Farben, b.farbe)
      BY <2>3 DEF Place
    <3>3. \A k \in 1 .. L : d.schlaege[k] = a.schlag => k = m
      BY <1>3
    <3>4. \A k \in 1 .. L : d.schlaege[k] = b.schlag => k = p
      BY <1>3
    <3> HIDE DEF m, p, Pos
    <3>5. CASE m <= p
      <4>1. /\ d.schlaege[m] \in {a.schlag, b.schlag}
            /\ \A k \in 1 .. m - 1 : d.schlaege[k] \notin {a.schlag, b.schlag}
        BY <1>1, <2>1, <3>1, <3>3, <3>4, <3>5
      <4>2. Less(d, a, b) <=> SchlagLess(d.schlaege[m], a, b)
        BY <1>1, <2>1, <4>1, LessBySchlag DEF L
      <4>3. b.schlag = a.schlag <=> m = p
        BY <2>1, <3>1, <3>3
      <4> QED
        BY <1>1, <1>4, <2>1, <2>2, <3>1, <3>2, <3>5, <4>2, <4>3 DEF SchlagLess
    <3>6. CASE p < m
      <4>1. /\ d.schlaege[p] \in {a.schlag, b.schlag}
            /\ \A k \in 1 .. p - 1 : d.schlaege[k] \notin {a.schlag, b.schlag}
        BY <1>1, <2>1, <3>1, <3>3, <3>4, <3>6
      <4>2. Less(d, a, b) <=> SchlagLess(d.schlaege[p], a, b)
        BY <1>1, <3>1, <4>1, LessBySchlag DEF L
      <4>3. a.schlag # b.schlag
        BY <1>1, <2>1, <3>1, <3>3, <3>6
      <4> QED
        BY <1>1, <1>4, <2>1, <2>2, <3>1, <3>2, <3>6, <4>2, <4>3 DEF SchlagLess
    <3> QED
      BY <1>1, <2>1, <3>1, <3>5, <3>6
  <2>4. CASE b.schlag \notin Elements(d.schlaege)
    <3>1. \A k \in 1 .. L : d.schlaege[k] = a.schlag => k = m
      BY <1>3
    <3>2. \A k \in 1 .. L : d.schlaege[k] # b.schlag
      BY <1>3, <2>4
    <3>3. Place(d, b) = 4 * L + Position(OtherSchlaege(d), b.schlag)
      BY <2>4 DEF Place
    <3>4. d.farbe # NoFarbe /\ b.schlag \in Elements(Schlaege) \ Elements(d.schlaege)
      BY <2>4, TrumpfIs
    <3>5. Position(OtherSchlaege(d), b.schlag) \in Nat \ {0}
      BY <3>4, Others
    <3> HIDE DEF m, Pos
    <3>6. /\ d.schlaege[m] \in {a.schlag, b.schlag}
          /\ \A k \in 1 .. m - 1 : d.schlaege[k] \notin {a.schlag, b.schlag}
      BY <1>1, <2>1, <3>1, <3>2
    <3>7. Less(d, a, b) <=> SchlagLess(d.schlaege[m], a, b)
      BY <1>1, <2>1, <3>6, LessBySchlag DEF L
    <3>8. ~ SchlagLess(d.schlaege[m], a, b)
      BY <2>1, <3>2 DEF SchlagLess
    <3>9. ~ (Place(d, b) < Place(d, a))
      BY <1>1, <1>4, <2>1, <2>2, <3>3, <3>5
    <3> QED
      BY <3>7, <3>8, <3>9
  <2> QED
    BY <2>3, <2>4
<1>6. CASE a.schlag \notin Elements(d.schlaege)
  <2>1. Place(d, a) = 4 * L + Position(OtherSchlaege(d), a.schlag)
    BY <1>6 DEF Place
  <2>2. /\ d.farbe # NoFarbe /\ a.farbe = d.farbe /\ d.order = Simple
        /\ a.schlag \in Elements(Schlaege) \ Elements(d.schlaege)
    BY <1>6, TrumpfIs
  <2>3. Position(OtherSchlaege(d), a.schlag) \in Nat \ {0}
    BY <2>2, Others
  <2>4. \A k \in 1 .. L : d.schlaege[k] # a.schlag
    BY <1>3, <1>6
  <2>5. CASE b.schlag \in Elements(d.schlaege)
    <3> DEFINE p == Pos(b.schlag)
    <3>1. p \in 1 .. L /\ d.schlaege[p] = b.schlag
      BY <1>2, <2>5
    <3>2. Place(d, b) = 4 * (p - 1) + Position(Farben, b.farbe)
      BY <2>5 DEF Place
    <3>3. \A k \in 1 .. L : d.schlaege[k] = b.schlag => k = p
      BY <1>3
    <3> HIDE DEF p, Pos
    <3>4. /\ d.schlaege[p] \in {a.schlag, b.schlag}
          /\ \A k \in 1 .. p - 1 : d.schlaege[k] \notin {a.schlag, b.schlag}
      BY <1>1, <3>1, <2>4, <3>3
    <3>5. Less(d, a, b) <=> SchlagLess(d.schlaege[p], a, b)
      BY <1>1, <3>1, <3>4, LessBySchlag DEF L
    <3>6. SchlagLess(d.schlaege[p], a, b)
      BY <3>1, <2>4 DEF SchlagLess
    <3>7. Place(d, b) < Place(d, a)
      BY <1>1, <1>4, <2>1, <2>3, <3>1, <3>2
    <3> QED
      BY <3>5, <3>6, <3>7
  <2>6. CASE b.schlag \notin Elements(d.schlaege)
    <3>1. Place(d, b) = 4 * L + Position(OtherSchlaege(d), b.schlag)
      BY <2>6 DEF Place
    <3>2. b.farbe = d.farbe /\ b.schlag \in Elements(Schlaege) \ Elements(d.schlaege)
      BY <2>6, TrumpfIs
    <3>3. Position(OtherSchlaege(d), b.schlag) \in Nat \ {0}
      BY <2>2, <3>2, Others
    <3>4. \A k \in 1 .. L : d.schlaege[k] \notin {a.schlag, b.schlag}
      BY <1>3, <2>4, <2>6
    <3>5. Less(d, a, b) <=> FarbeLess(d, a, b)
      BY <1>1, <3>4, LessByFarbe DEF L
    <3>6. FarbeLess(d, a, b) <=> Position(Simple, a.schlag) < Position(Simple, b.schlag)
      BY <2>2, <3>2 DEF FarbeLess, FarbcardLess
    <3>7. Position(OtherSchlaege(d), b.schlag) < Position(OtherSchlaege(d), a.schlag)
            <=> Position(Simple, a.schlag) < Position(Simple, b.schlag)
      BY <2>2, <3>2, Others
    <3> QED
      BY <1>1, <2>1, <2>3, <3>1, <3>3, <3>5, <3>6, <3>7
  <2> QED
    BY <2>5, <2>6
<1> QED
  BY <1>5, <1>6

\* A Trumpf beats what is none, and is not beaten by it; of two others only those of one
\* Farbe are compared.
LEMMA LessOfOthers ==
  ASSUME NEW d \in Deciders, NEW a \in AllCards, NEW b \in AllCards
  PROVE  /\ IsTrumpf(d, a) /\ ~ IsTrumpf(d, b) => ~ Less(d, a, b)
         /\ ~ IsTrumpf(d, a) /\ IsTrumpf(d, b) => Less(d, a, b)
         /\ ~ IsTrumpf(d, a) /\ ~ IsTrumpf(d, b) =>
              (Less(d, a, b) <=> a.farbe = b.farbe /\ FarbcardLess(d, a, b))
<1> DEFINE L == Len(d.schlaege)
           Pos(x) == Position(d.schlaege, x)
<1>1. L \in 0 .. 2
  BY OwnSchlaege
<1>2. \A m \in 1 .. L : d.schlaege[m] \in Elements(d.schlaege) /\ Pos(d.schlaege[m]) = m
  BY OwnSchlaege
<1>3. /\ a.farbe # NoFarbe /\ b.farbe # NoFarbe
  BY TrumpfIs, FarbenNumbers DEF NoFarbe
<1>4. ASSUME NEW x \in AllCards, NEW y \in AllCards, ~ IsTrumpf(d, y), x.schlag \in Elements(d.schlaege)
      PROVE  (Less(d, x, y) <=> SchlagLess(x.schlag, x, y)) /\ (Less(d, y, x) <=> SchlagLess(x.schlag, y, x))
  <2> DEFINE m == Pos(x.schlag)
  <2>1. m \in 1 .. L /\ d.schlaege[m] = x.schlag
    BY <1>4, OwnSchlaege
  <2>2. y.schlag \notin Elements(d.schlaege)
    BY <1>4, TrumpfIs
  <2>3. \A k \in 1 .. L : d.schlaege[k] = x.schlag => k = m
    BY <1>2
  <2> HIDE DEF m, Pos
  <2>4. /\ d.schlaege[m] \in {x.schlag, y.schlag}
        /\ \A k \in 1 .. m - 1 : d.schlaege[k] \notin {x.schlag, y.schlag}
    BY <1>1, <1>2, <2>1, <2>2, <2>3
  <2>5. /\ d.schlaege[m] \in {y.schlag, x.schlag}
        /\ \A k \in 1 .. m - 1 : d.schlaege[k] \notin {y.schlag, x.schlag}
    BY <2>4
  <2>6. Less(d, x, y) <=> SchlagLess(d.schlaege[m], x, y)
    BY <1>1, <2>1, <2>4, LessBySchlag DEF L
  <2>7. Less(d, y, x) <=> SchlagLess(d.schlaege[m], y, x)
    BY <1>1, <2>1, <2>5, LessBySchlag DEF L
  <2> QED
    BY <2>1, <2>6, <2>7
<1>5. CASE a.schlag \notin Elements(d.schlaege) /\ b.schlag \notin Elements(d.schlaege)
  <2>1. Less(d, a, b) <=> FarbeLess(d, a, b)
    BY <1>1, <1>2, <1>5, LessByFarbe DEF L
  <2>2. (IsTrumpf(d, a) <=> a.farbe = d.farbe) /\ (IsTrumpf(d, b) <=> b.farbe = d.farbe)
    BY <1>3, <1>5, TrumpfIs
  <2> QED
    BY <2>1, <2>2 DEF FarbeLess
<1>6. CASE a.schlag \in Elements(d.schlaege)
  <2>1. IsTrumpf(d, a)
    BY <1>6, TrumpfIs
  <2>2. ~ IsTrumpf(d, b) => b.schlag # a.schlag
    BY <1>6, TrumpfIs
  <2> QED
    BY <1>4, <1>6, <2>1, <2>2 DEF SchlagLess
<1>7. CASE b.schlag \in Elements(d.schlaege)
  <2>1. IsTrumpf(d, b)
    BY <1>7, TrumpfIs
  <2>2. ~ IsTrumpf(d, a) => b.schlag # a.schlag
    BY <1>7, TrumpfIs
  <2> QED
    BY <1>4, <1>7, <2>1, <2>2 DEF SchlagLess
<1> QED
  BY <1>5, <1>6, <1>7

(***************************************************************************)
(* The loop over the cards of a Stich.                                     *)
(***************************************************************************)
\* what the variables are
Types ==
  /\ decider \in Deciders
  /\ cards \subseteq AllCards
  /\ first \in cards /\ best \in cards

\* The cards of the list are counted by its length.
LEMMA ListCounted ==
  ASSUME NEW d \in Deciders
  PROVE  LET listed == TrumpfsDescending(d)
         IN  /\ Elements(listed) = { card \in AllCards : IsTrumpf(d, card) }
             /\ Cardinality(Elements(listed)) = Len(listed)
<1> DEFINE listed == TrumpfsDescending(d)
           at == [i \in 1 .. Len(listed) |-> listed[i]]
<1>1. /\ Len(listed) \in Nat
      /\ \A card \in AllCards :
           IsTrumpf(d, card) => Place(d, card) \in 1 .. Len(listed) /\ listed[Place(d, card)] = card
      /\ \A i \in 1 .. Len(listed) :
           listed[i] \in AllCards /\ IsTrumpf(d, listed[i]) /\ Place(d, listed[i]) = i
  BY ListedAtPlace
<1> HIDE DEF listed
<1>2. Elements(listed) = { card \in AllCards : IsTrumpf(d, card) }
  BY <1>1 DEF Elements
<1>3. at \in Bijection(1 .. Len(listed), Elements(listed))
  <2>1. at \in [1 .. Len(listed) -> Elements(listed)]
    BY DEF Elements
  <2>2. \A i, j \in 1 .. Len(listed) : at[i] = at[j] => i = j
    BY <1>1
  <2>3. \A x \in Elements(listed) : \E i \in 1 .. Len(listed) : at[i] = x
    BY DEF Elements
  <2> HIDE DEF at
  <2> QED
    BY <2>1, <2>2, <2>3 DEF Bijection, Injection, Surjection, IsInjective
<1>4. Cardinality(Elements(listed)) = Len(listed)
  BY <1>1, <1>3, FS_CountingElements DEF ExistsBijection
<1> QED
  BY <1>2, <1>4 DEF listed

\* Cards that are not Trumpf have a number in the order of the Farbe.
LEMMA OrderNumbers ==
  ASSUME NEW d \in Deciders, NEW card \in AllCards
  PROVE  Position(d.order, card.schlag) \in Nat
<1>1. d.order = Simple \/ d.order = Bettel
  BY DEF Deciders, SoloOf, WenzOf, GeierOf, BettelDecider
<1>2. card.schlag \in {"Ass", "Zehn", "Koenig", "Ober", "Unter", "S9", "S8", "S7"}
  BY SchlaegeNames, TrumpfIs
<1>3. Position(Simple, card.schlag) \in Nat
  BY <1>2, SimpleNumbers
<1>4. Position(Bettel, card.schlag) \in Nat
  <2>1. Len(Bettel) = 8 /\ \A i, j \in 1 .. Len(Bettel) : Bettel[j] = Bettel[i] => j = i
    BY DEF Bettel
  <2>2. Len(Bettel) \in Nat
    BY <2>1
  <2>3. \A x \in Elements(Bettel) : Position(Bettel, x) \in 1 .. Len(Bettel)
    BY <2>1, <2>2, FoundOnce
  <2>4. Elements(Bettel) = { Bettel[i] : i \in 1 .. 8 }
    BY <2>1 DEF Elements
  <2>5. card.schlag \in Elements(Bettel)
    BY <1>2, <2>4 DEF Bettel
  <2> QED
    BY <2>1, <2>3, <2>5
<1> QED
  BY <1>1, <1>3, <1>4

\* BestIsHighest, of an order and cards that are given
BestOf(d, led, S, top) ==
  LET trumpfs == { card \in S : IsTrumpf(d, card) }
      rank(card) == Position(TrumpfsDescending(d), card)
  IN  IF trumpfs # {}
      THEN top \in trumpfs /\ \A card \in trumpfs : rank(top) <= rank(card)
      ELSE /\ top.farbe = led.farbe
           /\ \A card \in S : card.farbe = led.farbe => ~ FarbcardLess(d, top, card)

\* One turn of the loop keeps the highest card.
LEMMA OneCardMore ==
  ASSUME NEW d \in Deciders, NEW led, NEW S \in SUBSET AllCards, NEW top \in S, NEW next \in AllCards,
         BestOf(d, led, S, top)
  PROVE  BestOf(d, led, S \cup {next}, IF Less(d, top, next) THEN next ELSE top)
<1> DEFINE rank(card) == Position(TrumpfsDescending(d), card)
           now == IF Less(d, top, next) THEN next ELSE top
<1>1. top \in AllCards
  OBVIOUS
<1>2. \A card \in AllCards : IsTrumpf(d, card) => rank(card) = Place(d, card) /\ rank(card) \in Nat
  BY PositionIsPlace
<1>3. \A a, b \in AllCards : IsTrumpf(d, a) /\ IsTrumpf(d, b) => (Less(d, a, b) <=> rank(b) < rank(a))
  BY <1>2, LessByPlace
<1>4. CASE \E card \in S : IsTrumpf(d, card)
  <2>1. IsTrumpf(d, top) /\ \A card \in S : IsTrumpf(d, card) => rank(top) <= rank(card)
    BY <1>4 DEF BestOf
  <2>2. ~ IsTrumpf(d, next) => ~ Less(d, top, next)
    BY <1>1, <2>1, LessOfOthers
  <2>3. IsTrumpf(d, now) /\ now \in S \cup {next}
    BY <2>1, <2>2
  <2>4. ASSUME NEW card \in S \cup {next}, IsTrumpf(d, card)
        PROVE  rank(now) <= rank(card)
    BY <1>1, <1>2, <1>3, <2>1, <2>2, <2>4
  <2> HIDE DEF now
  <2>5. BestOf(d, led, S \cup {next}, now)
    BY <2>3, <2>4 DEF BestOf
  <2> QED
    BY <2>5 DEF now
<1>5. CASE (~ \E card \in S : IsTrumpf(d, card)) /\ IsTrumpf(d, next)
  <2>1. Less(d, top, next)
    BY <1>1, <1>5, LessOfOthers
  <2>2. now = next /\ { card \in S \cup {next} : IsTrumpf(d, card) } = {next}
    BY <1>5, <2>1
  <2>3. rank(next) \in Nat
    BY <1>2, <1>5
  <2>4. BestOf(d, led, S \cup {next}, next)
    BY <2>2, <2>3 DEF BestOf
  <2> QED
    BY <2>1, <2>4
<1>6. CASE (~ \E card \in S : IsTrumpf(d, card)) /\ ~ IsTrumpf(d, next)
  <2>1. /\ top.farbe = led.farbe
        /\ \A card \in S : card.farbe = led.farbe => ~ FarbcardLess(d, top, card)
    BY <1>6 DEF BestOf
  <2>2. Less(d, top, next) <=> top.farbe = next.farbe /\ FarbcardLess(d, top, next)
    BY <1>1, <1>6, LessOfOthers
  <2>3. \A card \in AllCards : Position(d.order, card.schlag) \in Nat
    BY OrderNumbers
  <2>4. now.farbe = led.farbe
    BY <2>1, <2>2
  <2>5. ASSUME NEW card \in S \cup {next}, card.farbe = led.farbe
        PROVE  ~ FarbcardLess(d, now, card)
    <3>1. Position(d.order, card.schlag) \in Nat /\ Position(d.order, top.schlag) \in Nat
          /\ Position(d.order, next.schlag) \in Nat
      BY <1>1, <2>3
    <3>2. CASE Less(d, top, next)
      BY <2>1, <2>2, <2>5, <3>1, <3>2 DEF FarbcardLess
    <3>3. CASE ~ Less(d, top, next)
      BY <2>1, <2>2, <2>5, <3>1, <3>3 DEF FarbcardLess
    <3> QED
      BY <3>2, <3>3
  <2> HIDE DEF now
  <2>6. { card \in S \cup {next} : IsTrumpf(d, card) } = {}
    BY <1>6
  <2>7. BestOf(d, led, S \cup {next}, now)
    BY <2>4, <2>5, <2>6 DEF BestOf
  <2> QED
    BY <2>7 DEF now
<1> QED
  BY <1>4, <1>5, <1>6

\* The variables are cards of the deck.
LEMMA TypesHold == Spec => []Types
<1>1. Init => Types
  BY StichOrderAssumption DEF Init, Types
<1>2. Types /\ [Next]_vars => Types'
  BY DEF Types, Next, Fall, Full, vars
<1> QED
  BY <1>1, <1>2, PTL DEF Spec

\* The list of the Trumpfs has every Trumpf exactly once, in every order that the
\* rules compose: the filter of STrumpfDeciderSchlag takes out what it has listed itself.
THEOREM EveryTrumpfListed == Spec => []TrumpfsListedOnce
<1>1. Types => TrumpfsListedOnce
  BY ListCounted DEF Types, TrumpfsListedOnce
<1> QED
  BY <1>1, TypesHold, PTL

\* preliminary_winner_index finds the highest card of the Stich, for a Stich of any
\* size and cards in any order: what the best card so far did not beat stays behind it.
THEOREM HighestCardWins == Spec => []BestIsHighest
<1> DEFINE Trumpfs == { card \in cards : IsTrumpf(decider, card) }
           rank(card) == Position(TrumpfsDescending(decider), card)
<1>1. Init => BestIsHighest
  <2> SUFFICES ASSUME Init
               PROVE  BestIsHighest
    OBVIOUS
  <2>1. decider \in Deciders /\ first \in AllCards /\ cards = {first} /\ best = first
    BY StichOrderAssumption DEF Init
  <2>2. CASE IsTrumpf(decider, first)
    <3>1. rank(first) \in Nat
      BY <2>1, <2>2, PositionIsPlace
    <3>2. { card \in cards : IsTrumpf(decider, card) } = {first}
      BY <2>1, <2>2
    <3> QED
      BY <2>1, <3>1, <3>2 DEF BestIsHighest
  <2>3. CASE ~ IsTrumpf(decider, first)
    <3>1. { card \in cards : IsTrumpf(decider, card) } = {}
      BY <2>1, <2>3
    <3>2. ~ FarbcardLess(decider, first, first)
      BY <2>1, <2>3, LessOfOthers, OrderNumbers DEF FarbcardLess
    <3> QED
      BY <2>1, <3>1, <3>2 DEF BestIsHighest
  <2> QED
    BY <2>2, <2>3
<1>2. Types /\ BestIsHighest /\ [Next]_vars => BestIsHighest'
  <2> SUFFICES ASSUME Types, BestIsHighest, [Next]_vars
               PROVE  BestIsHighest'
    OBVIOUS
  <2>1. CASE UNCHANGED vars
    BY <2>1 DEF vars, BestIsHighest
  <2>2. ASSUME NEW card \in AllCards, Fall(card)
        PROVE  BestIsHighest'
    <3>1. /\ decider \in Deciders /\ cards \subseteq AllCards /\ first \in cards /\ best \in cards
          /\ decider' = decider /\ first' = first
          /\ cards' = cards \cup {card}
          /\ best' = IF Less(decider, best, card) THEN card ELSE best
      BY <2>2 DEF Fall, Types
    <3>2. BestOf(decider, first, cards, best)
      BY DEF BestIsHighest, BestOf
    <3>3. BestOf(decider, first, cards \cup {card}, IF Less(decider, best, card) THEN card ELSE best)
      BY <3>1, <3>2, OneCardMore
    <3> QED
      BY <3>1, <3>3 DEF BestIsHighest, BestOf
  <2> QED
    BY <2>1, <2>2 DEF Next, Full
<1> QED
  BY <1>1, <1>2, TypesHold, PTL DEF Spec
==============================================================================
