-------------------------------- MODULE Trumpf --------------------------------
(***************************************************************************)
(* Cards and the order in which they beat each other                       *)
(* (main/src/primitives/card.rs, main/src/rules/trumpfdecider.rs).         *)
(*                                                                         *)
(* The program composes the order of a game from types: Ober before Unter  *)
(* before a Farbe, or fewer of them.  Here that composition is a value, a  *)
(* "decider": the Schlaege that are Trumpf, highest first, the Farbe that  *)
(* is Trumpf below them, if any, and the order of the other cards.         *)
(***************************************************************************)
EXTENDS Naturals, Sequences

\* EFarbe and ESchlag, in the order of their declaration
Farben == <<"Eichel", "Gras", "Herz", "Schelln">>
Schlaege == <<"Ass", "Zehn", "Koenig", "Ober", "Unter", "S9", "S8", "S7">>

Elements(s) == { s[i] : i \in 1 .. Len(s) }

\* where x stands in the sequence s
Position(s, x) == CHOOSE i \in 1 .. Len(s) : s[i] = x

\* the elements of s that are in S, in their order (SelectSeq, as a recursive function)
Selected(s, S) ==
  LET upto[i \in 0 .. Len(s)] ==
        IF i = 0 THEN <<>>
        ELSE IF s[i] \in S THEN Append(upto[i - 1], s[i]) ELSE upto[i - 1]
  IN  upto[Len(s)]

Card(farbe, schlag) == [farbe |-> farbe, schlag |-> schlag]
AllCards == [farbe : Elements(Farben), schlag : Elements(Schlaege)]

\* SCompareFarbcardsSimple, SCompareFarbcardsBettel: lowest first
Simple == <<"S7", "S8", "S9", "Unter", "Ober", "Koenig", "Zehn", "Ass">>
Bettel == <<"S7", "S8", "S9", "Zehn", "Unter", "Ober", "Koenig", "Ass">>

NoFarbe == "NoFarbe"

\* STrumpfDeciderRufspiel and STrumpfDeciderRamsch are SoloOf("Herz")
SoloOf(farbe) == [schlaege |-> <<"Ober", "Unter">>, farbe |-> farbe, order |-> Simple]
WenzOf(farbe) == [schlaege |-> <<"Unter">>, farbe |-> farbe, order |-> Simple]
GeierOf(farbe) == [schlaege |-> <<"Ober">>, farbe |-> farbe, order |-> Simple]
BettelDecider == [schlaege |-> <<>>, farbe |-> NoFarbe, order |-> Bettel]

Deciders ==
  {BettelDecider} \cup
  UNION { {SoloOf(f), WenzOf(f), GeierOf(f)} : f \in Elements(Farben) \cup {NoFarbe} }

------------------------------------------------------------------------------
\* trumpforfarbe
TrumpfOrFarbe(d, card) ==
  IF card.schlag \in Elements(d.schlaege) \/ card.farbe = d.farbe
  THEN "Trumpf" ELSE card.farbe

IsTrumpf(d, card) == TrumpfOrFarbe(d, card) = "Trumpf"

FarbcardLess(d, a, b) == Position(d.order, a.schlag) < Position(d.order, b.schlag)

(***************************************************************************)
(* compare_cards(a, b) = Some(Less).  STrumpfDeciderSchlag looks at its    *)
(* Schlag and leaves what it does not decide to the next decider, which    *)
(* ends with the Farbe that is Trumpf, if any, and the other Farben.       *)
(***************************************************************************)
\* the place of the first Schlag of d that one of the cards has, or behind all
Deciding(d, a, b) ==
  CHOOSE i \in 1 .. Len(d.schlaege) + 1 :
    /\ i <= Len(d.schlaege) => d.schlaege[i] \in {a.schlag, b.schlag}
    /\ \A j \in 1 .. i - 1 : d.schlaege[j] \notin {a.schlag, b.schlag}

SchlagLess(schlag, a, b) ==
  \/ a.schlag # schlag
  \/ /\ b.schlag = schlag
     /\ Position(Farben, b.farbe) < Position(Farben, a.farbe)

FarbeLessAcrossFarben(d, a, b) ==
  \/ a.farbe # d.farbe /\ b.farbe = d.farbe
  \/ (a.farbe = d.farbe => b.farbe = d.farbe) /\ FarbcardLess(d, a, b)

FarbeLess(d, a, b) ==
  \/ a.farbe # d.farbe /\ b.farbe = d.farbe
  \/ a.farbe = b.farbe /\ FarbcardLess(d, a, b)

Less(d, a, b) ==
  LET i == Deciding(d, a, b)
  IN  IF i <= Len(d.schlaege) THEN SchlagLess(d.schlaege[i], a, b) ELSE FarbeLess(d, a, b)

(***************************************************************************)
(* trumpfs_in_descending_order: for each Schlag of d its four cards, then  *)
(* those of the Farbe that have none of these Schlaege.                    *)
(***************************************************************************)
FarbeDescendingUnfiltered(d) ==
  IF d.farbe = NoFarbe THEN <<>>
  ELSE [ i \in 1 .. Len(Schlaege) |-> Card(d.farbe, Schlaege[i]) ]

FarbeDescending(d) ==
  LET upto[i \in 0 .. Len(Schlaege)] ==
        IF i = 0 THEN <<>>
        ELSE IF Schlaege[i] \in Elements(d.schlaege) THEN upto[i - 1]
        ELSE Append(upto[i - 1], Card(d.farbe, Schlaege[i]))
  IN  IF d.farbe = NoFarbe THEN <<>> ELSE upto[Len(Schlaege)]

TrumpfsDescending(d) ==
  [ i \in 1 .. Len(d.schlaege) * Len(Farben) |->
      Card(Farben[((i - 1) % Len(Farben)) + 1], d.schlaege[((i - 1) \div Len(Farben)) + 1]) ]
  \o FarbeDescending(d)
==============================================================================
