------------------------------ MODULE MCCardPlay ------------------------------
(* CardPlay with three seats and nine cards: four of the called Farbe, three *)
(* Trumpf and two others, in every distribution.                             *)
EXTENDS CardPlay, TLC

Cards9 ==
  { Card("Eichel", s) : s \in {"Ass", "Koenig", "S9", "S8"} }
  \cup {Card("Eichel", "Ober"), Card("Gras", "Unter"), Card("Herz", "S9")}
  \cup {Card("Gras", "Ass"), Card("Gras", "S9")}

Threes(S) == { T \in SUBSET S : Cardinality(T) = 3 }

AllDeals ==
  UNION { { (0 :> A) @@ (1 :> B) @@ (2 :> (Cards9 \ A) \ B) : B \in Threes(Cards9 \ A) } :
          A \in Threes(Cards9) }

Rule(kind, epi, decider) ==
  [kind |-> kind, epi |-> epi, decider |-> decider, farbe |-> "Eichel"]

Rufspiele == { Rule("Rufspiel", epi, SoloOf("Herz")) : epi \in 0 .. 2 }

OtherGames ==
  { Rule("SoloLike", 1, WenzOf(NoFarbe)), Rule("SoloLike", 2, SoloOf("Gras")),
    Rule("Ramsch", 3, SoloOf("Herz")), Rule("Bettel", 0, BettelDecider),
    Rule("BettelStichzwang", 1, BettelDecider) }

\* deals in which the first seat holds the Ober and the Unter is not with the last one,
\* for the games without a called Farbe
SomeDeals ==
  { d \in AllDeals : /\ {Card("Eichel", "Ober"), Card("Eichel", "Koenig")} \subseteq d[0]
                     /\ Card("Gras", "Unter") \notin d[2] }

AllGames == Rufspiele \cup OtherGames

MCInit == Init /\ (rules \in OtherGames => ahand \in SomeDeals)

\* bound: in a Rufspiel, which is played on every deal, nobody doubles the stakes twice
StossBound == rules \in Rufspiele => vecstoss = <<>>

MCSpec == MCInit /\ [][Next]_vars
==============================================================================
