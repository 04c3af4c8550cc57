------------------------------ MODULE MCSuggest ------------------------------
(* Suggest with the short deck, in positions of games that were dealt and    *)
(* played by the rules: most in the fifth of six Stichs.                     *)
EXTENDS GameTree

CONSTANTS w1, w2

Symmetry == Permutations({w1, w2})

\* bound: a search touches nothing but its own copies, so one is completed at a time;
\* results still wait for each other and for hands to be taken
OneSearchAtATime ==
  Cardinality({ w \in Workers : \E s \in worker[w].search : ~ Finished(s) }) <= 1

ShortDeck == { card \in AllCards : card.schlag \notin {"S7", "S8"} }

Ei(schlag) == Card("Eichel", schlag)
Gr(schlag) == Card("Gras", schlag)
He(schlag) == Card("Herz", schlag)
Sc(schlag) == Card("Schelln", schlag)

Rules(kind, epi, decider, farbe, contract) ==
  [rules |-> [kind |-> kind, epi |-> epi, decider |-> decider, farbe |-> farbe],
   contract |-> [kind |-> contract, epi |-> epi % 4, points_to_win |-> 61],
   n_price |-> 20]

Rufspiel(epi, farbe) == Rules("Rufspiel", epi, SoloOf("Herz"), farbe, "Rufspiel")
Solo(epi, farbe) == Rules("SoloLike", epi, SoloOf(farbe), "Eichel", "Points")
Wenz(epi) == Rules("SoloLike", epi, WenzOf(NoFarbe), "Eichel", "Points")
BettelOf(epi) == Rules("Bettel", epi, BettelDecider, "Eichel", "Bettel")
Ramsch == Rules("Ramsch", 4, SoloOf("Herz"), "Eichel", "Ramsch")

Cheating == [cheating |-> TRUE, branches |-> 2, samples |-> 1]
Simulating == [cheating |-> FALSE, branches |-> 2, samples |-> 1]
Sampling == [cheating |-> FALSE, branches |-> 1, samples |-> 2]

St(epi_first, cards) == [epi_first |-> epi_first, cards |-> cards]

Situation(game, n_stock, stakes, ai, hands, vecstich) ==
  [game |-> [n_stock |-> n_stock, stakes |-> stakes] @@ game,
   ahand |-> [epi \in 0 .. 3 |-> hands[epi + 1]], vecstich |-> vecstich,
   ai |-> ai, b_shortcuts |-> TRUE]

\* third in the fifth Stich of a Rufspiel, six hands are possible
PartnerOfPlayer ==
  Situation(Rufspiel(1, "Schelln"), 4, 1, Simulating,
    <<{Ei("Ober"), He("S9")}, {Gr("Ass"), Gr("Zehn")}, {Sc("Koenig")}, {He("Zehn")}>>,
    <<St(0, <<Gr("Ober"), Sc("Unter"), He("Ass"), Ei("Unter")>>),
      St(0, <<He("Koenig"), He("Ober"), Sc("Ober"), Gr("Unter")>>),
      St(1, <<Gr("Koenig"), Ei("Zehn"), Gr("S9"), He("Unter")>>),
      St(0, <<Ei("Koenig"), Sc("Zehn"), Ei("Ass"), Ei("S9")>>),
      St(2, <<Sc("Ass"), Sc("S9")>>)>>)

\* one card wins for certain, the other wins more on the average
SureOrMore ==
  Situation(Solo(3, "Eichel"), 0, 1, Simulating,
    <<{Sc("Ass")}, {He("Zehn"), Sc("Ober")}, {Gr("Ass"), Gr("S9")}, {Ei("Zehn")}>>,
    <<St(0, <<Gr("Unter"), Ei("S9"), He("Unter"), He("Ober")>>),
      St(3, <<Sc("Unter"), Ei("Unter"), Ei("Ober"), Ei("Koenig")>>),
      St(1, <<He("S9"), Ei("Ass"), He("Koenig"), He("Ass")>>),
      St(2, <<Gr("Koenig"), Gr("Ober"), Sc("S9"), Gr("Zehn")>>),
      St(3, <<Sc("Zehn"), Sc("Koenig")>>)>>)

\* so in a Wenz, with nine hands
WenzNineHands ==
  Situation(Wenz(0), 0, 1, Simulating,
    <<{Ei("Koenig")}, {Gr("Ass")}, {He("S9"), Sc("Unter")}, {He("Ass"), He("Zehn")}>>,
    <<St(0, <<Ei("Unter"), He("Unter"), Gr("Unter"), Gr("S9")>>),
      St(0, <<Sc("Ober"), Sc("Zehn"), Sc("S9"), Sc("Koenig")>>),
      St(1, <<Gr("Ober"), Gr("Koenig"), Gr("Zehn"), Ei("Ober")>>),
      St(3, <<Ei("Zehn"), Ei("Ass"), Ei("S9"), He("Ober")>>),
      St(0, <<Sc("Ass"), He("Koenig")>>)>>)

\* a Ramsch, in which everybody plays for itself
RamschThird ==
  Situation(Ramsch, 0, 2, Simulating,
    <<{Sc("S9"), Sc("Zehn")}, {Sc("Koenig")}, {He("Unter")}, {Ei("Koenig"), He("Ober")}>>,
    <<St(0, <<He("S9"), He("Ass"), Sc("Ober"), He("Zehn")>>),
      St(2, <<Gr("Koenig"), Gr("Ass"), Gr("Zehn"), Gr("S9")>>),
      St(3, <<Ei("Ass"), Ei("Zehn"), Gr("Ober"), Ei("S9")>>),
      St(1, <<Ei("Ober"), Gr("Unter"), Ei("Unter"), Sc("Unter")>>),
      St(1, <<Sc("Ass"), He("Koenig")>>)>>)

\* a Bettel that is lost already, so that hints prune
BettelIsLost ==
  Situation(BettelOf(2), 0, 1, Simulating,
    <<{Gr("Ass")}, {Gr("Zehn"), He("Ass")}, {Sc("Ass"), Sc("Unter")}, {Ei("Zehn")}>>,
    <<St(0, <<He("Ober"), He("Zehn"), He("Koenig"), He("S9")>>),
      St(2, <<Ei("Ober"), Ei("Ass"), Gr("Unter"), Ei("S9")>>),
      St(3, <<Gr("Koenig"), Gr("S9"), Gr("Ober"), Sc("Ober")>>),
      St(3, <<Ei("Koenig"), He("Unter"), Sc("Zehn"), Ei("Unter")>>),
      St(3, <<Sc("Koenig"), Sc("S9")>>)>>)

\* first in the fifth Stich, with the true hands
RufspielLead ==
  Situation(Rufspiel(2, "Eichel"), 4, 2, Cheating,
    <<{Gr("Ass"), Sc("S9")}, {Gr("Koenig"), Sc("Unter")}, {Sc("Ass"), Sc("Koenig")}, {Gr("Zehn"), Sc("Zehn")}>>,
    <<St(0, <<Gr("Unter"), Ei("Ober"), He("Ass"), Sc("Ober")>>),
      St(1, <<He("Ober"), He("S9"), Ei("Unter"), He("Unter")>>),
      St(1, <<Gr("Ober"), He("Zehn"), He("Koenig"), Gr("S9")>>),
      St(1, <<Ei("Zehn"), Ei("S9"), Ei("Koenig"), Ei("Ass")>>),
      St(0, <<>>)>>)

\* the Solo is lost already, but by how much is not known
SoloLead ==
  Situation(Solo(0, "Eichel"), 0, 1, Cheating,
    <<{Ei("Unter"), Gr("Zehn")}, {Ei("Ober"), He("Koenig")}, {Gr("Ass"), Sc("S9")}, {Gr("Koenig"), He("S9")}>>,
    <<St(0, <<Sc("Unter"), Ei("Koenig"), Ei("Ass"), Gr("Unter")>>),
      St(3, <<He("Unter"), Ei("Zehn"), He("Ober"), Sc("Zehn")>>),
      St(1, <<He("Ass"), Sc("Ass"), He("Zehn"), Gr("S9")>>),
      St(1, <<Ei("S9"), Sc("Koenig"), Gr("Ober"), Sc("Ober")>>),
      St(3, <<>>)>>)

\* in a Ramsch the selfish values of the true hands differ
RamschLead ==
  Situation(Ramsch, 0, 1, Cheating,
    <<{He("Ober"), Sc("Unter")}, {Ei("Unter"), He("Unter")}, {Gr("Koenig"), Sc("Ober")}, {Gr("Unter"), He("Zehn")}>>,
    <<St(0, <<Ei("Ober"), He("Ass"), He("Koenig"), He("S9")>>),
      St(0, <<Ei("S9"), Ei("Zehn"), Ei("Koenig"), Ei("Ass")>>),
      St(3, <<Gr("S9"), Gr("Ass"), Gr("Ober"), Gr("Zehn")>>),
      St(1, <<Sc("S9"), Sc("Ass"), Sc("Koenig"), Sc("Zehn")>>),
      St(2, <<>>)>>)

\* with three cards left the player itself still has a choice to make
ThreeCards ==
  Situation(Rufspiel(2, "Gras"), 4, 1, Cheating,
    <<{Ei("Unter"), Gr("Koenig"), He("S9")}, {Gr("Ass"), Gr("Zehn"), He("Zehn")}, {Gr("S9"), He("Ass")}, {Sc("Ober"), Sc("Zehn")}>>,
    <<St(0, <<Ei("Koenig"), Ei("Zehn"), Ei("S9"), Ei("Ass")>>),
      St(3, <<Gr("Ober"), He("Koenig"), Ei("Ober"), Sc("Unter")>>),
      St(1, <<Sc("S9"), He("Ober"), Sc("Koenig"), Sc("Ass")>>),
      St(2, <<Gr("Unter"), He("Unter")>>)>>)

\* so in a Wenz
WenzThreeCards ==
  Situation(Wenz(2), 0, 1, Cheating,
    <<{Ei("Ober"), Sc("Ober")}, {Ei("S9"), He("Ass"), He("Ober")}, {Ei("Ass"), Ei("Koenig"), He("Zehn")}, {Ei("Zehn"), He("S9")}>>,
    <<St(0, <<Sc("Zehn"), Sc("S9"), Sc("Ass"), He("Unter")>>),
      St(3, <<Gr("Ober"), Gr("S9"), Gr("Ass"), Gr("Zehn")>>),
      St(1, <<Sc("Unter"), Gr("Unter"), Ei("Unter"), Sc("Koenig")>>),
      St(3, <<He("Koenig"), Gr("Koenig")>>)>>)

\* with four cards only some branches are searched
FourCards ==
  Situation(BettelOf(1), 0, 1, Cheating,
    <<{Gr("Unter"), He("S9"), He("Zehn"), Sc("Ober")}, {Ei("S9"), Gr("Ass"), He("Ober"), Sc("Unter")}, {Ei("Koenig"), Gr("Zehn"), He("Koenig")}, {Gr("Koenig"), Gr("Ober"), Gr("S9")}>>,
    <<St(0, <<Ei("Ass"), Ei("Ober"), Ei("Zehn"), Ei("Unter")>>),
      St(0, <<Sc("S9"), Sc("Koenig"), Sc("Ass"), Sc("Zehn")>>),
      St(2, <<He("Unter"), He("Ass")>>)>>)

\* and two of the four hands that are possible, in a Bettel that is lost already
FourCardsSampled ==
  Situation(BettelOf(3), 0, 1, Sampling,
    <<{Gr("Ober"), Gr("Unter"), Sc("Koenig")}, {He("S9"), He("Unter"), Sc("Ass")}, {Ei("Koenig"), Ei("Ober"), Sc("Ober"), Sc("Unter")}, {Ei("Ass"), Ei("S9"), Ei("Zehn")}>>,
    <<St(0, <<Gr("Ass"), Sc("S9"), Gr("Zehn"), Gr("S9")>>),
      St(0, <<He("Koenig"), He("Zehn"), Gr("Koenig"), He("Ass")>>),
      St(3, <<Ei("Unter"), He("Ober"), Sc("Zehn")>>)>>)

\* first card of a Rufspiel: the Rufsau is looked for
Seeking ==
  Situation(Rufspiel(1, "Eichel"), 0, 1, Simulating,
    <<{Ei("Koenig"), Ei("S9"), Gr("Zehn"), He("Koenig"), Sc("Ass"), Sc("Koenig")}, {Ei("Unter"), Ei("Zehn"), Gr("Koenig"), Gr("S9"), He("S9"), He("Zehn")}, {Gr("Ass"), Gr("Ober"), He("Ass"), He("Unter"), Sc("S9"), Sc("Zehn")}, {Ei("Ass"), Ei("Ober"), Gr("Unter"), He("Ober"), Sc("Ober"), Sc("Unter")}>>,
    <<St(0, <<>>)>>)

\* only one card is allowed
OnlyOneCard ==
  Situation(Wenz(3), 0, 1, Simulating,
    <<{Ei("S9")}, {Gr("Ober"), Gr("Unter")}, {Ei("Koenig"), Gr("Koenig")}, {Gr("S9")}>>,
    <<St(0, <<Sc("Ober"), Sc("S9"), Sc("Koenig"), Sc("Ass")>>),
      St(3, <<He("S9"), He("Koenig"), He("Zehn"), Ei("Ass")>>),
      St(1, <<He("Ass"), Sc("Unter"), He("Ober"), He("Unter")>>),
      St(0, <<Ei("Zehn"), Sc("Zehn"), Ei("Ober"), Ei("Unter")>>),
      St(3, <<Gr("Zehn"), Gr("Ass")>>)>>)

\* fourth in the last Stich
LastCard ==
  Situation(Rufspiel(2, "Gras"), 0, 1, Simulating,
    <<{}, {Ei("Ass")}, {}, {}>>,
    <<St(0, <<Sc("Koenig"), Sc("Zehn"), Sc("Ass"), Gr("Ober")>>),
      St(3, <<Gr("Ass"), He("S9"), Gr("Koenig"), Gr("Zehn")>>),
      St(0, <<Sc("Unter"), He("Koenig"), He("Ober"), Sc("Ober")>>),
      St(2, <<Ei("Ober"), Gr("S9"), He("Unter"), Ei("Unter")>>),
      St(2, <<He("Ass"), Ei("Koenig"), He("Zehn"), Ei("Zehn")>>),
      St(2, <<Gr("Unter"), Ei("S9"), Sc("S9")>>)>>)

Positions ==
  {PartnerOfPlayer, SureOrMore, WenzNineHands, RamschThird, BettelIsLost, RufspielLead, SoloLead, RamschLead,
   ThreeCards, WenzThreeCards, FourCards, FourCardsSampled, Seeking, OnlyOneCard}

\* the subcommand suggest-card asks the search although only one card is left
CommandLine == {[LastCard EXCEPT !.b_shortcuts = FALSE]}
=============================================================================
