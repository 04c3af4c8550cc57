----------------------------- MODULE MCStichOrder -----------------------------
(* StichOrder for every order of the cards; the Farben are alike but for the *)
(* order of equal Schlaege, so Solo, Wenz and Geier are taken with two each. *)
EXTENDS StichOrder

MCDeciders ==
  {BettelDecider} \cup
  UNION { {SoloOf(f), WenzOf(f), GeierOf(f)} : f \in {"Eichel", "Herz", NoFarbe} }
==============================================================================
