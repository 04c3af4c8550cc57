------------------------------ MODULE MCBidding ------------------------------
(***************************************************************************)
(* Four seats and one game of every class of priority, two of the class    *)
(* whose points can be raised.  A Rufspiel is all that a hand can exclude. *)
(***************************************************************************)
EXTENDS BiddingPhases

CONSTANTS Rufspiel, Bettel, Wenz, Solo, Tout, Sie

MCGames == {Rufspiel, Bettel, Wenz, Solo, Tout, Sie}

MCBasePrio ==
  [g \in MCGames |->
     CASE g = Rufspiel -> <<RufspielLike, 0>>
       [] g = Bettel -> <<SoloSimple, -999999>>
       [] g \in {Wenz, Solo} -> <<SoloSteigern, MinPoints>>
       [] g = Tout -> <<SoloTout, 0>>
       [] g = Sie -> <<SoloSie, 0>>]

MCHandGames == {MCGames, MCGames \ {Rufspiel}}
==============================================================================
