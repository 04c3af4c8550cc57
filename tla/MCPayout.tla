------------------------------- MODULE MCPayout -------------------------------
(* Payout with the short deck, six Stichs and the Trumpfs from the Ober of     *)
(* Eichel to the Herz-9, and with one deal of the long deck, whose Trumpfs go  *)
(* on to the Herz-7.  Three of the deals have no points in the last Stich.     *)
EXTENDS Payout

DealtEvenly ==
  [trumpfs |-> <<1, 1, 1, 0, 2, 0, 3, 2, 3, 0, 1, 3>>, rufsau |-> 2,
   points |-> <<41, 29, 20, 19, 11, 0>>]

\* one seat holds all that a Sie takes and another no Trumpf
DealtToOne ==
  [trumpfs |-> <<1, 1, 1, 1, 1, 1, 2, 0, 2, 0, 2, 2>>, rufsau |-> 3,
   points |-> <<44, 40, 16, 11, 9, 0>>]

\* no party holds as many of the highest Trumpfs as count
DealtAgainst ==
  [trumpfs |-> <<3, 0, 1, 2, 0, 1, 3, 2, 0, 2, 1, 1>>, rufsau |-> 0,
   points |-> <<33, 26, 18, 16, 14, 13>>]

\* the long deck, and two seats without a Trumpf: one of them can have as many
\* points as a seat that holds some, 43 with the first Stich or with the next two
DealtToTwo ==
  [trumpfs |-> <<1, 2, 2, 1, 1, 2, 1, 2, 1, 2, 2, 1, 2, 1>>, rufsau |-> 3,
   points |-> <<43, 25, 18, 13, 9, 7, 5, 0>>]

\* 0 is left to a configuration of its own
MCPrices == {-5, 20}
PriceZero == {0}

MCDeals == {DealtEvenly, DealtToOne, DealtAgainst, DealtToTwo}

Contract(kind, n) == [kind |-> kind, epi |-> 1, points_to_win |-> n]

MCContracts ==
  { Contract(kind, 61) : kind \in {"Rufspiel", "Points", "Tout", "Sie", "Bettel",
                                   "Ramsch", "RamschAll"} }
  \cup {Contract("Points", 91), Contract("RamschAtLeast", 75)}
==============================================================================
