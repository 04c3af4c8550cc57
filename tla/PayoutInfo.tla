------------------------------ MODULE PayoutInfo ------------------------------
(***************************************************************************)
(* The arithmetic of the payouts (main/src/rules/payoutdecider.rs and      *)
(* rules/mod.rs): who belongs to which party, what each of the four seats  *)
(* gets or pays, and what the doubled stakes and the stock make of it.     *)
(***************************************************************************)
EXTENDS Integers

\* EPlayerIndex
EPIs == 0 .. 3

\* the sum over all seats
Total(an) == an[0] + an[1] + an[2] + an[3]

(***************************************************************************)
(* TPlayerParties: one seat against three, or two against two.             *)
(***************************************************************************)
Parties13(epi) ==
  [primary |-> {epi}, multiplier |-> [e \in EPIs |-> IF e = epi THEN 3 ELSE 1]]

Parties22(epi, epi_coplayer) ==
  [primary |-> {epi, epi_coplayer}, multiplier |-> [e \in EPIs |-> 1]]

InternalPayout(n_payout_single_player, parties, b_primary_party_wins) ==
  [epi \in EPIs |->
     n_payout_single_player
       * (IF (epi \in parties.primary) = b_primary_party_wins THEN 1 ELSE -1)
       * parties.multiplier[epi]]

(***************************************************************************)
(* SPayoutInfo: the payout and what the seat does with the stock.          *)
(***************************************************************************)
Ignoring(an) == [epi \in EPIs |-> [n_payout |-> an[epi], estockaction |-> "Ignore"]]

\* a Rufspiel: the party of the player halves the stock, or doubles it
SharingStockAll(an, parties) ==
  LET action == IF \A epi \in parties.primary : an[epi] > 0 THEN "TakeHalf" ELSE "GiveHalf"
  IN  [epi \in EPIs |-> [n_payout |-> an[epi], estockaction |-> action]]

SharingStockAlone(an, parties) ==
  LET player == CHOOSE epi \in parties.primary : TRUE
      action == IF an[player] > 0 THEN "TakeHalf" ELSE "GiveHalf"
  IN  [epi \in EPIs |->
         [n_payout |-> an[epi], estockaction |-> IF epi = player THEN action ELSE "Ignore"]]

SharingStock(an, parties) ==
  LET action == IF \A epi \in parties.primary : an[epi] > 0 THEN "TakeHalf" ELSE "GiveHalf"
  IN  [epi \in EPIs |->
         [n_payout |-> an[epi],
          estockaction |-> IF epi \in parties.primary THEN action ELSE "Ignore"]]

\* stakes is 2 to the number of Stoss and doublings
IncludingStock(info, n_stock, stakes) ==
  info.n_payout * stakes
    + (IF info.estockaction = "TakeHalf" THEN n_stock \div 2
       ELSE IF info.estockaction = "GiveHalf" THEN -(n_stock \div 2) ELSE 0)

PayoutIncludingStock(infos, n_stock, stakes) ==
  [epi \in EPIs |-> IncludingStock(infos[epi], n_stock, stakes)]
==============================================================================
