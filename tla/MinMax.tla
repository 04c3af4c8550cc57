-------------------------------- MODULE MinMax --------------------------------
(***************************************************************************)
(* What the search of the AI computes with (main/src/ai/suspicion.rs and   *)
(* main/src/ai/mod.rs): four payouts of a line of play, one for each way   *)
(* the others may play, and the statistics of a card over many hands.      *)
(***************************************************************************)
EXTENDS PayoutInfo

(***************************************************************************)
(* SPerMinMaxStrategy: the others play against epi; or each for itself,    *)
(* against or for epi when it is all the same to it; or for epi.           *)
(***************************************************************************)
Strategies == {"t_min", "t_selfish_min", "t_selfish_max", "t_max"}

\* SMinMax::new_final
NewFinal(an_payout) == [s \in Strategies |-> an_payout]

\* the function that combine_outputs gives to assign_better: is the payout of one
\* more card of epi_card better than the best so far, for the player epi
Better(strategy, epi, epi_card, an_new, an_best) ==
  IF epi = epi_card THEN an_new[epi] > an_best[epi]
  ELSE CASE strategy = "t_min" -> an_new[epi] < an_best[epi]
         [] strategy = "t_selfish_min" ->
              \/ an_new[epi_card] > an_best[epi_card]
              \/ an_new[epi_card] = an_best[epi_card] /\ an_new[epi] < an_best[epi]
         [] strategy = "t_selfish_max" ->
              \/ an_new[epi_card] > an_best[epi_card]
              \/ an_new[epi_card] = an_best[epi_card] /\ an_new[epi] > an_best[epi]
         [] strategy = "t_max" -> an_new[epi] > an_best[epi]

\* one step of fold1 in combine_outputs
Combine(epi, epi_card, best, new) ==
  [s \in Strategies |-> IF Better(s, epi, epi_card, new[s], best[s]) THEN new[s] ELSE best[s]]

------------------------------------------------------------------------------
(***************************************************************************)
(* SPayoutStats and SPayoutStatsPerStrategy.                               *)
(***************************************************************************)
PayoutStats == [n_min : Int, n_sum : Int, n_max : Int, n_count : Nat \ {0}]

New1(n_payout) == [n_min |-> n_payout, n_sum |-> n_payout, n_max |-> n_payout, n_count |-> 1]

AccumulateStats(a, b) ==
  [n_min |-> IF b.n_min < a.n_min THEN b.n_min ELSE a.n_min,
   n_sum |-> a.n_sum + b.n_sum,
   n_max |-> IF b.n_max > a.n_max THEN b.n_max ELSE a.n_max,
   n_count |-> a.n_count + b.n_count]

StatsOf(output, epi) == [s \in Strategies |-> New1(output[s][epi])]

AccumulateLast(a, b) == [s \in Strategies |-> [AccumulateStats(a[s], b[s]) EXCEPT !.n_min = b[s].n_min]]

Accumulate(a, b) == [s \in Strategies |-> AccumulateStats(a[s], b[s])]

\* avg, compared without dividing
AvgLess(a, b) == a.n_sum * b.n_count < b.n_sum * a.n_count

\* SPayoutStatsPerStrategy::cmp = Less
StatsLessByAverage(a, b) == AvgLess(a["t_selfish_min"], b["t_selfish_min"])

StatsLess(a, b) ==
  LET n_a == a["t_min"].n_min
      n_b == b["t_min"].n_min
      avg_less == AvgLess(a["t_selfish_min"], b["t_selfish_min"])
  IN  IF n_a > 0 /\ n_b > 0 THEN n_a < n_b \/ (n_a = n_b /\ avg_less)
      ELSE IF n_a > 0 \/ n_b > 0 THEN n_b > 0
      ELSE IF n_a = 0 /\ n_b < 0 THEN FALSE
      ELSE IF n_a < 0 /\ n_b = 0 THEN TRUE
      ELSE avg_less

\* cards_with_maximum_value
CardsWithMaximumValue(stats, cards) ==
  { card \in cards : \A other \in cards : ~ StatsLess(stats[card], stats[other]) }
==============================================================================
