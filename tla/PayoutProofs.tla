----------------------------- MODULE PayoutProofs -----------------------------
(***************************************************************************)
(* Theorems about the payouts and their cache (Payout).                    *)
(*                                                                         *)
(* The sums of the model are folds over a set, which choose the order of   *)
(* the elements themselves; the first part shows that any element may be   *)
(* taken out of such a sum.  The invariant PInv says what the cache and    *)
(* the stack of SUnregisterStich hold after each Stich.  The theorems      *)
(* about a finished game follow from it and from the 120 points there are, *)
(* that of a Ramsch also from RamschInv: how many Stichs the seats without *)
(* a Trumpf can win.                                                       *)
(***************************************************************************)
EXTENDS Payout, FiniteSetTheorems, SequenceTheorems, WellFoundedInduction, TLAPS

(***************************************************************************)
(* Sums over finite sets.                                                  *)
(***************************************************************************)
\* Every set of numbers that has an element has a least one.
LEMMA LeastOf ==
  ASSUME NEW T \in SUBSET Nat, T # {}
  PROVE  \E m \in T : \A k \in T : m <= k
<1>1. PICK m \in T : \A k \in T : ~ (<<k, m>> \in OpToRel(<, Nat))
  BY WFMin, NatLessThanWellFounded
<1>2. ASSUME NEW k \in T
      PROVE  m <= k
  <2>1. ~ (k < m)
    BY <1>1 DEF OpToRel
  <2> QED
    BY <2>1
<1> QED
  BY <1>2

\* the element of T that a fold takes out first
Taken(T) == CHOOSE x \in T : TRUE

\* g is the fold of MapThenFoldSet for the sums of f over the subsets of S
IsSum(g, f, S) ==
  g = [T \in SUBSET S |-> IF T = {} THEN 0 ELSE f[Taken(T)] + g[T \ {Taken(T)}]]

\* The sum is the value of that function, as the community modules define it.
LEMMA SumIsFold ==
  ASSUME NEW f, NEW S
  PROVE  SumFunctionOnSet(f, S) = (CHOOSE g : IsSum(g, f, S))[S]
BY DEF SumFunctionOnSet, FoldFunctionOnSet, MapThenFoldSet, IsSum, Taken

\* g is that fold for the subsets of at most n elements
IsSumUpto(n, g, f, S) ==
  \A T \in SUBSET S : Cardinality(T) <= n =>
    g[T] = IF T = {} THEN 0 ELSE f[Taken(T)] + g[T \ {Taken(T)}]

\* The function is defined for the subsets up to a size if it is for those one smaller.
LEMMA FoldGoesOn ==
  ASSUME NEW f, NEW S, IsFiniteSet(S), NEW n \in Nat, NEW g, IsSumUpto(n, g, f, S)
  PROVE  \E h : IsSumUpto(n + 1, h, f, S)
<1> DEFINE h == [T \in SUBSET S |-> IF Cardinality(T) <= n THEN g[T]
                                    ELSE f[Taken(T)] + g[T \ {Taken(T)}]]
<1>1. ASSUME NEW T \in SUBSET S, Cardinality(T) <= n + 1
      PROVE  h[T] = IF T = {} THEN 0 ELSE f[Taken(T)] + h[T \ {Taken(T)}]
  <2>1. IsFiniteSet(T) /\ Cardinality(T) \in Nat
    BY FS_Subset, FS_CardinalityType
  <2>2. CASE T = {}
    BY <2>2, FS_EmptySet DEF IsSumUpto
  <2>3. CASE T # {}
    <3>1. Taken(T) \in T
      BY <2>3 DEF Taken
    <3>2. Cardinality(T \ {Taken(T)}) = Cardinality(T) - 1
      BY <2>1, <3>1, FS_RemoveElement
    <3>3. h[T \ {Taken(T)}] = g[T \ {Taken(T)}]
      BY <1>1, <2>1, <3>2
    <3>4. h[T] = f[Taken(T)] + g[T \ {Taken(T)}]
      BY <2>3 DEF IsSumUpto
    <3> QED
      BY <2>3, <3>3, <3>4
  <2> QED
    BY <2>2, <2>3
<1> HIDE DEF h
<1> QED
  BY <1>1 DEF IsSumUpto

\* So it is defined for all of them: of the sizes up to which it is not there is no least.
LEMMA FoldExists ==
  ASSUME NEW f, NEW S, IsFiniteSet(S)
  PROVE  \E g : IsSum(g, f, S)
<1> DEFINE Without == { n \in Nat : ~ \E g : IsSumUpto(n, g, f, S) }
<1>1. Without = {}
  <2> SUFFICES ASSUME Without # {} PROVE FALSE
    OBVIOUS
  <2>1. PICK n \in Without : \A k \in Without : n <= k
    BY LeastOf
  <2>2. CASE n = 0
    <3>1. IsSumUpto(0, [T \in SUBSET S |-> 0], f, S)
      <4> SUFFICES ASSUME NEW T \in SUBSET S, Cardinality(T) <= 0 PROVE T = {}
        BY DEF IsSumUpto
      <4> QED
        BY FS_Subset, FS_CardinalityType, FS_EmptySet
    <3> QED
      BY <2>2, <3>1
  <2>3. CASE n # 0
    <3>1. PICK m \in Nat : n = m + 1
      BY <2>3
    <3>2. m \notin Without
      BY <2>1, <3>1
    <3>3. PICK g : IsSumUpto(m, g, f, S)
      BY <3>2
    <3>4. \E h : IsSumUpto(m + 1, h, f, S)
      BY <3>3, FoldGoesOn
    <3> QED
      BY <2>1, <3>1, <3>4
  <2> QED
    BY <2>2, <2>3
<1>2. Cardinality(S) \in Nat
  BY FS_CardinalityType
<1>3. PICK g : IsSumUpto(Cardinality(S), g, f, S)
  BY <1>1, <1>2
<1>4. \A T \in SUBSET S : Cardinality(T) <= Cardinality(S)
  BY FS_Subset
<1> DEFINE h == [T \in SUBSET S |-> g[T]]
<1>5. ASSUME NEW T \in SUBSET S
      PROVE  h[T] = IF T = {} THEN 0 ELSE f[Taken(T)] + h[T \ {Taken(T)}]
  BY <1>3, <1>4 DEF IsSumUpto
<1>6. h = [T \in SUBSET S |-> h[T]]
  OBVIOUS
<1> HIDE DEF h
<1>7. h = [T \in SUBSET S |-> IF T = {} THEN 0 ELSE f[Taken(T)] + h[T \ {Taken(T)}]]
  BY <1>5, <1>6
<1> QED
  BY <1>7 DEF IsSum

\* Folds over different sets agree where both are defined: there is no smallest set for
\* which they do not.
LEMMA FoldsAgree ==
  ASSUME NEW f, NEW S, IsFiniteSet(S), NEW g, IsSum(g, f, S),
         NEW T \in SUBSET S, NEW h, IsSum(h, f, T), NEW U \in SUBSET T
  PROVE  g[U] = h[U]
<1> DEFINE Apart == { n \in Nat : \E V \in SUBSET T : Cardinality(V) = n /\ g[V] # h[V] }
<1>1. ASSUME NEW V \in SUBSET T
      PROVE  /\ IsFiniteSet(V) /\ Cardinality(V) \in Nat
             /\ V = {} => g[V] = 0 /\ h[V] = 0
             /\ V # {} => /\ g[V] = f[Taken(V)] + g[V \ {Taken(V)}]
                         /\ h[V] = f[Taken(V)] + h[V \ {Taken(V)}]
                         /\ Cardinality(V \ {Taken(V)}) = Cardinality(V) - 1
  <2>1. IsFiniteSet(V) /\ Cardinality(V) \in Nat
    BY FS_Subset, FS_CardinalityType
  <2>2. V # {} => Taken(V) \in V
    BY DEF Taken
  <2>3. V # {} => Cardinality(V \ {Taken(V)}) = Cardinality(V) - 1
    BY <2>1, <2>2, FS_RemoveElement
  <2>4. g[V] = IF V = {} THEN 0 ELSE f[Taken(V)] + g[V \ {Taken(V)}]
    BY DEF IsSum
  <2>5. h[V] = IF V = {} THEN 0 ELSE f[Taken(V)] + h[V \ {Taken(V)}]
    BY DEF IsSum
  <2> QED
    BY <2>1, <2>3, <2>4, <2>5
<1>2. ASSUME Apart # {} PROVE FALSE
  <2>1. PICK n \in Apart : \A k \in Apart : n <= k
    BY <1>2, LeastOf
  <2>2. PICK V \in SUBSET T : Cardinality(V) = n /\ g[V] # h[V]
    BY <2>1
  <2>3. V # {}
    BY <1>1, <2>2
  <2>4. g[V \ {Taken(V)}] # h[V \ {Taken(V)}] /\ Cardinality(V \ {Taken(V)}) = n - 1
    BY <1>1, <2>2, <2>3
  <2>5. n - 1 \in Nat
    BY <1>1, <2>4
  <2>6. n - 1 \in Apart
    BY <2>4, <2>5
  <2> QED
    BY <2>1, <2>6
<1> QED
  BY <1>1, <1>2

\* What a sum is made of: nothing, or the element taken first and the sum of the others.
LEMMA SumOfTaken ==
  ASSUME NEW f, NEW S, IsFiniteSet(S)
  PROVE  SumFunctionOnSet(f, S) =
           IF S = {} THEN 0 ELSE f[Taken(S)] + SumFunctionOnSet(f, S \ {Taken(S)})
<1> DEFINE Fold(T) == CHOOSE g : IsSum(g, f, T)
<1>1. ASSUME NEW T \in SUBSET S
      PROVE  IsSum(Fold(T), f, T) /\ SumFunctionOnSet(f, T) = Fold(T)[T]
  BY FS_Subset, FoldExists, SumIsFold
<1>2. Fold(S)[S] = IF S = {} THEN 0 ELSE f[Taken(S)] + Fold(S)[S \ {Taken(S)}]
  <2> DEFINE g == Fold(S)
  <2>1. IsSum(g, f, S)
    BY <1>1
  <2> HIDE DEF g
  <2>2. g[S] = IF S = {} THEN 0 ELSE f[Taken(S)] + g[S \ {Taken(S)}]
    BY <2>1 DEF IsSum
  <2> QED
    BY <2>2 DEF g
<1>3. Fold(S)[S \ {Taken(S)}] = Fold(S \ {Taken(S)})[S \ {Taken(S)}]
  <2> HIDE DEF Fold
  <2> QED
    BY <1>1, FoldsAgree
<1> HIDE DEF Fold
<1> QED
  BY <1>1, <1>2, <1>3

\* The sum of numbers is a number.
LEMMA SumIsInt ==
  ASSUME NEW f, NEW S, IsFiniteSet(S), \A x \in S : f[x] \in Int
  PROVE  SumFunctionOnSet(f, S) \in Int
<1> DEFINE sum == [T \in SUBSET S |-> SumFunctionOnSet(f, T)]
           None == { n \in Nat : \E T \in SUBSET S : Cardinality(T) = n /\ sum[T] \notin Int }
<1>1. ASSUME NEW T \in SUBSET S
      PROVE  /\ Cardinality(T) \in Nat
             /\ T = {} => sum[T] = 0
             /\ T # {} => /\ Taken(T) \in T
                         /\ sum[T] = f[Taken(T)] + sum[T \ {Taken(T)}]
                         /\ Cardinality(T \ {Taken(T)}) = Cardinality(T) - 1
  <2>1. IsFiniteSet(T) /\ Cardinality(T) \in Nat
    BY FS_Subset, FS_CardinalityType
  <2>2. T # {} => Taken(T) \in T
    BY DEF Taken
  <2> QED
    BY <2>1, <2>2, FS_RemoveElement, SumOfTaken
<1> HIDE DEF sum
<1>2. ASSUME None # {} PROVE FALSE
  <2>1. PICK n \in None : \A k \in None : n <= k
    BY <1>2, LeastOf
  <2>2. PICK T \in SUBSET S : Cardinality(T) = n /\ sum[T] \notin Int
    BY <2>1
  <2>3. T # {}
    <3>1. 0 \in Int
      OBVIOUS
    <3> QED
      BY <1>1, <2>2, <3>1
  <2>4. sum[T \ {Taken(T)}] \notin Int /\ Cardinality(T \ {Taken(T)}) = n - 1
    BY <1>1, <2>2, <2>3
  <2>5. n - 1 \in None
    BY <1>1, <2>4
  <2> QED
    BY <2>1, <2>5
<1> QED
  BY <1>1, <1>2 DEF sum

\* Any element can be taken out of a sum, whichever the fold takes first.
LEMMA SumWithout ==
  ASSUME NEW f, NEW S, IsFiniteSet(S), \A x \in S : f[x] \in Int, NEW x \in S
  PROVE  SumFunctionOnSet(f, S) = f[x] + SumFunctionOnSet(f, S \ {x})
<1> DEFINE sum == [T \in SUBSET S |-> SumFunctionOnSet(f, T)]
           Differs(T) == \E y \in T : sum[T] # f[y] + sum[T \ {y}]
           Sizes == { n \in Nat : \E T \in SUBSET S : Cardinality(T) = n /\ Differs(T) }
<1>1. ASSUME NEW T \in SUBSET S
      PROVE  /\ Cardinality(T) \in Nat
             /\ sum[T] \in Int
             /\ \A y \in T : Cardinality(T \ {y}) = Cardinality(T) - 1
             /\ T # {} => Taken(T) \in T /\ sum[T] = f[Taken(T)] + sum[T \ {Taken(T)}]
  <2>1. IsFiniteSet(T) /\ Cardinality(T) \in Nat
    BY FS_Subset, FS_CardinalityType
  <2>2. T # {} => Taken(T) \in T
    BY DEF Taken
  <2> QED
    BY <2>1, <2>2, FS_RemoveElement, SumOfTaken, SumIsInt
<1> HIDE DEF sum
<1>2. ASSUME Sizes # {} PROVE FALSE
  <2>1. PICK n \in Sizes : \A k \in Sizes : n <= k
    BY <1>2, LeastOf
  <2>2. PICK T \in SUBSET S : Cardinality(T) = n /\ Differs(T)
    BY <2>1
  <2>3. PICK y \in T : sum[T] # f[y] + sum[T \ {y}]
    BY <2>2
  <2> DEFINE t == Taken(T)
  <2>4. t \in T /\ sum[T] = f[t] + sum[T \ {t}]
    BY <1>1
  <2>5. t # y
    BY <2>3, <2>4
  <2>6. Cardinality(T \ {t}) = n - 1 /\ Cardinality(T \ {y}) = n - 1 /\ n - 1 \in Nat
    BY <1>1, <2>2, <2>4
  <2>7. n - 1 \notin Sizes
    BY <2>1
  <2>8. ~ Differs(T \ {t}) /\ ~ Differs(T \ {y})
    BY <2>6, <2>7
  <2>9. sum[T \ {t}] = f[y] + sum[(T \ {t}) \ {y}]
    BY <2>5, <2>8
  <2>10. sum[T \ {y}] = f[t] + sum[(T \ {y}) \ {t}]
    BY <2>4, <2>5, <2>8
  <2>11. (T \ {t}) \ {y} = (T \ {y}) \ {t}
    OBVIOUS
  <2>12. f[t] \in Int /\ f[y] \in Int /\ sum[(T \ {t}) \ {y}] \in Int
    BY <1>1, <2>4
  <2>13. sum[T] = f[t] + (f[y] + sum[(T \ {t}) \ {y}])
    BY <2>4, <2>9
  <2>14. f[y] + sum[T \ {y}] = f[y] + (f[t] + sum[(T \ {t}) \ {y}])
    BY <2>10, <2>11
  <2> HIDE DEF t
  <2> QED
    BY <2>3, <2>12, <2>13, <2>14
<1>3. ~ Differs(S)
  BY <1>1, <1>2
<1> QED
  BY <1>3 DEF sum

\* Two sets without a common element have together the sum of their sums.
LEMMA SumOfUnion ==
  ASSUME NEW f, NEW S, IsFiniteSet(S), NEW T, IsFiniteSet(T), S \cap T = {},
         \A x \in S \cup T : f[x] \in Int
  PROVE  SumFunctionOnSet(f, S \cup T) = SumFunctionOnSet(f, S) + SumFunctionOnSet(f, T)
<1> DEFINE all == [U \in SUBSET (S \cup T) |-> SumFunctionOnSet(f, U)]
           Differs(U) == all[U \cup T] # all[U] + all[T]
           Sizes == { n \in Nat : \E U \in SUBSET S : Cardinality(U) = n /\ Differs(U) }
<1>1. ASSUME NEW U \in SUBSET (S \cup T)
      PROVE  /\ IsFiniteSet(U) /\ Cardinality(U) \in Nat
             /\ all[U] \in Int
             /\ \A x \in U : /\ Cardinality(U \ {x}) = Cardinality(U) - 1
                             /\ all[U] = f[x] + all[U \ {x}]
             /\ U = {} => all[U] = 0
  <2>1. IsFiniteSet(S \cup T)
    BY FS_Union
  <2>2. IsFiniteSet(U) /\ Cardinality(U) \in Nat
    BY <2>1, FS_Subset, FS_CardinalityType
  <2>3. \A x \in U : f[x] \in Int
    OBVIOUS
  <2>4. all[U] \in Int /\ (U = {} => all[U] = 0)
    BY <2>2, <2>3, SumIsInt, SumOfTaken
  <2>5. ASSUME NEW x \in U
        PROVE  Cardinality(U \ {x}) = Cardinality(U) - 1 /\ all[U] = f[x] + all[U \ {x}]
    <3>1. Cardinality(U \ {x}) = Cardinality(U) - 1
      BY <2>2, FS_RemoveElement
    <3>2. SumFunctionOnSet(f, U) = f[x] + SumFunctionOnSet(f, U \ {x})
      BY <2>2, <2>3, SumWithout
    <3> QED
      BY <3>1, <3>2
  <2> QED
    BY <2>2, <2>4, <2>5
<1> HIDE DEF all
<1>2. ASSUME Sizes # {} PROVE FALSE
  <2>1. PICK n \in Sizes : \A k \in Sizes : n <= k
    BY <1>2, LeastOf
  <2>2. PICK U \in SUBSET S : Cardinality(U) = n /\ Differs(U)
    BY <2>1
  <2>3. U # {}
    <3> SUFFICES ASSUME U = {} PROVE FALSE
      OBVIOUS
    <3>1. U \cup T = T /\ all[U] = 0 /\ all[T] \in Int
      BY <1>1
    <3> QED
      BY <2>2, <3>1
  <2>4. PICK x \in U : TRUE
    BY <2>3
  <2>5. Cardinality(U \ {x}) = n - 1 /\ n - 1 \in Nat /\ all[U] = f[x] + all[U \ {x}]
    BY <1>1, <2>2
  <2>6. all[(U \ {x}) \cup T] = all[U \ {x}] + all[T]
    <3>1. n - 1 \notin Sizes
      <4>1. n \in Nat
        OBVIOUS
      <4> HIDE DEF Sizes
      <4> QED
        BY <2>1, <4>1
    <3>2. ~ Differs(U \ {x})
      BY <2>5, <3>1
    <3> QED
      BY <3>2
  <2>7. all[U \cup T] = f[x] + all[(U \cup T) \ {x}]
    BY <1>1
  <2>8. (U \cup T) \ {x} = (U \ {x}) \cup T
    OBVIOUS
  <2>9. f[x] \in Int /\ all[U \ {x}] \in Int /\ all[T] \in Int
    BY <1>1
  <2>10. all[U \cup T] = f[x] + (all[U \ {x}] + all[T])
    BY <2>6, <2>7, <2>8
  <2>11. all[U] + all[T] = (f[x] + all[U \ {x}]) + all[T]
    BY <2>5
  <2>12. all[U \cup T] # all[U] + all[T]
    BY <2>2
  <2> QED
    BY <2>9, <2>10, <2>11, <2>12
<1>3. ~ Differs(S)
  BY <1>1, <1>2
<1> QED
  BY <1>3 DEF all

\* Sums of natural numbers are natural, and those over parts are not greater.
LEMMA SumIsNat ==
  ASSUME NEW f, NEW S, IsFiniteSet(S), \A x \in S : f[x] \in Nat
  PROVE  SumFunctionOnSet(f, S) \in Nat
<1> DEFINE sum == [T \in SUBSET S |-> SumFunctionOnSet(f, T)]
           Sizes == { n \in Nat : \E T \in SUBSET S : Cardinality(T) = n /\ ~ (0 <= sum[T]) }
<1>1. ASSUME NEW T \in SUBSET S
      PROVE  /\ Cardinality(T) \in Nat
             /\ sum[T] \in Int
             /\ T = {} => sum[T] = 0
             /\ \A x \in T : /\ Cardinality(T \ {x}) = Cardinality(T) - 1
                             /\ sum[T] = f[x] + sum[T \ {x}]
  <2>1. IsFiniteSet(T) /\ Cardinality(T) \in Nat
    BY FS_Subset, FS_CardinalityType
  <2>2. \A x \in T : f[x] \in Int
    OBVIOUS
  <2>3. sum[T] \in Int /\ (T = {} => sum[T] = 0)
    BY <2>1, <2>2, SumIsInt, SumOfTaken
  <2>4. ASSUME NEW x \in T
        PROVE  Cardinality(T \ {x}) = Cardinality(T) - 1 /\ sum[T] = f[x] + sum[T \ {x}]
    <3>1. Cardinality(T \ {x}) = Cardinality(T) - 1
      BY <2>1, FS_RemoveElement
    <3>2. SumFunctionOnSet(f, T) = f[x] + SumFunctionOnSet(f, T \ {x})
      BY <2>1, <2>2, SumWithout
    <3> QED
      BY <3>1, <3>2
  <2> QED
    BY <2>1, <2>3, <2>4
<1> HIDE DEF sum
<1>2. ASSUME Sizes # {} PROVE FALSE
  <2>1. PICK n \in Sizes : \A k \in Sizes : n <= k
    BY <1>2, LeastOf
  <2>2. PICK T \in SUBSET S : Cardinality(T) = n /\ ~ (0 <= sum[T])
    BY <2>1
  <2>3. PICK x \in T : TRUE
    BY <1>1, <2>2
  <2>4. Cardinality(T \ {x}) = n - 1 /\ n - 1 \in Nat /\ sum[T] = f[x] + sum[T \ {x}]
    BY <1>1, <2>2
  <2>5. 0 <= sum[T \ {x}]
    BY <2>1, <2>4
  <2>6. f[x] \in Nat /\ sum[T \ {x}] \in Int
    BY <1>1
  <2> QED
    BY <2>2, <2>4, <2>5, <2>6
<1>3. 0 <= sum[S] /\ sum[S] \in Int
  BY <1>1, <1>2
<1> QED
  BY <1>3 DEF sum

------------------------------------------------------------------------------
(***************************************************************************)
(* The cache after each Stich.                                             *)
(***************************************************************************)
\* the Stichs of ws that epi has made among the first n
Won(ws, n, epi) == { i \in 1 .. n : ws[i] = epi }

PTypes ==
  /\ deal \in PlayedDeals
  /\ contract \in Contracts
  /\ contract.kind = "Rufspiel" => contract.epi # deal.rufsau
  /\ n_price \in PricesInFile /\ n_price >= 0
  /\ winners \in Seq(EPIs)
  /\ Len(winners) <= CardsPerPlayer(deal)
  /\ cache \in [EPIs -> [n_stich : Nat, n_point : Nat]]

\* each SUnregisterStich names the winner of its Stich and the points before it
UndoRestores ==
  /\ undo \in Seq([epi_winner : EPIs, n_points_before : Nat])
  /\ Len(undo) = Len(winners)
  /\ \A i \in 1 .. Len(winners) :
       /\ undo[i].epi_winner = winners[i]
       /\ undo[i].n_points_before = SumFunctionOnSet(deal.points, Won(winners, i - 1, winners[i]))

PInv == PTypes /\ CacheIsRecount /\ UndoRestores

\* The points of the Stichs of a deal are natural numbers, together 120.
LEMMA PointsOfDeal ==
  ASSUME NEW d \in PlayedDeals
  PROVE  /\ d.points \in Seq(Nat)
         /\ CardsPerPlayer(d) = Len(d.points) /\ CardsPerPlayer(d) \in Nat
         /\ \A i \in 1 .. CardsPerPlayer(d) : d.points[i] \in Nat
         /\ SumFunctionOnSet(d.points, 1 .. CardsPerPlayer(d)) = 120
<1>1. StichPoints \subseteq Nat
  <2>1. CardPoints \subseteq Nat
    BY DEF CardPoints
  <2> QED
    BY <2>1 DEF StichPoints
<1>2. d.points \in Seq(StichPoints) /\ SumFunction(d.points) = 120
  BY PayoutAssumption
<1>3. d.points \in Seq(Nat) /\ DOMAIN d.points = 1 .. Len(d.points)
  <2>1. Seq(StichPoints) \subseteq Seq(Nat)
    BY <1>1, SeqMonotonic
  <2> QED
    BY <1>2, <2>1
<1>4. SumFunctionOnSet(d.points, 1 .. Len(d.points)) = 120
  BY <1>2, <1>3 DEF SumFunction
<1> QED
  BY <1>3, <1>4 DEF CardsPerPlayer

\* The Stichs that a seat has made are finitely many, with points that add up.
LEMMA PointsWon ==
  ASSUME NEW d \in PlayedDeals, NEW ws, NEW n \in 0 .. CardsPerPlayer(d), NEW epi
  PROVE  /\ IsFiniteSet(Won(ws, n, epi)) /\ Cardinality(Won(ws, n, epi)) \in Nat
         /\ \A i \in Won(ws, n, epi) : d.points[i] \in Nat
         /\ SumFunctionOnSet(d.points, Won(ws, n, epi)) \in Nat
<1>1. CardsPerPlayer(d) \in Nat /\ \A i \in 1 .. CardsPerPlayer(d) : d.points[i] \in Nat
  BY PointsOfDeal
<1>2. IsFiniteSet(1 .. n) /\ Won(ws, n, epi) \subseteq 1 .. n
  BY <1>1, FS_Interval DEF Won
<1>3. IsFiniteSet(Won(ws, n, epi)) /\ Cardinality(Won(ws, n, epi)) \in Nat
  BY <1>2, FS_Subset, FS_CardinalityType
<1>4. \A i \in Won(ws, n, epi) : d.points[i] \in Nat
  BY <1>1, <1>2
<1> QED
  BY <1>3, <1>4, SumIsNat

\* One Stich more, for the seat that makes it and for the others.
LEMMA OneStichMore ==
  ASSUME NEW d \in PlayedDeals, NEW ws, NEW n \in 0 .. CardsPerPlayer(d) - 1, NEW epi
  PROVE  /\ Cardinality(Won(ws, n + 1, epi))
              = Cardinality(Won(ws, n, epi)) + (IF ws[n + 1] = epi THEN 1 ELSE 0)
         /\ SumFunctionOnSet(d.points, Won(ws, n + 1, epi))
              = SumFunctionOnSet(d.points, Won(ws, n, epi)) + (IF ws[n + 1] = epi THEN d.points[n + 1] ELSE 0)
<1> DEFINE before == Won(ws, n, epi)
           after == Won(ws, n + 1, epi)
<1>1. CardsPerPlayer(d) \in Nat /\ n \in 0 .. CardsPerPlayer(d) /\ n + 1 \in 1 .. CardsPerPlayer(d)
  BY PointsOfDeal
<1>2. /\ IsFiniteSet(before) /\ Cardinality(before) \in Nat /\ SumFunctionOnSet(d.points, before) \in Nat
      /\ IsFiniteSet(after) /\ \A i \in after : d.points[i] \in Nat
  <2>1. IsFiniteSet(before) /\ Cardinality(before) \in Nat /\ SumFunctionOnSet(d.points, before) \in Nat
    BY <1>1, PointsWon
  <2>2. n + 1 \in 0 .. CardsPerPlayer(d)
    BY <1>1
  <2>3. IsFiniteSet(after) /\ \A i \in after : d.points[i] \in Nat
    BY <2>2, PointsWon
  <2> QED
    BY <2>1, <2>3
<1>3. d.points[n + 1] \in Nat
  BY <1>1, PointsOfDeal
<1>4. CASE ws[n + 1] = epi
  <2>1. after = before \cup {n + 1} /\ n + 1 \notin before /\ after \ {n + 1} = before
    BY <1>1, <1>4 DEF Won
  <2>2. Cardinality(after) = Cardinality(before) + 1
    BY <1>2, <2>1, FS_AddElement
  <2>3. n + 1 \in after /\ \A i \in after : d.points[i] \in Int
    BY <1>2, <2>1
  <2>4. SumFunctionOnSet(d.points, after) = d.points[n + 1] + SumFunctionOnSet(d.points, before)
    BY <1>2, <2>1, <2>3, SumWithout
  <2> HIDE DEF before, after
  <2>5. SumFunctionOnSet(d.points, after) = SumFunctionOnSet(d.points, before) + d.points[n + 1]
    BY <1>2, <1>3, <2>4
  <2> QED
    BY <1>4, <2>2, <2>5 DEF before, after
<1>5. CASE ws[n + 1] # epi
  <2>1. after = before
    BY <1>1, <1>5 DEF Won
  <2> QED
    BY <1>2, <1>5, <2>1
<1> QED
  BY <1>4, <1>5

\* the counts c are those of the Stichs ws with these points, field by field
Counted(c, ws, points) ==
  \A epi \in EPIs : /\ c[epi].n_stich = Cardinality(Won(ws, Len(ws), epi))
                    /\ c[epi].n_point = SumFunctionOnSet(points, Won(ws, Len(ws), epi))

\* the Stichs of ws that epi has made
WonBy(ws, epi) == { i \in DOMAIN ws : ws[i] = epi }

\* CacheIsRecount says so with records.
LEMMA RecountByField ==
  ASSUME NEW c \in [EPIs -> [n_stich : Nat, n_point : Nat]], NEW ws \in Seq(EPIs), NEW points
  PROVE  (\A epi \in EPIs :
            c[epi] = [n_stich |-> Cardinality(WonBy(ws, epi)),
                      n_point |-> SumFunctionOnSet(points, WonBy(ws, epi))])
         <=> Counted(c, ws, points)
<1>1. ASSUME NEW epi \in EPIs, NEW n, NEW m
      PROVE  c[epi] = [n_stich |-> n, n_point |-> m] <=> c[epi].n_stich = n /\ c[epi].n_point = m
  <2>1. c[epi] \in [n_stich : Nat, n_point : Nat]
    OBVIOUS
  <2> QED
    BY <2>1
<1>2. ASSUME NEW epi \in EPIs
      PROVE  WonBy(ws, epi) = Won(ws, Len(ws), epi)
  BY DEF Won, WonBy
<1>3. ASSUME NEW epi \in EPIs
      PROVE  c[epi] = [n_stich |-> Cardinality(WonBy(ws, epi)),
                       n_point |-> SumFunctionOnSet(points, WonBy(ws, epi))]
             <=> /\ c[epi].n_stich = Cardinality(Won(ws, Len(ws), epi))
                 /\ c[epi].n_point = SumFunctionOnSet(points, Won(ws, Len(ws), epi))
  BY <1>1, <1>2
<1> QED
  BY <1>3 DEF Counted

\* Before the first Stich nothing is counted.
LEMMA InitPInv == Init => PInv
<1> SUFFICES ASSUME Init PROVE PInv
  OBVIOUS
<1>1. deal \in PlayedDeals /\ winners = <<>> /\ undo = <<>> /\ cache = EmptyCache
  BY DEF Init
<1>2. CardsPerPlayer(deal) \in Nat
  BY <1>1, PointsOfDeal
<1>3. n_price \in PricesInFile /\ n_price >= 0
  BY PayoutAssumption DEF Init, AcceptedPrice
<1>4. PTypes
  <2>1. winners \in Seq(EPIs) /\ Len(winners) = 0
    BY <1>1
  <2>2. cache \in [EPIs -> [n_stich : Nat, n_point : Nat]]
    BY <1>1 DEF EmptyCache
  <2> QED
    BY <1>2, <1>3, <2>1, <2>2 DEF PTypes, Init
<1>5. Counted(cache, winners, deal.points)
  <2> SUFFICES ASSUME NEW epi \in EPIs
               PROVE  /\ cache[epi].n_stich = Cardinality(Won(winners, Len(winners), epi))
                      /\ cache[epi].n_point = SumFunctionOnSet(deal.points, Won(winners, Len(winners), epi))
    BY DEF Counted
  <2>1. Won(winners, Len(winners), epi) = {}
    BY <1>1 DEF Won
  <2>2. SumFunctionOnSet(deal.points, {}) = 0
    BY FS_EmptySet, SumOfTaken
  <2>3. cache[epi].n_stich = 0 /\ cache[epi].n_point = 0
    BY <1>1 DEF EmptyCache
  <2> QED
    BY <2>1, <2>2, <2>3, FS_EmptySet
<1>6. UndoRestores
  BY <1>1 DEF UndoRestores
<1>7. CacheIsRecount
  <2>1. \A epi \in EPIs :
          cache[epi] = [n_stich |-> Cardinality(WonBy(winners, epi)),
                        n_point |-> SumFunctionOnSet(deal.points, WonBy(winners, epi))]
    BY <1>4, <1>5, RecountByField DEF PTypes
  <2> QED
    BY <2>1 DEF CacheIsRecount, WonBy
<1> QED
  BY <1>4, <1>6, <1>7 DEF PInv

\* In every state the counts are those of the Stichs.
LEMMA PInvCounted ==
  ASSUME PInv
  PROVE  Counted(cache, winners, deal.points)
BY RecountByField DEF PInv, PTypes, CacheIsRecount, WonBy

\* A Stich that ends is counted for its winner, and its undoing remembers the points.
LEMMA RegisterKeepsPInv ==
  ASSUME PInv, NEW epi \in EPIs, RegisterStich(epi)
  PROVE  PInv'
<1> DEFINE n == Len(winners)
<1>1. /\ deal \in PlayedDeals /\ winners \in Seq(EPIs) /\ n <= CardsPerPlayer(deal)
      /\ cache \in [EPIs -> [n_stich : Nat, n_point : Nat]]
  BY DEF PInv, PTypes
<1>2. /\ n # CardsPerPlayer(deal)
      /\ winners' = Append(winners, epi)
      /\ cache' = Register(cache, epi, deal.points[n + 1])
      /\ undo' = Append(undo, [epi_winner |-> epi, n_points_before |-> cache[epi].n_point])
      /\ UNCHANGED <<deal, contract, n_price>>
  BY DEF RegisterStich, GameFinished
<1>3. /\ n \in Nat /\ CardsPerPlayer(deal) \in Nat /\ n < CardsPerPlayer(deal)
      /\ deal.points[n + 1] \in Nat
  <2>1. n \in Nat /\ CardsPerPlayer(deal) \in Nat /\ n < CardsPerPlayer(deal)
    BY <1>1, <1>2, PointsOfDeal
  <2> QED
    BY <1>1, <2>1, PointsOfDeal
<1>4. /\ winners' \in Seq(EPIs) /\ Len(winners') = n + 1 /\ winners'[n + 1] = epi
      /\ \A i \in 1 .. n : winners'[i] = winners[i]
  BY <1>1, <1>2, AppendProperties
<1>5. \A e : \A k \in 0 .. n : Won(winners', k, e) = Won(winners, k, e)
  BY <1>3, <1>4 DEF Won
<1>6. \A e \in EPIs :
        /\ cache[e].n_stich = Cardinality(Won(winners, n, e))
        /\ cache[e].n_point = SumFunctionOnSet(deal.points, Won(winners, n, e))
  BY PInvCounted DEF Counted
<1>7. PTypes'
  <2>1. cache' \in [EPIs -> [n_stich : Nat, n_point : Nat]]
    <3>1. ASSUME NEW e \in EPIs PROVE cache'[e] \in [n_stich : Nat, n_point : Nat]
      <4>1. cache[e] \in [n_stich : Nat, n_point : Nat]
        BY <1>1
      <4>2. cache'[e] = IF e = epi THEN [cache[e] EXCEPT !.n_stich = @ + 1, !.n_point = @ + deal.points[n + 1]]
                        ELSE cache[e]
        BY <1>1, <1>2 DEF Register
      <4>3. CASE e = epi
        <5> DEFINE more == [n_stich |-> cache[e].n_stich + 1, n_point |-> cache[e].n_point + deal.points[n + 1]]
        <5>1. cache'[e] = more
          BY <4>1, <4>2, <4>3
        <5>2. more \in [n_stich : Nat, n_point : Nat]
          BY <1>3, <4>1, SMTT(60)
        <5> QED
          BY <5>1, <5>2
      <4>4. CASE e # epi
        BY <4>1, <4>2, <4>4
      <4> QED
        BY <4>3, <4>4
    <3>2. cache' = [e \in EPIs |-> cache'[e]]
      BY <1>1, <1>2 DEF Register
    <3> QED
      BY <3>1, <3>2
  <2>2. Len(winners') <= CardsPerPlayer(deal)
    BY <1>3, <1>4
  <2> QED
    BY <1>2, <1>4, <2>1, <2>2 DEF PInv, PTypes
<1>8. ASSUME NEW e \in EPIs
      PROVE  /\ cache'[e].n_stich = Cardinality(Won(winners', n + 1, e))
             /\ cache'[e].n_point = SumFunctionOnSet(deal.points, Won(winners', n + 1, e))
  <2>1. /\ cache'[e].n_stich = cache[e].n_stich + (IF epi = e THEN 1 ELSE 0)
        /\ cache'[e].n_point = cache[e].n_point + (IF epi = e THEN deal.points[n + 1] ELSE 0)
    BY <1>1, <1>2, <1>3 DEF Register
  <2>2. n \in 0 .. CardsPerPlayer(deal) - 1 /\ n \in 0 .. n
    BY <1>3
  <2>3. /\ Cardinality(Won(winners', n + 1, e))
              = Cardinality(Won(winners', n, e)) + (IF winners'[n + 1] = e THEN 1 ELSE 0)
        /\ SumFunctionOnSet(deal.points, Won(winners', n + 1, e))
              = SumFunctionOnSet(deal.points, Won(winners', n, e)) + (IF winners'[n + 1] = e THEN deal.points[n + 1] ELSE 0)
    BY <1>1, <2>2, OneStichMore
  <2>4. Won(winners', n, e) = Won(winners, n, e)
    BY <1>5, <2>2
  <2> QED
    BY <1>4, <1>6, <2>1, <2>3, <2>4
<1>9. CacheIsRecount'
  <2>1. deal' = deal /\ Len(winners') = n + 1
    BY <1>2, <1>4
  <2>2. Counted(cache', winners', deal'.points)
    BY <1>8, <2>1 DEF Counted
  <2>3. cache' \in [EPIs -> [n_stich : Nat, n_point : Nat]] /\ winners' \in Seq(EPIs)
    BY <1>7 DEF PTypes
  <2>4. \A e \in EPIs :
          cache'[e] = [n_stich |-> Cardinality(WonBy(winners', e)),
                       n_point |-> SumFunctionOnSet(deal'.points, WonBy(winners', e))]
    BY <2>2, <2>3, RecountByField
  <2> QED
    BY <2>4 DEF CacheIsRecount, WonBy
<1>10. UndoRestores'
  <2> DEFINE top == [epi_winner |-> epi, n_points_before |-> cache[epi].n_point]
  <2>1. undo \in Seq([epi_winner : EPIs, n_points_before : Nat]) /\ Len(undo) = n
    BY DEF PInv, UndoRestores
  <2>2. top \in [epi_winner : EPIs, n_points_before : Nat]
    BY <1>1
  <2>3. /\ undo' \in Seq([epi_winner : EPIs, n_points_before : Nat])
        /\ Len(undo') = n + 1 /\ undo'[n + 1] = top /\ \A i \in 1 .. n : undo'[i] = undo[i]
    BY <1>2, <2>1, <2>2, AppendProperties
  <2>4. ASSUME NEW i \in 1 .. n + 1
        PROVE  /\ undo'[i].epi_winner = winners'[i]
               /\ undo'[i].n_points_before = SumFunctionOnSet(deal.points, Won(winners', i - 1, winners'[i]))
    <3>1. i - 1 \in 0 .. n
      BY <1>3
    <3>2. Won(winners', i - 1, winners'[i]) = Won(winners, i - 1, winners'[i])
      BY <1>5, <3>1
    <3>3. CASE i = n + 1
      <4>1. undo'[i].n_points_before = SumFunctionOnSet(deal.points, Won(winners, n, epi))
        BY <1>6, <2>3, <3>3
      <4>2. i - 1 = n
        BY <1>3, <3>3
      <4> QED
        BY <1>4, <2>3, <3>2, <3>3, <4>1, <4>2
    <3>4. CASE i # n + 1
      <4>1. i \in 1 .. n
        BY <1>3, <3>4
      <4>2. /\ undo[i].epi_winner = winners[i]
            /\ undo[i].n_points_before = SumFunctionOnSet(deal.points, Won(winners, i - 1, winners[i]))
        BY <4>1 DEF PInv, UndoRestores
      <4> QED
        BY <1>4, <2>3, <3>2, <4>1, <4>2
    <3> QED
      BY <3>3, <3>4
  <2> QED
    BY <1>2, <1>4, <2>3, <2>4 DEF UndoRestores
<1> QED
  BY <1>7, <1>9, <1>10 DEF PInv

\* What is left of a sequence without its last element.
LEMMA AllButLast ==
  ASSUME NEW S, NEW s \in Seq(S), NEW n \in Nat, Len(s) = n + 1
  PROVE  /\ SubSeq(s, 1, n) \in Seq(S) /\ Len(SubSeq(s, 1, n)) = n
         /\ \A i \in 1 .. n : SubSeq(s, 1, n)[i] = s[i]
<1>1. \A i \in 1 .. n : s[i] \in S
  OBVIOUS
<1>2. 1 \in Int /\ n \in Int /\ n - 1 + 1 = n /\ \A i \in 1 .. n : 1 + i - 1 = i
  OBVIOUS
<1>3. /\ SubSeq(s, 1, n) \in Seq(S) /\ Len(SubSeq(s, 1, n)) = (IF 1 <= n THEN n - 1 + 1 ELSE 0)
      /\ \A i \in 1 .. n - 1 + 1 : SubSeq(s, 1, n)[i] = s[1 + i - 1]
  BY <1>1, <1>2, SubSeqProperties
<1>4. Len(SubSeq(s, 1, n)) = n
  BY <1>3
<1>5. ASSUME NEW i \in 1 .. n PROVE SubSeq(s, 1, n)[i] = s[i]
  BY <1>2, <1>3
<1> QED
  BY <1>3, <1>4, <1>5

\* Taking back the last Stich finds the points of its winner where they were before it.
LEMMA UnregisterKeepsPInv ==
  ASSUME PInv, UnregisterStich
  PROVE  PInv'
<1>1. /\ deal \in PlayedDeals /\ winners \in Seq(EPIs) /\ Len(winners) <= CardsPerPlayer(deal)
      /\ cache \in [EPIs -> [n_stich : Nat, n_point : Nat]]
      /\ undo \in Seq([epi_winner : EPIs, n_points_before : Nat]) /\ Len(undo) = Len(winners)
  BY DEF PInv, PTypes, UndoRestores
<1>2. PICK n \in Nat : Len(winners) = n + 1
  <2>1. undo # <<>>
    BY DEF UnregisterStich
  <2>2. Len(undo) \in Nat /\ Len(undo) # 0
    BY <1>1, <2>1, EmptySeq
  <2>3. Len(undo) - 1 \in Nat /\ Len(winners) = (Len(undo) - 1) + 1
    BY <1>1, <2>2
  <2> QED
    BY <2>3
<1> DEFINE last == undo[n + 1]
           epi == winners[n + 1]
<1>3. /\ epi \in EPIs /\ last.epi_winner = epi
      /\ last.n_points_before = SumFunctionOnSet(deal.points, Won(winners, n, epi))
  <2>1. n + 1 \in 1 .. Len(winners) /\ (n + 1) - 1 = n
    BY <1>2
  <2> QED
    BY <1>1, <2>1 DEF PInv, UndoRestores
<1>4. /\ cache' = [cache EXCEPT ![epi].n_point = last.n_points_before, ![epi].n_stich = @ - 1]
      /\ undo' = SubSeq(undo, 1, n) /\ winners' = SubSeq(winners, 1, n)
      /\ UNCHANGED <<deal, contract, n_price>>
  <2>1. Len(undo) = n + 1 /\ (n + 1) - 1 = n
    BY <1>1, <1>2
  <2>2. /\ undo[Len(undo)] = last
        /\ SubSeq(undo, 1, Len(undo) - 1) = SubSeq(undo, 1, n)
        /\ SubSeq(winners, 1, Len(winners) - 1) = SubSeq(winners, 1, n)
    BY <1>2, <2>1
  <2> QED
    BY <1>3, <2>2 DEF UnregisterStich
<1>5. /\ winners' \in Seq(EPIs) /\ Len(winners') = n /\ \A i \in 1 .. n : winners'[i] = winners[i]
      /\ undo' \in Seq([epi_winner : EPIs, n_points_before : Nat])
      /\ Len(undo') = n /\ \A i \in 1 .. n : undo'[i] = undo[i]
  <2>1. Len(undo) = n + 1
    BY <1>1, <1>2
  <2> QED
    BY <1>1, <1>2, <1>4, <2>1, AllButLast
<1>6. \A e : \A k \in 0 .. n : Won(winners', k, e) = Won(winners, k, e)
  BY <1>2, <1>5 DEF Won
<1>7. ASSUME NEW e \in EPIs
      PROVE  /\ cache[e].n_stich = Cardinality(Won(winners, n, e)) + (IF epi = e THEN 1 ELSE 0)
             /\ cache[e].n_point
                  = SumFunctionOnSet(deal.points, Won(winners, n, e)) + (IF epi = e THEN deal.points[n + 1] ELSE 0)
             /\ Cardinality(Won(winners, n, e)) \in Nat
             /\ SumFunctionOnSet(deal.points, Won(winners, n, e)) \in Nat
  <2>1. n \in 0 .. CardsPerPlayer(deal) - 1 /\ n \in 0 .. CardsPerPlayer(deal)
    <3>1. CardsPerPlayer(deal) \in Nat /\ n + 1 <= CardsPerPlayer(deal)
      BY <1>1, <1>2, PointsOfDeal
    <3> QED
      BY <3>1
  <2>2. /\ cache[e].n_stich = Cardinality(Won(winners, n + 1, e))
        /\ cache[e].n_point = SumFunctionOnSet(deal.points, Won(winners, n + 1, e))
    BY <1>2, PInvCounted DEF Counted
  <2>3. /\ Cardinality(Won(winners, n + 1, e))
              = Cardinality(Won(winners, n, e)) + (IF winners[n + 1] = e THEN 1 ELSE 0)
        /\ SumFunctionOnSet(deal.points, Won(winners, n + 1, e))
              = SumFunctionOnSet(deal.points, Won(winners, n, e)) + (IF winners[n + 1] = e THEN deal.points[n + 1] ELSE 0)
    <3>1. deal \in PlayedDeals
      BY <1>1
    <3> QED
      BY <2>1, <3>1, OneStichMore
  <2>4. /\ Cardinality(Won(winners, n, e)) \in Nat
        /\ SumFunctionOnSet(deal.points, Won(winners, n, e)) \in Nat
    BY <1>1, <2>1, PointsWon
  <2> QED
    BY <2>2, <2>3, <2>4
<1>8. ASSUME NEW e \in EPIs
      PROVE  /\ cache'[e] \in [n_stich : Nat, n_point : Nat]
             /\ cache'[e].n_stich = Cardinality(Won(winners, n, e))
             /\ cache'[e].n_point = SumFunctionOnSet(deal.points, Won(winners, n, e))
  <2>1. cache[e] \in [n_stich : Nat, n_point : Nat]
    BY <1>1
  <2>2. CASE e = epi
    <3> DEFINE less == [n_stich |-> cache[e].n_stich - 1, n_point |-> last.n_points_before]
    <3>1. cache'[e] = less
      BY <1>1, <1>3, <1>4, <2>1, <2>2
    <3>2. /\ cache[e].n_stich - 1 = Cardinality(Won(winners, n, e))
          /\ last.n_points_before = SumFunctionOnSet(deal.points, Won(winners, n, e))
      BY <1>3, <1>7, <2>2
    <3> QED
      BY <1>7, <3>1, <3>2
  <2>3. CASE e # epi
    <3>1. cache'[e] = cache[e]
      BY <1>1, <1>4, <2>3
    <3> QED
      BY <1>7, <2>1, <2>3, <3>1
  <2> QED
    BY <2>2, <2>3
<1>9. PTypes'
  <2>1. cache' = [e \in EPIs |-> cache'[e]]
    BY <1>1, <1>4
  <2>2. cache' \in [EPIs -> [n_stich : Nat, n_point : Nat]]
    BY <1>8, <2>1
  <2>3. Len(winners') <= CardsPerPlayer(deal)
    BY <1>1, <1>2, <1>5, PointsOfDeal
  <2> QED
    BY <1>4, <1>5, <2>2, <2>3 DEF PInv, PTypes
<1>10. CacheIsRecount'
  <2>1. deal' = deal /\ Len(winners') = n /\ n \in 0 .. n
    BY <1>4, <1>5
  <2>2. Counted(cache', winners', deal'.points)
    BY <1>6, <1>8, <2>1 DEF Counted
  <2>3. \A e \in EPIs :
          cache'[e] = [n_stich |-> Cardinality(WonBy(winners', e)),
                       n_point |-> SumFunctionOnSet(deal'.points, WonBy(winners', e))]
    BY <1>9, <2>2, RecountByField DEF PTypes
  <2> QED
    BY <2>3 DEF CacheIsRecount, WonBy
<1>11. UndoRestores'
  <2>1. ASSUME NEW i \in 1 .. n
        PROVE  /\ undo'[i].epi_winner = winners'[i]
               /\ undo'[i].n_points_before = SumFunctionOnSet(deal.points, Won(winners', i - 1, winners'[i]))
    <3>1. i - 1 \in 0 .. n /\ i \in 1 .. Len(winners)
      BY <1>2
    <3>2. Won(winners', i - 1, winners'[i]) = Won(winners, i - 1, winners'[i])
      BY <1>6, <3>1
    <3>3. /\ undo[i].epi_winner = winners[i]
          /\ undo[i].n_points_before = SumFunctionOnSet(deal.points, Won(winners, i - 1, winners[i]))
      BY <3>1 DEF PInv, UndoRestores
    <3> QED
      BY <1>5, <3>2, <3>3
  <2> QED
    BY <1>4, <1>5, <2>1 DEF UndoRestores
<1> QED
  BY <1>9, <1>10, <1>11 DEF PInv

\* Every step keeps the invariant, a stutter too.
LEMMA NextPInv == PInv /\ [Next]_vars => PInv'
<1> SUFFICES ASSUME PInv, [Next]_vars PROVE PInv'
  OBVIOUS
<1>1. ASSUME NEW epi \in EPIs, RegisterStich(epi) PROVE PInv'
  BY <1>1, RegisterKeepsPInv
<1>2. CASE UnregisterStich
  BY <1>2, UnregisterKeepsPInv
<1>3. CASE UNCHANGED vars
  BY <1>3 DEF vars, PInv, PTypes, CacheIsRecount, UndoRestores, CardsPerPlayer
<1> QED
  BY <1>1, <1>2, <1>3 DEF Next

\* On every line of play the cache and the stack agree with the Stichs.
LEMMA InPInv == Spec => []PInv
<1> QED
  BY InitPInv, NextPInv, PTL DEF Spec

\* The cache counts what a recount of the completed Stichs gives, whatever was
\* registered and taken back before (SRuleStateCache, asserted in payouts and hints).
THEOREM CountsAgree == Spec => []CacheIsRecount
<1>1. PInv => CacheIsRecount
  BY DEF PInv
<1> QED
  BY <1>1, InPInv, PTL

------------------------------------------------------------------------------
(***************************************************************************)
(* What the parties have together.                                         *)
(***************************************************************************)
\* what a seat adds to the sum over a party
Part(f, S, epi) == IF epi \in S THEN f[epi] ELSE 0

\* A sum over seats, written out.
LEMMA SumOverSeats ==
  ASSUME NEW f \in [EPIs -> Nat], NEW S \in SUBSET EPIs
  PROVE  SumFunctionOnSet(f, S) = Part(f, S, 0) + Part(f, S, 1) + Part(f, S, 2) + Part(f, S, 3)
<1> DEFINE S0 == S \cap {0}
           S1 == S \cap {1}
           S2 == S \cap {2}
           S3 == S \cap {3}
<1>1. ASSUME NEW epi \in EPIs
      PROVE  /\ IsFiniteSet(S \cap {epi})
             /\ SumFunctionOnSet(f, S \cap {epi}) = Part(f, S, epi)
  <2>1. f[epi] \in Int
    OBVIOUS
  <2>2. CASE epi \in S
    <3>1. S \cap {epi} = {epi} /\ IsFiniteSet({epi}) /\ {epi} \ {epi} = {}
      BY <2>2, FS_Singleton
    <3>2. SumFunctionOnSet(f, {epi}) = f[epi] + SumFunctionOnSet(f, {})
      BY <2>1, <3>1, SumWithout
    <3>3. SumFunctionOnSet(f, {}) = 0
      BY FS_EmptySet, SumOfTaken
    <3> QED
      BY <2>1, <2>2, <3>1, <3>2, <3>3 DEF Part
  <2>3. CASE epi \notin S
    <3>1. S \cap {epi} = {}
      BY <2>3
    <3> QED
      BY <2>3, <3>1, FS_EmptySet, SumOfTaken DEF Part
  <2> QED
    BY <2>2, <2>3
<1>2. 0 \in EPIs /\ 1 \in EPIs /\ 2 \in EPIs /\ 3 \in EPIs
  BY DEF EPIs
<1>3. \A x \in EPIs : f[x] \in Int
  OBVIOUS
<1>4. SumFunctionOnSet(f, S0 \cup S1) = Part(f, S, 0) + Part(f, S, 1) /\ IsFiniteSet(S0 \cup S1)
  <2>1. IsFiniteSet(S0) /\ IsFiniteSet(S1) /\ S0 \cap S1 = {} /\ S0 \cup S1 \subseteq EPIs
    BY <1>1, <1>2
  <2>2. SumFunctionOnSet(f, S0 \cup S1) = SumFunctionOnSet(f, S0) + SumFunctionOnSet(f, S1)
    BY <1>3, <2>1, SumOfUnion
  <2> QED
    BY <1>1, <1>2, <2>1, <2>2, FS_Union
<1>5. SumFunctionOnSet(f, S2 \cup S3) = Part(f, S, 2) + Part(f, S, 3) /\ IsFiniteSet(S2 \cup S3)
  <2>1. IsFiniteSet(S2) /\ IsFiniteSet(S3) /\ S2 \cap S3 = {} /\ S2 \cup S3 \subseteq EPIs
    BY <1>1, <1>2
  <2>2. SumFunctionOnSet(f, S2 \cup S3) = SumFunctionOnSet(f, S2) + SumFunctionOnSet(f, S3)
    BY <1>3, <2>1, SumOfUnion
  <2> QED
    BY <1>1, <1>2, <2>1, <2>2, FS_Union
<1>6. SumFunctionOnSet(f, S) = (Part(f, S, 0) + Part(f, S, 1)) + (Part(f, S, 2) + Part(f, S, 3))
  <2>1. /\ S = (S0 \cup S1) \cup (S2 \cup S3) /\ (S0 \cup S1) \cap (S2 \cup S3) = {}
        /\ (S0 \cup S1) \cup (S2 \cup S3) \subseteq EPIs
    <3>1. \A epi \in S : epi = 0 \/ epi = 1 \/ epi = 2 \/ epi = 3
      BY DEF EPIs
    <3>2. S = (S0 \cup S1) \cup (S2 \cup S3)
      BY <3>1
    <3>3. (S0 \cup S1) \cap (S2 \cup S3) = {}
      OBVIOUS
    <3> QED
      BY <3>2, <3>3
  <2>2. SumFunctionOnSet(f, (S0 \cup S1) \cup (S2 \cup S3))
          = SumFunctionOnSet(f, S0 \cup S1) + SumFunctionOnSet(f, S2 \cup S3)
    BY <1>3, <1>4, <1>5, <2>1, SumOfUnion
  <2> QED
    BY <1>4, <1>5, <2>1, <2>2
<1>7. \A epi \in EPIs : Part(f, S, epi) \in Nat
  BY DEF Part
<1> QED
  BY <1>2, <1>6, <1>7

\* Of the first Stichs each was made by one seat: the counts add up to all of them,
\* and the points to all that lie in them.
LEMMA AllStichsAreWon ==
  ASSUME NEW d \in PlayedDeals, NEW ws \in Seq(EPIs), NEW n \in Nat,
         n <= Len(ws), n <= CardsPerPlayer(d)
  PROVE  /\ Cardinality(Won(ws, n, 0)) + Cardinality(Won(ws, n, 1))
              + Cardinality(Won(ws, n, 2)) + Cardinality(Won(ws, n, 3)) = n
         /\ SumFunctionOnSet(d.points, Won(ws, n, 0)) + SumFunctionOnSet(d.points, Won(ws, n, 1))
              + SumFunctionOnSet(d.points, Won(ws, n, 2)) + SumFunctionOnSet(d.points, Won(ws, n, 3))
              = SumFunctionOnSet(d.points, 1 .. n)
<1> DEFINE W0 == Won(ws, n, 0)
           W1 == Won(ws, n, 1)
           W2 == Won(ws, n, 2)
           W3 == Won(ws, n, 3)
<1>1. ASSUME NEW epi
      PROVE  /\ IsFiniteSet(Won(ws, n, epi)) /\ Cardinality(Won(ws, n, epi)) \in Nat
             /\ \A i \in Won(ws, n, epi) : d.points[i] \in Nat
             /\ SumFunctionOnSet(d.points, Won(ws, n, epi)) \in Nat
  <2>1. n \in 0 .. CardsPerPlayer(d)
    BY PointsOfDeal
  <2> QED
    BY <2>1, PointsWon
<1>2. /\ W0 \cap W1 = {} /\ W2 \cap W3 = {} /\ (W0 \cup W1) \cap (W2 \cup W3) = {}
      /\ (W0 \cup W1) \cup (W2 \cup W3) = 1 .. n
  <2>1. \A i \in 1 .. n : ws[i] \in {0, 1, 2, 3}
    BY DEF EPIs
  <2> QED
    BY <2>1 DEF Won
<1>3. \A i \in 1 .. n : d.points[i] \in Int
  <2>1. \A i \in 1 .. n : i \in 1 .. CardsPerPlayer(d)
    BY PointsOfDeal
  <2> QED
    BY <2>1, PointsOfDeal
<1>4. W0 \cup W1 \subseteq 1 .. n /\ W2 \cup W3 \subseteq 1 .. n
  BY <1>2
<1>5. /\ IsFiniteSet(W0 \cup W1) /\ Cardinality(W0 \cup W1) = Cardinality(W0) + Cardinality(W1)
      /\ SumFunctionOnSet(d.points, W0 \cup W1)
           = SumFunctionOnSet(d.points, W0) + SumFunctionOnSet(d.points, W1)
  <2> HIDE DEF W0, W1
  <2>1. IsFiniteSet(W0) /\ IsFiniteSet(W1) /\ Cardinality(W0) \in Nat /\ Cardinality(W1) \in Nat
    BY <1>1 DEF W0, W1
  <2>2. IsFiniteSet(W0 \cup W1)
        /\ Cardinality(W0 \cup W1) = Cardinality(W0) + Cardinality(W1) - Cardinality(W0 \cap W1)
    BY <2>1, FS_Union
  <2>3. Cardinality(W0 \cap W1) = 0
    BY <1>2, FS_EmptySet
  <2>4. \A i \in W0 \cup W1 : d.points[i] \in Int
    BY <1>3, <1>4
  <2>5. SumFunctionOnSet(d.points, W0 \cup W1)
           = SumFunctionOnSet(d.points, W0) + SumFunctionOnSet(d.points, W1)
    BY <1>2, <2>1, <2>4, SumOfUnion
  <2> QED
    BY <2>1, <2>2, <2>3, <2>5
<1>6. /\ IsFiniteSet(W2 \cup W3) /\ Cardinality(W2 \cup W3) = Cardinality(W2) + Cardinality(W3)
      /\ SumFunctionOnSet(d.points, W2 \cup W3)
           = SumFunctionOnSet(d.points, W2) + SumFunctionOnSet(d.points, W3)
  <2> HIDE DEF W2, W3
  <2>1. IsFiniteSet(W2) /\ IsFiniteSet(W3) /\ Cardinality(W2) \in Nat /\ Cardinality(W3) \in Nat
    BY <1>1 DEF W2, W3
  <2>2. IsFiniteSet(W2 \cup W3)
        /\ Cardinality(W2 \cup W3) = Cardinality(W2) + Cardinality(W3) - Cardinality(W2 \cap W3)
    BY <2>1, FS_Union
  <2>3. Cardinality(W2 \cap W3) = 0
    BY <1>2, FS_EmptySet
  <2>4. \A i \in W2 \cup W3 : d.points[i] \in Int
    BY <1>3, <1>4
  <2>5. SumFunctionOnSet(d.points, W2 \cup W3)
           = SumFunctionOnSet(d.points, W2) + SumFunctionOnSet(d.points, W3)
    BY <1>2, <2>1, <2>4, SumOfUnion
  <2> QED
    BY <2>1, <2>2, <2>3, <2>5
<1>7. Cardinality(W0 \cup W1) + Cardinality(W2 \cup W3) = n
  <2> DEFINE A == W0 \cup W1
             B == W2 \cup W3
  <2>1. IsFiniteSet(A) /\ IsFiniteSet(B) /\ A \cap B = {} /\ A \cup B = 1 .. n
    BY <1>2, <1>5, <1>6
  <2> HIDE DEF A, B
  <2>2. Cardinality(A \cup B) = Cardinality(A) + Cardinality(B) - Cardinality(A \cap B)
    BY <2>1, FS_Union
  <2>3. Cardinality(A) \in Nat /\ Cardinality(B) \in Nat /\ Cardinality(A \cap B) = 0
    BY <2>1, FS_CardinalityType, FS_EmptySet
  <2>4. Cardinality(A \cup B) = n
    <3>1. 1 \in Int /\ n \in Int /\ (IF 1 > n THEN 0 ELSE n - 1 + 1) = n
      OBVIOUS
    <3>2. Cardinality(1 .. n) = IF 1 > n THEN 0 ELSE n - 1 + 1
      BY <3>1, FS_Interval
    <3> QED
      BY <2>1, <3>1, <3>2
  <2>5. Cardinality(A) + Cardinality(B) = n
    BY <2>2, <2>3, <2>4
  <2> QED
    BY <2>5 DEF A, B
<1>8. SumFunctionOnSet(d.points, 1 .. n)
        = SumFunctionOnSet(d.points, W0 \cup W1) + SumFunctionOnSet(d.points, W2 \cup W3)
  <2> DEFINE A == W0 \cup W1
             B == W2 \cup W3
  <2>1. IsFiniteSet(A) /\ IsFiniteSet(B) /\ A \cap B = {} /\ A \cup B = 1 .. n
    BY <1>2, <1>5, <1>6
  <2> HIDE DEF A, B
  <2>2. \A i \in A \cup B : d.points[i] \in Int
    BY <1>3, <2>1
  <2>3. SumFunctionOnSet(d.points, A \cup B) = SumFunctionOnSet(d.points, A) + SumFunctionOnSet(d.points, B)
    BY <2>1, <2>2, SumOfUnion
  <2> QED
    BY <2>1, <2>3 DEF A, B
<1>9. /\ Cardinality(W0) \in Nat /\ Cardinality(W1) \in Nat /\ Cardinality(W2) \in Nat /\ Cardinality(W3) \in Nat
      /\ SumFunctionOnSet(d.points, W0) \in Nat /\ SumFunctionOnSet(d.points, W1) \in Nat
      /\ SumFunctionOnSet(d.points, W2) \in Nat /\ SumFunctionOnSet(d.points, W3) \in Nat
  BY <1>1
<1> HIDE DEF W0, W1, W2, W3
<1>10. Cardinality(W0) + Cardinality(W1) + Cardinality(W2) + Cardinality(W3) = n
  BY <1>5, <1>6, <1>7, <1>9, SMTT(60)
<1>11. SumFunctionOnSet(d.points, W0) + SumFunctionOnSet(d.points, W1)
         + SumFunctionOnSet(d.points, W2) + SumFunctionOnSet(d.points, W3) = SumFunctionOnSet(d.points, 1 .. n)
  BY <1>5, <1>6, <1>8, <1>9, SMTT(60)
<1> QED
  BY <1>10, <1>11 DEF W0, W1, W2, W3

\* What a seat adds to a sum it does not add to that over the other party.
LEMMA SeatInOneParty ==
  ASSUME NEW f \in [EPIs -> Nat], NEW S \in SUBSET EPIs, NEW epi \in {0, 1, 2, 3}
  PROVE  /\ f[epi] \in Nat /\ Part(f, S, epi) \in Nat /\ Part(f, EPIs \ S, epi) \in Nat
         /\ Part(f, S, epi) + Part(f, EPIs \ S, epi) = f[epi]
         /\ epi \in S => Part(f, S, epi) = f[epi]
         /\ epi \notin S => Part(f, S, epi) = 0
<1>1. epi \in EPIs /\ f[epi] \in Nat
  BY DEF EPIs
<1>2. CASE epi \in S
  BY <1>1, <1>2 DEF Part
<1>3. CASE epi \notin S
  BY <1>1, <1>3 DEF Part
<1> QED
  BY <1>2, <1>3

\* The sums over both parties are together that over all the seats.
LEMMA SumOfParties ==
  ASSUME NEW f \in [EPIs -> Nat], NEW S \in SUBSET EPIs
  PROVE  /\ SumFunctionOnSet(f, S) \in Nat
         /\ SumFunctionOnSet(f, S) + SumFunctionOnSet(f, EPIs \ S) = f[0] + f[1] + f[2] + f[3]
         /\ (SumFunctionOnSet(f, S) = 0) <=> (\A epi \in S : f[epi] = 0)
<1>1. /\ SumFunctionOnSet(f, S) = Part(f, S, 0) + Part(f, S, 1) + Part(f, S, 2) + Part(f, S, 3)
      /\ SumFunctionOnSet(f, EPIs \ S) = Part(f, EPIs \ S, 0) + Part(f, EPIs \ S, 1)
                                         + Part(f, EPIs \ S, 2) + Part(f, EPIs \ S, 3)
  BY SumOverSeats
<1>2. ASSUME NEW epi \in {0, 1, 2, 3}
      PROVE  /\ f[epi] \in Nat /\ Part(f, S, epi) \in Nat /\ Part(f, EPIs \ S, epi) \in Nat
             /\ Part(f, S, epi) + Part(f, EPIs \ S, epi) = f[epi]
             /\ epi \in S => Part(f, S, epi) = f[epi]
             /\ epi \notin S => Part(f, S, epi) = 0
  BY SeatInOneParty
<1>3. \A epi \in S : epi \in {0, 1, 2, 3}
  BY DEF EPIs
<1>4. (\A epi \in S : f[epi] = 0) => \A epi \in {0, 1, 2, 3} : Part(f, S, epi) = 0
  BY <1>2
<1>5. (\A epi \in {0, 1, 2, 3} : Part(f, S, epi) = 0) => \A epi \in S : f[epi] = 0
  BY <1>2, <1>3
<1>6. (SumFunctionOnSet(f, S) = 0) <=> (\A epi \in {0, 1, 2, 3} : Part(f, S, epi) = 0)
  <2>1. Part(f, S, 0) \in Nat /\ Part(f, S, 1) \in Nat /\ Part(f, S, 2) \in Nat /\ Part(f, S, 3) \in Nat
    BY <1>2
  <2>2. SumFunctionOnSet(f, S) = 0 => /\ Part(f, S, 0) = 0 /\ Part(f, S, 1) = 0
                                      /\ Part(f, S, 2) = 0 /\ Part(f, S, 3) = 0
    BY <1>1, <2>1
  <2>3. (\A epi \in {0, 1, 2, 3} : Part(f, S, epi) = 0) => SumFunctionOnSet(f, S) = 0
    BY <1>1
  <2> QED
    BY <2>2, <2>3
<1> QED
  BY <1>1, <1>2, <1>4, <1>5, <1>6

\* A sum over seats does not get smaller when what is added does not.
LEMMA SumOfMore ==
  ASSUME NEW f \in [EPIs -> Nat], NEW g \in [EPIs -> Nat], NEW S \in SUBSET EPIs,
         \A epi \in EPIs : f[epi] <= g[epi]
  PROVE  SumFunctionOnSet(f, S) <= SumFunctionOnSet(g, S)
<1>1. /\ SumFunctionOnSet(f, S) = Part(f, S, 0) + Part(f, S, 1) + Part(f, S, 2) + Part(f, S, 3)
      /\ SumFunctionOnSet(g, S) = Part(g, S, 0) + Part(g, S, 1) + Part(g, S, 2) + Part(g, S, 3)
  BY SumOverSeats
<1>2. ASSUME NEW epi \in {0, 1, 2, 3}
      PROVE  Part(f, S, epi) \in Nat /\ Part(g, S, epi) \in Nat /\ Part(f, S, epi) <= Part(g, S, epi)
  <2>1. epi \in EPIs
    BY DEF EPIs
  <2>2. CASE epi \in S
    BY <2>1, <2>2 DEF Part
  <2>3. CASE epi \notin S
    BY <2>1, <2>3 DEF Part
  <2> QED
    BY <2>2, <2>3
<1> QED
  BY <1>1, <1>2

\* the points and the Stichs of the seats and of a party by the counts c (Points, Stichs)
PointsOf(c) == [epi \in EPIs |-> c[epi].n_point]
StichsOf(c) == [epi \in EPIs |-> c[epi].n_stich]
PointsIn(c, S) == SumFunctionOnSet(PointsOf(c), S)
StichsIn(c, S) == SumFunctionOnSet(StichsOf(c), S)

Counts == [EPIs -> [n_stich : Nat, n_point : Nat]]

\* They are numbers, one of each for every seat.
LEMMA CountsAreNat ==
  ASSUME NEW c \in Counts
  PROVE  /\ PointsOf(c) \in [EPIs -> Nat] /\ StichsOf(c) \in [EPIs -> Nat]
         /\ \A epi \in EPIs : PointsOf(c)[epi] = c[epi].n_point /\ StichsOf(c)[epi] = c[epi].n_stich
<1>1. \A epi \in EPIs : c[epi].n_point \in Nat /\ c[epi].n_stich \in Nat
  BY DEF Counts
<1> QED
  BY <1>1 DEF PointsOf, StichsOf

\* A party has no Stich if none of its seats has.
LEMMA NoStichs ==
  ASSUME NEW c \in Counts, NEW S \in SUBSET EPIs
  PROVE  (StichsIn(c, S) = 0) <=> (\A epi \in S : c[epi].n_stich = 0)
<1>1. StichsOf(c) \in [EPIs -> Nat]
  BY CountsAreNat
<1>2. (StichsIn(c, S) = 0) <=> (\A epi \in S : StichsOf(c)[epi] = 0)
  BY <1>1, SumOfParties DEF StichsIn
<1> QED
  BY <1>2, CountsAreNat

\* the counts c book the Stichs ws of the deal d
Booked(d, ws, c) ==
  /\ d \in PlayedDeals
  /\ ws \in Seq(EPIs) /\ Len(ws) <= CardsPerPlayer(d)
  /\ c \in Counts /\ Counted(c, ws, d.points)

\* what the party S and the others then have: 120 points in the end, all the Stichs
Shared(d, ws, c, S) ==
  /\ PointsIn(c, S) \in Nat /\ StichsIn(c, S) \in Nat
  /\ PointsIn(c, EPIs \ S) \in Nat /\ StichsIn(c, EPIs \ S) \in Nat
  /\ PointsIn(c, S) + PointsIn(c, EPIs \ S) <= 120
  /\ Len(ws) = CardsPerPlayer(d) => PointsIn(c, S) + PointsIn(c, EPIs \ S) = 120
  /\ StichsIn(c, S) + StichsIn(c, EPIs \ S) = Len(ws)
  /\ StichsIn(c, S) = 0 => PointsIn(c, S) = 0

\* The Stichs of both parties are all there are, and their points are the 120 of the
\* deal when the last one is made; no Stich, no points.
LEMMA PartyTotals ==
  ASSUME NEW d, NEW ws, NEW c, Booked(d, ws, c), NEW S \in SUBSET EPIs
  PROVE  Shared(d, ws, c, S)
<1> DEFINE n == Len(ws)
<1> USE DEF Booked
<1>1. n \in Nat /\ CardsPerPlayer(d) \in Nat /\ n \in 0 .. CardsPerPlayer(d)
  BY PointsOfDeal
<1>2. ASSUME NEW epi \in EPIs
      PROVE  /\ c[epi].n_stich = Cardinality(Won(ws, n, epi))
             /\ c[epi].n_point = SumFunctionOnSet(d.points, Won(ws, n, epi))
             /\ c[epi].n_stich = 0 => c[epi].n_point = 0
  <2>1. /\ c[epi].n_stich = Cardinality(Won(ws, n, epi))
        /\ c[epi].n_point = SumFunctionOnSet(d.points, Won(ws, n, epi))
    BY DEF Counted
  <2>2. IsFiniteSet(Won(ws, n, epi))
    BY <1>1, PointsWon
  <2>3. Cardinality(Won(ws, n, epi)) = 0 => SumFunctionOnSet(d.points, Won(ws, n, epi)) = 0
    BY <2>2, FS_EmptySet, SumOfTaken
  <2> QED
    BY <2>1, <2>3
<1>3. 0 \in EPIs /\ 1 \in EPIs /\ 2 \in EPIs /\ 3 \in EPIs
  BY DEF EPIs
<1>4. /\ c[0].n_stich + c[1].n_stich + c[2].n_stich + c[3].n_stich = n
      /\ c[0].n_point + c[1].n_point + c[2].n_point + c[3].n_point = SumFunctionOnSet(d.points, 1 .. n)
  BY <1>1, <1>2, <1>3, AllStichsAreWon
<1>5. /\ SumFunctionOnSet(d.points, 1 .. n) <= 120
      /\ n = CardsPerPlayer(d) => SumFunctionOnSet(d.points, 1 .. n) = 120
  <2> DEFINE A == 1 .. n
             B == (n + 1) .. CardsPerPlayer(d)
  <2>1. A \cup B = 1 .. CardsPerPlayer(d) /\ A \cap B = {}
    BY <1>1
  <2>2. IsFiniteSet(A) /\ IsFiniteSet(B)
    BY <1>1, FS_Interval
  <2>3. \A i \in A \cup B : d.points[i] \in Nat
    BY <2>1, PointsOfDeal
  <2>4. SumFunctionOnSet(d.points, 1 .. CardsPerPlayer(d)) = 120
    BY PointsOfDeal
  <2> HIDE DEF A, B
  <2>5. SumFunctionOnSet(d.points, A \cup B) = SumFunctionOnSet(d.points, A) + SumFunctionOnSet(d.points, B)
    BY <2>1, <2>2, <2>3, SumOfUnion
  <2>6. SumFunctionOnSet(d.points, A) \in Nat /\ SumFunctionOnSet(d.points, B) \in Nat
    BY <2>2, <2>3, SumIsNat
  <2>7. SumFunctionOnSet(d.points, A) + SumFunctionOnSet(d.points, B) = 120
    BY <2>1, <2>4, <2>5
  <2>8. SumFunctionOnSet(d.points, A) <= 120
    BY <2>6, <2>7
  <2> QED
    BY <2>4, <2>8 DEF A
<1>6. PointsOf(c) \in [EPIs -> Nat] /\ StichsOf(c) \in [EPIs -> Nat] /\ EPIs \ S \in SUBSET EPIs
  BY CountsAreNat
<1>7. /\ PointsOf(c)[0] + PointsOf(c)[1] + PointsOf(c)[2] + PointsOf(c)[3]
           = SumFunctionOnSet(d.points, 1 .. n)
      /\ StichsOf(c)[0] + StichsOf(c)[1] + StichsOf(c)[2] + StichsOf(c)[3] = n
  BY <1>3, <1>4, CountsAreNat
<1>8. /\ PointsIn(c, S) \in Nat /\ StichsIn(c, S) \in Nat
      /\ PointsIn(c, EPIs \ S) \in Nat /\ StichsIn(c, EPIs \ S) \in Nat
  BY <1>6, SumOfParties DEF PointsIn, StichsIn
<1>9. /\ PointsIn(c, S) + PointsIn(c, EPIs \ S) = SumFunctionOnSet(d.points, 1 .. n)
      /\ StichsIn(c, S) + StichsIn(c, EPIs \ S) = n
  BY <1>6, <1>7, SumOfParties DEF PointsIn, StichsIn
<1>10. (StichsIn(c, S) = 0) <=> (\A epi \in S : c[epi].n_stich = 0)
  BY NoStichs
<1>11. StichsIn(c, S) = 0 => PointsIn(c, S) = 0
  <2>1. StichsIn(c, S) = 0 => \A epi \in S : PointsOf(c)[epi] = 0
    BY <1>2, <1>10, CountsAreNat
  <2> QED
    BY <1>6, <2>1, SumOfParties DEF PointsIn
<1> QED
  BY <1>5, <1>8, <1>9, <1>10, <1>11 DEF Shared

\* A party never loses points when a Stich is counted.
LEMMA PointsOnlyGrow ==
  ASSUME NEW c \in Counts, NEW more \in Counts, NEW S \in SUBSET EPIs,
         \A epi \in EPIs : c[epi].n_point <= more[epi].n_point
  PROVE  PointsIn(c, S) <= PointsIn(more, S)
<1>1. /\ PointsOf(c) \in [EPIs -> Nat] /\ PointsOf(more) \in [EPIs -> Nat]
      /\ \A epi \in EPIs : PointsOf(c)[epi] <= PointsOf(more)[epi]
  BY CountsAreNat
<1> QED
  BY <1>1, SumOfMore DEF PointsIn

------------------------------------------------------------------------------
(***************************************************************************)
(* Hints.                                                                  *)
(***************************************************************************)
\* A number as a bound contains itself; what is not known contains everything.
LEMMA BoundsContain ==
  /\ \A n \in Int : /\ ContainsHint(FromZero(n), FromZero(n))
                    /\ ContainsHint(Exactly(n), Exactly(n))
  /\ \A hint : ContainsHint(Unknown, hint)
<1>1. ASSUME NEW n \in Int PROVE ContainsHint(Exactly(n), Exactly(n))
  BY DEF ContainsHint, Exactly
<1>2. ASSUME NEW n \in Int PROVE ContainsHint(FromZero(n), FromZero(n))
  <2>1. CASE n > 0
    BY <2>1 DEF ContainsHint, FromZero
  <2>2. CASE ~ (n > 0)
    BY <2>2 DEF ContainsHint, FromZero
  <2> QED
    BY <2>1, <2>2
<1>3. ASSUME NEW hint PROVE ContainsHint(Unknown, hint)
  BY DEF ContainsHint, Unknown
<1> QED
  BY <1>1, <1>2, <1>3

\* The party of the player and the other one both have a seat.
LEMMA BothParties ==
  ASSUME PTypes
  PROVE  /\ contract.epi \in EPIs /\ contract.kind \in Kinds /\ contract.points_to_win \in 61 .. 120
         /\ n_price \in Nat
         /\ Parties.primary \in SUBSET EPIs /\ contract.epi \in Parties.primary
         /\ EPIs \ Parties.primary # {}
         /\ Parties.multiplier \in [EPIs -> {1, 3}]
         /\ contract.kind # "Rufspiel" => Parties = Parties13(contract.epi)
<1>1. contract \in [kind : Kinds, epi : EPIs, points_to_win : 61 .. 120]
  BY PayoutAssumption DEF PTypes
<1>2. n_price \in Nat
  BY PayoutAssumption DEF PTypes
<1>3. CASE contract.kind = "Rufspiel"
  <2>1. deal.rufsau \in EPIs /\ Parties = Parties22(contract.epi, deal.rufsau)
    BY <1>3, PayoutAssumption DEF PTypes, Parties
  <2>2. EPIs \ {contract.epi, deal.rufsau} # {}
    BY DEF EPIs
  <2> QED
    BY <1>1, <1>2, <1>3, <2>1, <2>2 DEF Parties22
<1>4. CASE contract.kind # "Rufspiel"
  <2>1. Parties = Parties13(contract.epi)
    BY <1>4 DEF Parties
  <2>2. EPIs \ {contract.epi} # {}
    BY DEF EPIs
  <2> QED
    BY <1>1, <1>2, <2>1, <2>2 DEF Parties13
<1> QED
  BY <1>3, <1>4

\* What a seat gets or pays: the price, with its sign, as often as its party asks.
LEMMA PaidWhat ==
  ASSUME PTypes, NEW n \in Int, NEW epi \in EPIs
  PROVE  /\ Parties.multiplier[epi] \in {1, 3}
         /\ InternalPayout(n, Parties, TRUE)[epi]
              = IF epi \in Parties.primary THEN n * Parties.multiplier[epi] ELSE -(n * Parties.multiplier[epi])
         /\ InternalPayout(n, Parties, FALSE)[epi]
              = IF epi \in Parties.primary THEN -(n * Parties.multiplier[epi]) ELSE n * Parties.multiplier[epi]
         /\ InternalPayout(n, Parties, TRUE)[epi] \in Int
         /\ InternalPayout(n, Parties, FALSE)[epi] \in Int
<1>1. Parties.multiplier[epi] = 1 \/ Parties.multiplier[epi] = 3
  BY BothParties
<1>2. /\ InternalPayout(n, Parties, TRUE)[epi]
           = n * (IF epi \in Parties.primary THEN 1 ELSE -1) * Parties.multiplier[epi]
      /\ InternalPayout(n, Parties, FALSE)[epi]
           = n * (IF epi \in Parties.primary THEN -1 ELSE 1) * Parties.multiplier[epi]
  BY DEF InternalPayout
<1> DEFINE m == Parties.multiplier[epi]
<1>3. n * 1 * m = n * m /\ n * (-1) * m = -(n * m) /\ n * m \in Int /\ -(n * m) \in Int
  <2>1. CASE m = 1
    BY <2>1
  <2>2. CASE m = 3
    BY <2>2
  <2> QED
    BY <1>1, <2>1, <2>2
<1> HIDE DEF m
<1>4. /\ InternalPayout(n, Parties, TRUE)[epi] = IF epi \in Parties.primary THEN n * m ELSE -(n * m)
      /\ InternalPayout(n, Parties, FALSE)[epi] = IF epi \in Parties.primary THEN -(n * m) ELSE n * m
  <2>1. CASE epi \in Parties.primary
    BY <1>2, <1>3, <2>1 DEF m
  <2>2. CASE epi \notin Parties.primary
    BY <1>2, <1>3, <2>2 DEF m
  <2> QED
    BY <2>1, <2>2
<1>5. InternalPayout(n, Parties, TRUE)[epi] \in Int /\ InternalPayout(n, Parties, FALSE)[epi] \in Int
  BY <1>3, <1>4
<1> QED
  BY <1>1, <1>4, <1>5 DEF m

\* Counting a Stich takes nothing from anybody.
LEMMA RegisterOnlyAdds ==
  ASSUME PInv, NEW winner \in EPIs, RegisterStich(winner), NEW epi \in EPIs
  PROVE  /\ cache[epi].n_stich \in Nat /\ cache'[epi].n_stich \in Nat
         /\ cache[epi].n_point \in Nat /\ cache'[epi].n_point \in Nat
         /\ cache[epi].n_point <= cache'[epi].n_point
         /\ cache[epi].n_stich <= cache'[epi].n_stich
         /\ cache'[epi].n_stich <= cache[epi].n_stich + 1
<1>1. cache \in [EPIs -> [n_stich : Nat, n_point : Nat]]
  BY DEF PInv, PTypes
<1>2. deal.points[Len(winners) + 1] \in Nat
  <2>1. /\ deal \in PlayedDeals /\ Len(winners) \in Nat /\ Len(winners) <= CardsPerPlayer(deal)
        /\ Len(winners) # CardsPerPlayer(deal)
    BY DEF PInv, PTypes, RegisterStich, GameFinished
  <2>2. Len(winners) + 1 \in 1 .. CardsPerPlayer(deal)
    BY <2>1, PointsOfDeal
  <2> QED
    BY <2>1, <2>2, PointsOfDeal
<1>3. cache' = Register(cache, winner, deal.points[Len(winners) + 1])
  BY DEF RegisterStich
<1>4. /\ cache'[epi].n_stich = cache[epi].n_stich + (IF winner = epi THEN 1 ELSE 0)
      /\ cache'[epi].n_point = cache[epi].n_point + (IF winner = epi THEN deal.points[Len(winners) + 1] ELSE 0)
  BY <1>1, <1>2, <1>3 DEF Register
<1>5. cache[epi].n_stich \in Nat /\ cache[epi].n_point \in Nat
  BY <1>1
<1>6. CASE winner = epi
  BY <1>2, <1>4, <1>5, <1>6, SMTT(60)
<1>7. CASE winner # epi
  BY <1>4, <1>5, <1>7
<1> QED
  BY <1>6, <1>7

\* Points and Stichs are those of the counts.
LEMMA PointsAreIn ==
  ASSUME NEW S
  PROVE  Points(S) = PointsIn(cache, S) /\ Stichs(S) = StichsIn(cache, S)
BY DEF Points, Stichs, PointsIn, StichsIn, PointsOf, StichsOf

\* Only a Stich that is registered makes the Stichs more.
LEMMA MoreStichs ==
  ASSUME PInv, [Next]_vars, Len(winners') > Len(winners)
  PROVE  \E winner \in EPIs : RegisterStich(winner)
<1>1. winners \in Seq(EPIs) /\ Len(winners) \in Nat
  BY DEF PInv, PTypes
<1>2. ASSUME UnregisterStich PROVE FALSE
  <2>1. Len(undo) = Len(winners) /\ undo # <<>> /\ undo \in Seq([epi_winner : EPIs, n_points_before : Nat])
    BY <1>2 DEF PInv, UndoRestores, UnregisterStich
  <2>2. Len(winners) # 0
    BY <2>1, EmptySeq
  <2>3. PICK n \in Nat : Len(winners) = n + 1
    <3>1. Len(winners) - 1 \in Nat /\ Len(winners) = (Len(winners) - 1) + 1
      BY <1>1, <2>2
    <3> QED
      BY <3>1
  <2>4. winners' = SubSeq(winners, 1, n)
    <3>1. (n + 1) - 1 = n
      OBVIOUS
    <3> QED
      BY <1>2, <2>3, <3>1 DEF UnregisterStich
  <2>5. Len(winners') = n
    BY <1>1, <2>3, <2>4, AllButLast
  <2> QED
    BY <2>3, <2>5
<1>3. ~ UNCHANGED vars
  BY <1>1 DEF vars
<1> QED
  BY <1>2, <1>3 DEF Next

\* A Stich that is counted leaves every hint where it was, or gives one where there was none.
LEMMA RegisterNarrows ==
  ASSUME PInv, PInv', NEW winner \in EPIs, RegisterStich(winner), NEW epi \in EPIs
  PROVE  ContainsHint(PayoutHints[epi], PayoutHints'[epi])
<1>1. /\ deal' = deal /\ contract' = contract /\ n_price' = n_price
      /\ winners' = Append(winners, winner)
  BY DEF RegisterStich
<1>2. Parties' = Parties /\ CardsValidForSie' = CardsValidForSie
  BY <1>1 DEF Parties, CardsValidForSie, CardsPerPlayer
<1>3. PTypes /\ PTypes' /\ winners \in Seq(EPIs) /\ Len(winners') = Len(winners) + 1
  BY <1>1, AppendProperties DEF PInv, PTypes
<1>4. /\ contract.epi \in EPIs /\ contract.kind \in Kinds /\ contract.points_to_win \in Nat
      /\ n_price \in Nat /\ 2 * n_price \in Nat /\ 4 * n_price \in Nat
      /\ Parties.primary \in SUBSET EPIs
  <2>1. contract.points_to_win \in 61 .. 120 /\ n_price \in Nat
    BY <1>3, BothParties
  <2>2. contract.points_to_win \in Nat /\ 2 * n_price \in Nat /\ 4 * n_price \in Nat
    BY <2>1
  <2> QED
    BY <1>3, <2>1, <2>2, BothParties
<1>5. ASSUME NEW n \in Nat
      PROVE  /\ InternalPayout(n, Parties, FALSE)[epi] \in Int
             /\ ContainsHint(HintFor(n, FALSE)[epi], HintFor(n, FALSE)[epi])
             /\ ContainsHint(HintFor(n, TRUE)[epi], HintFor(n, TRUE)[epi])
  <2>1. InternalPayout(n, Parties, FALSE)[epi] \in Int /\ InternalPayout(n, Parties, TRUE)[epi] \in Int
    <3>1. n \in Int
      OBVIOUS
    <3> QED
      BY <1>3, <3>1, PaidWhat
  <2>2. /\ HintFor(n, FALSE)[epi] = FromZero(InternalPayout(n, Parties, FALSE)[epi])
        /\ HintFor(n, TRUE)[epi] = FromZero(InternalPayout(n, Parties, TRUE)[epi])
    BY DEF HintFor
  <2> QED
    BY <2>1, <2>2, BoundsContain
<1>6. ASSUME NEW hint PROVE ContainsHint(NoHints[epi], hint)
  BY BoundsContain DEF NoHints
<1>7. /\ HintFor(n_price, TRUE)' = HintFor(n_price, TRUE)
      /\ HintFor(n_price, FALSE)' = HintFor(n_price, FALSE)
      /\ HintFor(2 * n_price, FALSE)' = HintFor(2 * n_price, FALSE)
      /\ HintFor(4 * n_price, FALSE)' = HintFor(4 * n_price, FALSE)
  BY <1>1, <1>2 DEF HintFor
<1>8. CASE contract.kind \in {"Rufspiel", "Points"}
  <2> DEFINE ours == Parties.primary
             theirs == EPIs \ Parties.primary
             asked == contract.points_to_win
  <2>1. /\ Points(ours)' = PointsIn(cache', ours) /\ Points(ours) = PointsIn(cache, ours)
        /\ Points(theirs)' = PointsIn(cache', theirs) /\ Points(theirs) = PointsIn(cache, theirs)
    BY <1>2 DEF Points, PointsIn, PointsOf
  <2>2. /\ PayoutHints = IF Points(ours) >= asked THEN HintFor(n_price, TRUE)
                         ELSE IF Points(theirs) > 120 - asked THEN HintFor(n_price, FALSE) ELSE NoHints
        /\ PayoutHints' = IF Points(ours)' >= asked THEN HintFor(n_price, TRUE)
                          ELSE IF Points(theirs)' > 120 - asked THEN HintFor(n_price, FALSE) ELSE NoHints
    BY <1>1, <1>2, <1>4, <1>7, <1>8 DEF PayoutHints, HintsByPoints, Against, NoHints, RamschKinds
  <2>3. cache \in Counts /\ cache' \in Counts
    BY <1>3 DEF PTypes, Counts
  <2>4. PointsIn(cache, ours) <= PointsIn(cache', ours) /\ PointsIn(cache, theirs) <= PointsIn(cache', theirs)
    <3>1. \A e \in EPIs : cache[e].n_point <= cache'[e].n_point
      BY RegisterOnlyAdds
    <3> QED
      BY <1>4, <2>3, <3>1, PointsOnlyGrow
  <2>5. /\ PointsIn(cache, ours) \in Nat /\ PointsIn(cache, theirs) \in Nat
        /\ PointsIn(cache', ours) \in Nat /\ PointsIn(cache', theirs) \in Nat
        /\ PointsIn(cache', ours) + PointsIn(cache', theirs) <= 120
    <3>1. Booked(deal, winners, cache)
      BY PInvCounted DEF PInv, PTypes, Booked, Counts
    <3>2. Booked(deal, winners', cache')
      <4>1. \A e \in EPIs :
              cache'[e] = [n_stich |-> Cardinality(WonBy(winners', e)),
                           n_point |-> SumFunctionOnSet(deal.points, WonBy(winners', e))]
        BY <1>1 DEF PInv, CacheIsRecount, WonBy
      <4>2. cache' \in [EPIs -> [n_stich : Nat, n_point : Nat]] /\ winners' \in Seq(EPIs)
        BY <1>3 DEF PTypes
      <4> QED
        BY <1>1, <1>3, <2>3, <4>1, <4>2, RecountByField DEF PTypes, CardsPerPlayer, Booked
    <3>3. PointsIn(cache, ours) \in Nat /\ PointsIn(cache, theirs) \in Nat
      <4>1. Shared(deal, winners, cache, ours)
        BY <1>4, <3>1, PartyTotals
      <4> QED
        BY <4>1 DEF Shared
    <3>4. /\ PointsIn(cache', ours) \in Nat /\ PointsIn(cache', theirs) \in Nat
          /\ PointsIn(cache', ours) + PointsIn(cache', theirs) <= 120
      <4>1. Shared(deal, winners', cache', ours)
        BY <1>4, <3>2, PartyTotals
      <4> QED
        BY <4>1 DEF Shared
    <3> QED
      BY <3>3, <3>4
  <2>6. CASE Points(ours) >= asked
    <3>1. Points(ours)' >= asked
      BY <1>4, <2>1, <2>4, <2>5, <2>6
    <3> QED
      BY <1>4, <1>5, <2>2, <2>6, <3>1
  <2>7. CASE ~ (Points(ours) >= asked) /\ Points(theirs) > 120 - asked
    <3>1. ~ (Points(ours)' >= asked) /\ Points(theirs)' > 120 - asked
      BY <1>4, <2>1, <2>4, <2>5, <2>7
    <3>2. PayoutHints = HintFor(n_price, FALSE) /\ PayoutHints' = HintFor(n_price, FALSE)
      BY <2>2, <2>7, <3>1
    <3> QED
      BY <1>4, <1>5, <3>2
  <2>8. CASE ~ (Points(ours) >= asked) /\ ~ (Points(theirs) > 120 - asked)
    BY <1>6, <2>2, <2>8
  <2> QED
    BY <2>6, <2>7, <2>8
<1>9. CASE contract.kind = "Tout"
  <2>1. /\ PayoutHints = IF cache[contract.epi].n_stich < Len(winners) THEN HintFor(2 * n_price, FALSE) ELSE NoHints
        /\ PayoutHints' = IF cache'[contract.epi].n_stich < Len(winners') THEN HintFor(2 * n_price, FALSE) ELSE NoHints
    BY <1>1, <1>4, <1>7, <1>9 DEF PayoutHints, NoHints, RamschKinds
  <2>2. CASE cache[contract.epi].n_stich < Len(winners)
    <3>1. cache'[contract.epi].n_stich < Len(winners')
      <4>1. /\ cache[contract.epi].n_stich \in Nat /\ cache'[contract.epi].n_stich \in Nat
            /\ cache'[contract.epi].n_stich <= cache[contract.epi].n_stich + 1
        BY <1>4, RegisterOnlyAdds
      <4>2. Len(winners) \in Nat
        BY <1>3
      <4> QED
        BY <1>3, <2>2, <4>1, <4>2
    <3> QED
      BY <1>4, <1>5, <2>1, <2>2, <3>1
  <2>3. CASE ~ (cache[contract.epi].n_stich < Len(winners))
    BY <1>6, <2>1, <2>3
  <2> QED
    BY <2>2, <2>3
<1>10. CASE contract.kind = "Sie"
  <2>1. /\ PayoutHints = IF CardsValidForSie THEN NoHints ELSE HintFor(4 * n_price, FALSE)
        /\ PayoutHints' = PayoutHints
    BY <1>1, <1>2, <1>4, <1>7, <1>10 DEF PayoutHints, NoHints, RamschKinds
  <2> QED
    BY <1>4, <1>5, <1>6, <2>1
<1>11. CASE contract.kind = "Bettel"
  <2> DEFINE an == InternalPayout(n_price, Parties, FALSE)
  <2>1. /\ PayoutHints[epi] = IF cache[contract.epi].n_stich > 0 THEN Exactly(an[epi]) ELSE NoHints[epi]
        /\ PayoutHints'[epi] = IF cache'[contract.epi].n_stich > 0 THEN Exactly(an[epi]) ELSE NoHints[epi]
    BY <1>1, <1>2, <1>11 DEF PayoutHints, HintsOfBettel, NoHints, RamschKinds
  <2>2. an[epi] \in Int
    BY <1>4, <1>5
  <2>3. cache[contract.epi].n_stich > 0 => cache'[contract.epi].n_stich > 0
    BY <1>4, RegisterOnlyAdds
  <2> HIDE DEF an
  <2> QED
    BY <1>6, <2>1, <2>2, <2>3, BoundsContain
<1>12. CASE contract.kind \in RamschKinds
  <2>1. PayoutHints = NoHints
    BY <1>12 DEF PayoutHints
  <2> QED
    BY <1>6, <2>1
<1> QED
  BY <1>4, <1>8, <1>9, <1>10, <1>11, <1>12 DEF Kinds

\* A hint is never taken back: whenever a Stich more is completed, the bounds of the
\* payout only get closer (payouthints of every kind of rules, as the pruning of the
\* search takes for granted).
THEOREM HintsOnlyNarrow == Spec => HintsNarrow
<1>1. PInv /\ PInv' /\ [Next]_vars
        => [Len(winners') > Len(winners)
              => \A epi \in EPIs : ContainsHint(PayoutHints[epi], PayoutHints'[epi])]_vars
  <2> SUFFICES ASSUME PInv, PInv', [Next]_vars, Len(winners') > Len(winners), NEW epi \in EPIs
               PROVE  ContainsHint(PayoutHints[epi], PayoutHints'[epi])
    OBVIOUS
  <2>1. PICK winner \in EPIs : RegisterStich(winner)
    BY MoreStichs
  <2> QED
    BY <2>1, RegisterNarrows
<1> QED
  BY <1>1, InPInv, PTL DEF Spec, HintsNarrow

------------------------------------------------------------------------------
(***************************************************************************)
(* Finished games.  A file may name the price 0, for which nobody pays and *)
(* the hints, which take the sign of a payout for its side, are wrong: the *)
(* theorems about the payouts assume that no file does.                    *)
(***************************************************************************)
\* Whoever is paid at least what a hint says stays within it.
LEMMA HintKept ==
  ASSUME PTypes, NEW n \in Nat, n # 0, NEW q \in Nat, n <= q, NEW epi \in EPIs
  PROVE  /\ ContainsHint(HintFor(n, TRUE)[epi], Exactly(InternalPayout(q, Parties, TRUE)[epi]))
         /\ ContainsHint(HintFor(n, FALSE)[epi], Exactly(InternalPayout(q, Parties, FALSE)[epi]))
<1> DEFINE m == Parties.multiplier[epi]
<1>1. /\ m \in {1, 3} /\ n \in Int /\ q \in Int
      /\ InternalPayout(n, Parties, TRUE)[epi] = IF epi \in Parties.primary THEN n * m ELSE -(n * m)
      /\ InternalPayout(n, Parties, FALSE)[epi] = IF epi \in Parties.primary THEN -(n * m) ELSE n * m
      /\ InternalPayout(q, Parties, TRUE)[epi] = IF epi \in Parties.primary THEN q * m ELSE -(q * m)
      /\ InternalPayout(q, Parties, FALSE)[epi] = IF epi \in Parties.primary THEN -(q * m) ELSE q * m
  <2>1. n \in Int /\ q \in Int
    OBVIOUS
  <2> QED
    BY <2>1, PaidWhat
<1>2. n * m \in Nat /\ q * m \in Nat /\ n * m > 0 /\ n * m <= q * m
  <2>1. CASE m = 1
    BY <2>1
  <2>2. CASE m = 3
    BY <2>2
  <2> QED
    BY <1>1, <2>1, <2>2
<1>3. ASSUME NEW a \in Nat, NEW b \in Nat, a > 0, a <= b
      PROVE  /\ ContainsHint(FromZero(a), Exactly(b))
             /\ ContainsHint(FromZero(-a), Exactly(-b))
  <2>1. FromZero(a) = [lower |-> {a}, upper |-> {}]
    BY <1>3 DEF FromZero
  <2>2. FromZero(-a) = [lower |-> {}, upper |-> {-a}]
    BY <1>3 DEF FromZero
  <2> QED
    BY <1>3, <2>1, <2>2 DEF ContainsHint, Exactly
<1>4. /\ HintFor(n, FALSE)[epi] = FromZero(InternalPayout(n, Parties, FALSE)[epi])
      /\ HintFor(n, TRUE)[epi] = FromZero(InternalPayout(n, Parties, TRUE)[epi])
  BY DEF HintFor
<1> HIDE DEF m
<1>5. CASE epi \in Parties.primary
  BY <1>1, <1>2, <1>3, <1>4, <1>5
<1>6. CASE epi \notin Parties.primary
  BY <1>1, <1>2, <1>3, <1>4, <1>6
<1> QED
  BY <1>5, <1>6

\* Running Trumpfs never make a game cheaper.
LEMMA LaufendeAdd ==
  ASSUME PTypes, NEW S
  PROVE  PayoutLaufende(S) \in Nat
<1>1. deal.trumpfs \in Seq(EPIs)
  BY PayoutAssumption DEF PTypes
<1>2. IsFiniteSet(DOMAIN deal.trumpfs)
  <2>1. DOMAIN deal.trumpfs = 1 .. Len(deal.trumpfs) /\ 1 \in Int /\ Len(deal.trumpfs) \in Int
    BY <1>1
  <2> QED
    BY <2>1, FS_Interval
<1> DEFINE first == { n \in DOMAIN deal.trumpfs :
                        \A i \in 1 .. n : (deal.trumpfs[i] \in S) = (deal.trumpfs[1] \in S) }
<1>3. Cardinality(first) \in Nat
  <2>1. first \subseteq DOMAIN deal.trumpfs
    OBVIOUS
  <2> HIDE DEF first
  <2> QED
    BY <1>2, <2>1, FS_Subset, FS_CardinalityType
<1>4. Laufende(deal.trumpfs, S) \in Nat
  BY <1>3 DEF Laufende
<1>5. ExtraPrice \in Nat
  BY PayoutAssumption
<1>6. (IF Laufende(deal.trumpfs, S) < LaufMin THEN 0 ELSE Laufende(deal.trumpfs, S)) \in Nat
  BY <1>4
<1> HIDE DEF first
<1> QED
  BY <1>5, <1>6 DEF PayoutLaufende

\* what a side and the other have in the end
SharedOut(side) ==
  /\ Points(side) \in Nat /\ Points(EPIs \ side) \in Nat /\ Stichs(side) \in Nat /\ Stichs(EPIs \ side) \in Nat
  /\ Points(side) + Points(EPIs \ side) = 120
  /\ Stichs(side) + Stichs(EPIs \ side) = CardsPerPlayer(deal)
  /\ Stichs(side) = 0 => Points(side) = 0
  /\ (Stichs(side) = 0) <=> (\A epi \in side : cache[epi].n_stich = 0)
  /\ CardsPerPlayer(deal) \in Nat

\* At the end the two parties have the 120 points and all the Stichs.
LEMMA FinishedTotals ==
  ASSUME PInv, GameFinished, NEW side \in SUBSET EPIs
  PROVE  SharedOut(side)
<1>1. Booked(deal, winners, cache) /\ deal \in PlayedDeals /\ cache \in Counts
  BY PInvCounted DEF PInv, PTypes, Counts, Booked
<1>2. /\ Points(side) = PointsIn(cache, side) /\ Stichs(side) = StichsIn(cache, side)
      /\ Points(EPIs \ side) = PointsIn(cache, EPIs \ side) /\ Stichs(EPIs \ side) = StichsIn(cache, EPIs \ side)
  BY PointsAreIn
<1>3. CardsPerPlayer(deal) \in Nat /\ Len(winners) = CardsPerPlayer(deal)
  BY <1>1, PointsOfDeal DEF GameFinished
<1>4. Shared(deal, winners, cache, side)
  BY <1>1, PartyTotals
<1>5. (StichsIn(cache, side) = 0) <=> (\A epi \in side : cache[epi].n_stich = 0)
  BY <1>1, NoStichs
<1> QED
  BY <1>2, <1>3, <1>4, <1>5 DEF Shared, SharedOut

\* the price of Schneider and of Schwarz (the extra of PayoutPointBased)
PointsWin == Points(Parties.primary) >= contract.points_to_win
Winning == IF PointsWin THEN Parties.primary ELSE Against(Parties.primary)
Extra ==
  IF Stichs(Winning) = CardsPerPlayer(deal) THEN 2 * ExtraPrice
  ELSE IF Schneider(PointsWin, Points(Parties.primary)) THEN ExtraPrice ELSE 0

\* With them the game costs at least its price.
LEMMA ExtraAdds ==
  ASSUME PTypes
  PROVE  /\ Extra \in Nat
         /\ n_price + Extra + PayoutLaufende(Parties.primary) \in Nat
         /\ n_price <= n_price + Extra + PayoutLaufende(Parties.primary)
         /\ PayoutPointBased
              = InternalPayout(n_price + Extra + PayoutLaufende(Parties.primary), Parties, PointsWin)
<1>1. ExtraPrice \in Nat /\ 2 * ExtraPrice \in Nat
  BY PayoutAssumption
<1>2. Extra \in Nat
  BY <1>1 DEF Extra
<1>3. n_price \in Nat /\ PayoutLaufende(Parties.primary) \in Nat
  BY BothParties, LaufendeAdd
<1>4. PayoutPointBased
        = InternalPayout(n_price + Extra + PayoutLaufende(Parties.primary), Parties, PointsWin)
  BY DEF PayoutPointBased, Extra, Winning, PointsWin
<1> QED
  BY <1>2, <1>3, <1>4

\* What the finished game pays keeps within each hint, if the game has a price.
LEMMA FinishedKeepsHints ==
  ASSUME PInv, GameFinished, n_price # 0, NEW epi \in EPIs
  PROVE  ContainsHint(PayoutHints[epi], Exactly(Payout[epi]))
<1>1. PTypes
  BY DEF PInv
<1>2. /\ contract.epi \in EPIs /\ contract.kind \in Kinds /\ contract.points_to_win \in 61 .. 120
      /\ n_price \in Nat /\ Parties.primary \in SUBSET EPIs
  BY <1>1, BothParties
<1>3. ASSUME NEW hint PROVE ContainsHint(NoHints[epi], hint)
  BY BoundsContain DEF NoHints
<1>4. CardsPerPlayer(deal) \in Nat /\ Len(winners) = CardsPerPlayer(deal)
  BY <1>1, PointsOfDeal DEF PTypes, GameFinished
<1>5. CASE contract.kind \in {"Rufspiel", "Points"}
  <2> DEFINE q == n_price + Extra + PayoutLaufende(Parties.primary)
  <2>1. q \in Nat /\ n_price <= q /\ PayoutPointBased = InternalPayout(q, Parties, PointsWin)
    BY <1>1, ExtraAdds
  <2>2. Payout = PayoutPointBased /\ PayoutHints = HintsByPoints
    BY <1>5 DEF Payout, PayoutHints, RamschKinds
  <2> HIDE DEF q
  <2>3. /\ ContainsHint(HintFor(n_price, TRUE)[epi], Exactly(InternalPayout(q, Parties, TRUE)[epi]))
        /\ ContainsHint(HintFor(n_price, FALSE)[epi], Exactly(InternalPayout(q, Parties, FALSE)[epi]))
    BY <1>1, <1>2, <2>1, HintKept
  <2>4. CASE PointsWin
    <3>1. PointsWin = TRUE
      BY <2>4 DEF PointsWin
    <3>2. Payout = InternalPayout(q, Parties, TRUE)
      BY <2>1, <2>2, <3>1
    <3>3. PayoutHints = HintFor(n_price, TRUE)
      BY <2>2, <2>4 DEF HintsByPoints, PointsWin
    <3> QED
      BY <2>3, <3>2, <3>3
  <2>5. CASE ~ PointsWin
    <3>1. PointsWin = FALSE
      BY <2>5 DEF PointsWin
    <3>2. Payout = InternalPayout(q, Parties, FALSE)
      BY <2>1, <2>2, <3>1
    <3>3. PayoutHints = HintFor(n_price, FALSE) \/ PayoutHints = NoHints
      BY <2>2, <2>5 DEF HintsByPoints, PointsWin
    <3> QED
      BY <1>3, <2>3, <3>2, <3>3
  <2> QED
    BY <2>4, <2>5
<1>6. CASE contract.kind = "Tout"
  <2> DEFINE q == (n_price + PayoutLaufende(Parties.primary)) * 2
             won == cache[contract.epi].n_stich = CardsPerPlayer(deal)
  <2>1. Payout = InternalPayout(q, Parties, won)
    BY <1>6 DEF Payout, PayoutTout, RamschKinds
  <2>2. PayoutHints = IF cache[contract.epi].n_stich < Len(winners) THEN HintFor(2 * n_price, FALSE) ELSE NoHints
    BY <1>6 DEF PayoutHints, RamschKinds
  <2>3. q \in Nat /\ 2 * n_price \in Nat /\ 2 * n_price # 0 /\ 2 * n_price <= q
    BY <1>1, <1>2, LaufendeAdd
  <2>4. CASE cache[contract.epi].n_stich < Len(winners)
    <3>1. won = FALSE
      <4>1. cache[contract.epi].n_stich \in Nat
        BY <1>1, <1>2 DEF PTypes
      <4> QED
        BY <1>4, <2>4, <4>1
    <3>2. Payout = InternalPayout(q, Parties, FALSE)
      BY <2>1, <3>1
    <3> HIDE DEF q
    <3>3. ContainsHint(HintFor(2 * n_price, FALSE)[epi], Exactly(InternalPayout(q, Parties, FALSE)[epi]))
      BY <1>1, <2>3, HintKept
    <3> QED
      BY <2>2, <2>4, <3>2, <3>3
  <2>5. CASE ~ (cache[contract.epi].n_stich < Len(winners))
    BY <1>3, <2>2, <2>5
  <2> QED
    BY <2>4, <2>5
<1>7. CASE contract.kind = "Sie"
  <2> DEFINE q == (n_price + CardsPerPlayer(deal) * ExtraPrice) * 4
  <2>1. Payout = InternalPayout(q, Parties, CardsValidForSie)
    BY <1>7 DEF Payout, PayoutSie, RamschKinds
  <2>2. PayoutHints = IF CardsValidForSie THEN NoHints ELSE HintFor(4 * n_price, FALSE)
    BY <1>7 DEF PayoutHints, RamschKinds
  <2>3. q \in Nat /\ 4 * n_price \in Nat /\ 4 * n_price # 0 /\ 4 * n_price <= q
    <3>1. CardsPerPlayer(deal) * ExtraPrice \in Nat
      BY <1>4, PayoutAssumption
    <3> QED
      BY <1>2, <3>1
  <2>4. CASE CardsValidForSie
    BY <1>3, <2>2, <2>4
  <2>5. CASE ~ CardsValidForSie
    <3>1. CardsValidForSie = FALSE
      BY <2>5 DEF CardsValidForSie
    <3>2. Payout = InternalPayout(q, Parties, FALSE)
      BY <2>1, <3>1
    <3> HIDE DEF q
    <3>3. ContainsHint(HintFor(4 * n_price, FALSE)[epi], Exactly(InternalPayout(q, Parties, FALSE)[epi]))
      BY <1>1, <2>3, HintKept
    <3> QED
      BY <2>2, <2>5, <3>2, <3>3
  <2> QED
    BY <2>4, <2>5
<1>8. CASE contract.kind = "Bettel"
  <2> DEFINE an == InternalPayout(n_price, Parties, FALSE)
  <2>1. Payout = InternalPayout(n_price, Parties, cache[contract.epi].n_stich = 0)
    BY <1>8 DEF Payout, PayoutBettel, RamschKinds
  <2>2. PayoutHints[epi] = IF cache[contract.epi].n_stich > 0 THEN Exactly(an[epi]) ELSE NoHints[epi]
    BY <1>8 DEF PayoutHints, HintsOfBettel, NoHints, RamschKinds
  <2>3. CASE cache[contract.epi].n_stich > 0
    <3>1. (cache[contract.epi].n_stich = 0) = FALSE
      BY <1>1, <1>2, <2>3 DEF PTypes
    <3>2. Payout = an
      BY <2>1, <3>1
    <3>3. an[epi] \in Int
      <4>1. n_price \in Int
        BY <1>2
      <4> QED
        BY <1>1, <4>1, PaidWhat
    <3> HIDE DEF an
    <3> QED
      BY <2>2, <2>3, <3>2, <3>3, BoundsContain
  <2>4. CASE ~ (cache[contract.epi].n_stich > 0)
    BY <1>3, <2>2, <2>4
  <2> QED
    BY <2>3, <2>4
<1>9. CASE contract.kind \in RamschKinds
  <2>1. PayoutHints = NoHints
    BY <1>9 DEF PayoutHints
  <2> QED
    BY <1>3, <2>1
<1> QED
  BY <1>2, <1>5, <1>6, <1>7, <1>8, <1>9 DEF Kinds

\* No hint that a search was given on the way is broken by what the game pays in the
\* end (payouthints against payoutinfos of every kind of rules), for games with a price.
THEOREM HintsAreKept ==
  ASSUME 0 \notin PricesInFile
  PROVE  Spec => []PayoutKeepsHints
<1>1. PInv => PayoutKeepsHints
  BY FinishedKeepsHints DEF PayoutKeepsHints, PInv, PTypes
<1> QED
  BY <1>1, InPInv, PTL

\* What a game by points pays: the same amount for every seat, once or three times.
LEMMA PointsPay ==
  ASSUME PInv, n_price # 0, contract.kind \in {"Rufspiel", "Points"}, NEW epi \in EPIs
  PROVE  \E q \in Nat :
           /\ q # 0 /\ q = n_price + Extra + PayoutLaufende(Parties.primary)
           /\ Payout[epi] \in Int
           /\ IF PointsWin <=> epi \in Parties.primary
              THEN Payout[epi] > 0 /\ Payout[epi] \div Parties.multiplier[epi] = q
              ELSE Payout[epi] < 0 /\ Payout[epi] \div Parties.multiplier[epi] = -q
<1>1. PTypes
  BY DEF PInv
<1> DEFINE q == n_price + Extra + PayoutLaufende(Parties.primary)
           m == Parties.multiplier[epi]
<1>2. q \in Nat /\ n_price <= q /\ Payout = InternalPayout(q, Parties, PointsWin) /\ n_price \in Nat
  BY <1>1, ExtraAdds, BothParties DEF Payout, RamschKinds
<1>3. q = n_price + Extra + PayoutLaufende(Parties.primary)
  OBVIOUS
<1> HIDE DEF q
<1>4. /\ m \in {1, 3} /\ q # 0
      /\ InternalPayout(q, Parties, TRUE)[epi] = IF epi \in Parties.primary THEN q * m ELSE -(q * m)
      /\ InternalPayout(q, Parties, FALSE)[epi] = IF epi \in Parties.primary THEN -(q * m) ELSE q * m
  <2>1. q \in Int /\ q # 0
    BY <1>2
  <2> QED
    BY <1>1, <2>1, PaidWhat
<1> HIDE DEF m
<1>5. /\ q * m \in Int /\ -(q * m) \in Int /\ q * m > 0 /\ -(q * m) < 0
      /\ (q * m) \div m = q /\ (-(q * m)) \div m = -q
  <2>1. CASE m = 1
    BY <1>2, <1>4, <2>1
  <2>2. CASE m = 3
    BY <1>2, <1>4, <2>2
  <2> QED
    BY <1>4, <2>1, <2>2
<1>6. Payout[epi] = IF PointsWin <=> epi \in Parties.primary THEN q * m ELSE -(q * m)
  <2>1. CASE PointsWin
    <3>1. PointsWin = TRUE
      BY <2>1 DEF PointsWin
    <3> QED
      BY <1>2, <1>4, <2>1, <3>1
  <2>2. CASE ~ PointsWin
    <3>1. PointsWin = FALSE
      BY <2>2 DEF PointsWin
    <3> QED
      BY <1>2, <1>4, <2>2, <3>1
  <2> QED
    BY <2>1, <2>2
<1>7. CASE PointsWin <=> epi \in Parties.primary
  BY <1>2, <1>3, <1>4, <1>5, <1>6, <1>7 DEF m
<1>8. CASE ~ (PointsWin <=> epi \in Parties.primary)
  BY <1>2, <1>3, <1>4, <1>5, <1>6, <1>8 DEF m
<1> QED
  BY <1>7, <1>8

\* In a Rufspiel with a price everybody pays or is paid (asserted before the stock is shared).
THEOREM EverybodyGetsSomething ==
  ASSUME 0 \notin PricesInFile
  PROVE  Spec => []NobodyGetsNothing
<1>1. PInv => NobodyGetsNothing
  <2> SUFFICES ASSUME PInv, contract.kind = "Rufspiel", NEW epi \in EPIs PROVE Payout[epi] # 0
    BY DEF NobodyGetsNothing
  <2>1. n_price # 0 /\ contract.kind \in {"Rufspiel", "Points"}
    BY DEF PInv, PTypes
  <2>2. Payout[epi] \in Int /\ (Payout[epi] > 0 \/ Payout[epi] < 0)
    BY <2>1, PointsPay
  <2> QED
    BY <2>2
<1> QED
  BY <1>1, InPInv, PTL

\* how far below Schneider and Schwarz the seats of losing are (the levels of LoserPays)
Levels(losing) ==
  (IF Points(losing) < 30 \/ (losing = Parties.primary /\ Points(losing) = 30) THEN 1 ELSE 0)
    + (IF \A epi \in losing : cache[epi].n_stich = 0 THEN 1 ELSE 0)

\* what LoserPays says of the seats that lose
LosersPay(losing) ==
  /\ losing \in {Parties.primary, EPIs \ Parties.primary}
  /\ (losing = Parties.primary) <=> Points(Parties.primary) < contract.points_to_win
  /\ \A epi \in EPIs :
       Payout[epi] \div Parties.multiplier[epi]
         = (n_price + Levels(losing) * ExtraPrice + PayoutLaufende(Parties.primary))
           * (IF epi \in losing THEN -1 ELSE 1)

\* The extra price, which the code computes for the winners, is that of the losers' levels.
LEMMA ExtraByLevels ==
  ASSUME PInv, GameFinished
  PROVE  Extra = Levels(EPIs \ Winning) * ExtraPrice
<1>1. /\ PTypes /\ ExtraPrice \in Nat
      /\ contract.points_to_win \in 61 .. 120
      /\ Parties.primary \in SUBSET EPIs /\ contract.epi \in Parties.primary
  BY PayoutAssumption, BothParties DEF PInv
<1> DEFINE ours == Parties.primary
           theirs == EPIs \ Parties.primary
<1>2. theirs \in SUBSET EPIs /\ EPIs \ theirs = ours /\ ours # theirs
  BY <1>1
<1>3. /\ Points(ours) \in Nat /\ Points(theirs) \in Nat /\ Stichs(ours) \in Nat /\ Stichs(theirs) \in Nat
      /\ Points(ours) + Points(theirs) = 120
      /\ Stichs(ours) + Stichs(theirs) = CardsPerPlayer(deal) /\ CardsPerPlayer(deal) \in Nat
      /\ Stichs(ours) = 0 => Points(ours) = 0
      /\ (Stichs(ours) = 0) <=> (\A epi \in ours : cache[epi].n_stich = 0)
  <2>1. SharedOut(ours)
    BY <1>1, FinishedTotals
  <2> QED
    BY <2>1 DEF SharedOut
<1>4. /\ Stichs(theirs) = 0 => Points(theirs) = 0
      /\ (Stichs(theirs) = 0) <=> (\A epi \in theirs : cache[epi].n_stich = 0)
  <2>1. SharedOut(theirs)
    BY <1>2, FinishedTotals
  <2> QED
    BY <2>1 DEF SharedOut
<1>5. 2 * ExtraPrice = (1 + 1) * ExtraPrice /\ ExtraPrice = (1 + 0) * ExtraPrice /\ 0 = (0 + 0) * ExtraPrice
  BY <1>1
<1>6. CASE PointsWin
  <2>1. Winning = ours /\ EPIs \ Winning = theirs /\ Points(ours) >= contract.points_to_win
    BY <1>6 DEF Winning, PointsWin
  <2>2. CASE Stichs(ours) = CardsPerPlayer(deal)
    <3>1. Stichs(theirs) = 0
      BY <1>3, <2>2
    <3>2. Points(theirs) < 30 /\ \A epi \in theirs : cache[epi].n_stich = 0
      BY <1>4, <3>1
    <3>3. Levels(theirs) = 1 + 1
      BY <3>2 DEF Levels
    <3>4. Extra = 2 * ExtraPrice
      BY <2>1, <2>2 DEF Extra
    <3> QED
      BY <1>5, <2>1, <3>3, <3>4
  <2>3. CASE Stichs(ours) # CardsPerPlayer(deal)
    <3>1. ~ (\A epi \in theirs : cache[epi].n_stich = 0)
      BY <1>3, <1>4, <2>3
    <3>2. Schneider(PointsWin, Points(ours)) <=> Points(theirs) < 30
      BY <1>1, <1>3, <1>6, <2>1 DEF Schneider
    <3>3. Extra = IF Points(theirs) < 30 THEN ExtraPrice ELSE 0
      BY <2>1, <2>3, <3>2 DEF Extra
    <3>4. Levels(theirs) = IF Points(theirs) < 30 THEN 1 + 0 ELSE 0 + 0
      BY <1>2, <3>1 DEF Levels
    <3> QED
      BY <1>5, <2>1, <3>3, <3>4
  <2> QED
    BY <2>2, <2>3
<1>7. CASE ~ PointsWin
  <2>1. Winning = theirs /\ EPIs \ Winning = ours /\ ~ (Points(ours) >= contract.points_to_win)
    BY <1>2, <1>7 DEF Winning, PointsWin, Against
  <2>2. CASE Stichs(theirs) = CardsPerPlayer(deal)
    <3>1. Stichs(ours) = 0
      BY <1>3, <2>2
    <3>2. Points(ours) < 30 /\ \A epi \in ours : cache[epi].n_stich = 0
      BY <1>3, <3>1
    <3>3. Levels(ours) = 1 + 1
      BY <3>2 DEF Levels
    <3>4. Extra = 2 * ExtraPrice
      BY <2>1, <2>2 DEF Extra
    <3> QED
      BY <1>5, <2>1, <3>3, <3>4
  <2>3. CASE Stichs(theirs) # CardsPerPlayer(deal)
    <3>1. ~ (\A epi \in ours : cache[epi].n_stich = 0)
      BY <1>3, <2>3
    <3>2. Schneider(PointsWin, Points(ours)) <=> Points(ours) <= 30
      BY <1>3, <1>7 DEF Schneider
    <3>3. Extra = IF Points(ours) <= 30 THEN ExtraPrice ELSE 0
      BY <2>1, <2>3, <3>2 DEF Extra
    <3>4. Levels(ours) = IF Points(ours) <= 30 THEN 1 + 0 ELSE 0 + 0
      BY <1>3, <3>1 DEF Levels
    <3> QED
      BY <1>5, <2>1, <3>3, <3>4
  <2> QED
    BY <2>2, <2>3
<1> QED
  BY <1>6, <1>7

\* The seats that lose are the party without the points, and the price is theirs.
LEMMA FinishedLoserPays ==
  ASSUME PInv, GameFinished, n_price # 0, contract.kind \in {"Rufspiel", "Points"}
  PROVE  LosersPay({ epi \in EPIs : Payout[epi] < 0 })
<1>1. /\ PTypes
      /\ contract.points_to_win \in 61 .. 120
      /\ Parties.primary \in SUBSET EPIs /\ contract.epi \in Parties.primary
      /\ EPIs \ Parties.primary # {}
  BY BothParties DEF PInv
<1> DEFINE q == n_price + Extra + PayoutLaufende(Parties.primary)
           losing == { epi \in EPIs : Payout[epi] < 0 }
<1>2. q \in Nat
  BY <1>1, ExtraAdds
<1>3. ASSUME NEW epi \in EPIs
      PROVE  /\ Payout[epi] \in Int
             /\ IF PointsWin <=> epi \in Parties.primary
                THEN Payout[epi] > 0 /\ Payout[epi] \div Parties.multiplier[epi] = q
                ELSE Payout[epi] < 0 /\ Payout[epi] \div Parties.multiplier[epi] = -q
  BY PointsPay
<1> HIDE DEF q
<1>4. \A epi \in EPIs : epi \in losing <=> ~ (PointsWin <=> epi \in Parties.primary)
  <2> TAKE epi \in EPIs
  <2>1. Payout[epi] < 0 <=> ~ (PointsWin <=> epi \in Parties.primary)
    <3>1. CASE PointsWin <=> epi \in Parties.primary
      <4>1. Payout[epi] \in Int /\ Payout[epi] > 0
        BY <1>3, <3>1
      <4> QED
        BY <3>1, <4>1
    <3>2. CASE ~ (PointsWin <=> epi \in Parties.primary)
      BY <1>3, <3>2
    <3> QED
      BY <3>1, <3>2
  <2> QED
    BY <2>1
<1>5. losing = EPIs \ Winning /\ losing \in {Parties.primary, EPIs \ Parties.primary}
  <2>1. CASE PointsWin
    BY <1>4, <2>1 DEF Winning
  <2>2. CASE ~ PointsWin
    BY <1>1, <1>4, <2>2 DEF Winning, Against
  <2> QED
    BY <2>1, <2>2
<1>6. (losing = Parties.primary) <=> ~ PointsWin
  BY <1>1, <1>4
<1>7. PointsWin <=> ~ (Points(Parties.primary) < contract.points_to_win)
  <2>1. Points(Parties.primary) \in Nat
    BY <1>1, FinishedTotals DEF SharedOut
  <2> QED
    BY <1>1, <2>1 DEF PointsWin
<1>8. q = n_price + Levels(losing) * ExtraPrice + PayoutLaufende(Parties.primary)
  BY <1>5, ExtraByLevels DEF q
<1>9. \A epi \in EPIs : epi \in losing <=> Payout[epi] < 0
  OBVIOUS
<1> HIDE DEF losing
<1>10. ASSUME NEW epi \in EPIs
       PROVE  Payout[epi] \div Parties.multiplier[epi] = q * (IF epi \in losing THEN -1 ELSE 1)
  <2>1. CASE epi \in losing
    BY <1>2, <1>3, <1>4, <2>1
  <2>2. CASE epi \notin losing
    BY <1>2, <1>3, <1>4, <2>2
  <2> QED
    BY <2>1, <2>2
<1>11. LosersPay(losing)
  BY <1>5, <1>6, <1>7, <1>8, <1>10 DEF LosersPay
<1> QED
  BY <1>11 DEF losing

\* Schneider and Schwarz as the loser sees them: who loses a game by points pays once more
\* below 30 points, the player up to 30, and twice more without a Stich; the code decides
\* it from the points of the player and the Stichs of the winners (SPayoutDeciderPointBased).
THEOREM LosersPayTheirLevel ==
  ASSUME 0 \notin PricesInFile
  PROVE  Spec => []LoserPays
<1>1. PInv => LoserPays
  <2> SUFFICES ASSUME PInv, GameFinished, contract.kind \in {"Rufspiel", "Points"} PROVE LoserPays
    BY DEF LoserPays
  <2>1. n_price # 0
    BY DEF PInv, PTypes
  <2>2. LosersPay({ epi \in EPIs : Payout[epi] < 0 })
    BY <2>1, FinishedLoserPays
  <2> QED
    BY <2>2 DEF LosersPay, Levels, LoserPays
<1> QED
  BY <1>1, InPInv, PTL

------------------------------------------------------------------------------
(***************************************************************************)
(* The Ramsch.                                                             *)
(***************************************************************************)
\* One seat against the three others: it gets or pays three times what each of them does.
LEMMA OneAgainstThree ==
  ASSUME NEW n \in Nat, n # 0, NEW alone \in EPIs, NEW other \in EPIs \ {alone}
  PROVE  /\ InternalPayout(n, Parties13(alone), TRUE)[alone] = 3 * n
         /\ InternalPayout(n, Parties13(alone), TRUE)[other] = -n
         /\ InternalPayout(n, Parties13(alone), FALSE)[alone] = -(3 * n)
         /\ InternalPayout(n, Parties13(alone), FALSE)[other] = n
<1> DEFINE parties == Parties13(alone)
<1>1. /\ alone \in parties.primary /\ other \notin parties.primary
      /\ parties.multiplier[alone] = 3 /\ parties.multiplier[other] = 1
  BY DEF Parties13
<1> HIDE DEF parties
<1>2. /\ InternalPayout(n, parties, TRUE)[alone] = n * 1 * 3
      /\ InternalPayout(n, parties, FALSE)[alone] = n * (-1) * 3
  BY <1>1 DEF InternalPayout
<1>3. /\ InternalPayout(n, parties, TRUE)[other] = n * (-1) * 1
      /\ InternalPayout(n, parties, FALSE)[other] = n * 1 * 1
  BY <1>1 DEF InternalPayout
<1>4. n * 1 * 3 = 3 * n /\ n * (-1) * 3 = -(3 * n) /\ n * (-1) * 1 = -n /\ n * 1 * 1 = n
  OBVIOUS
<1> QED
  BY <1>2, <1>3, <1>4 DEF parties

\* Two seats have not more than all the points.
LEMMA TwoSeatsShare ==
  ASSUME PInv, NEW one \in EPIs, NEW other \in EPIs
  PROVE  /\ cache[one].n_point \in Nat
         /\ one # other => cache[one].n_point + cache[other].n_point <= 120
<1>1. Booked(deal, winners, cache) /\ cache \in Counts
  BY PInvCounted DEF PInv, PTypes, Counts, Booked
<1>2. PointsOf(cache) \in [EPIs -> Nat] /\ \A epi \in EPIs : PointsOf(cache)[epi] = cache[epi].n_point
  BY <1>1, CountsAreNat
<1>3. PointsIn(cache, {}) + PointsIn(cache, EPIs \ {}) <= 120
  <2>1. {} \in SUBSET EPIs
    OBVIOUS
  <2>2. Shared(deal, winners, cache, {})
    BY <1>1, <2>1, PartyTotals
  <2> QED
    BY <2>2 DEF Shared
<1> DEFINE f == PointsOf(cache)
<1>4. f[0] + f[1] + f[2] + f[3] <= 120
  <2>1. {} \in SUBSET EPIs
    OBVIOUS
  <2>2. PointsIn(cache, {}) + PointsIn(cache, EPIs \ {}) = f[0] + f[1] + f[2] + f[3]
    BY <1>2, <2>1, SumOfParties DEF PointsIn
  <2> QED
    BY <1>3, <2>2
<1> HIDE DEF f
<1>5. f[0] \in Nat /\ f[1] \in Nat /\ f[2] \in Nat /\ f[3] \in Nat
  BY <1>2 DEF EPIs, f
<1>6. one \in {0, 1, 2, 3} /\ other \in {0, 1, 2, 3}
  BY DEF EPIs
<1>7. one # other => f[one] + f[other] <= 120
  BY <1>4, <1>5, <1>6
<1> QED
  BY <1>2, <1>7 DEF f

\* Somebody has most points.
LEMMA SomebodyHasMost ==
  ASSUME PInv
  PROVE  MostPoints # {}
<1> DEFINE p(epi) == cache[epi].n_point
<1>1. p(0) \in Nat /\ p(1) \in Nat /\ p(2) \in Nat /\ p(3) \in Nat
  BY TwoSeatsShare DEF EPIs
<1>2. \E epi \in {0, 1, 2, 3} : p(0) <= p(epi) /\ p(1) <= p(epi) /\ p(2) <= p(epi) /\ p(3) <= p(epi)
  BY <1>1
<1>3. PICK epi \in {0, 1, 2, 3} : p(0) <= p(epi) /\ p(1) <= p(epi) /\ p(2) <= p(epi) /\ p(3) <= p(epi)
  BY <1>2
<1>4. epi \in EPIs /\ \A other \in EPIs : other \in {0, 1, 2, 3}
  BY DEF EPIs
<1>5. \A other \in EPIs : cache[other].n_point <= cache[epi].n_point
  BY <1>3, <1>4
<1> QED
  BY <1>4, <1>5 DEF MostPoints

\* Who has more than half of the points has more than everybody else.
LEMMA MoreThanHalf ==
  ASSUME PInv, NEW epi \in EPIs, cache[epi].n_point >= 61
  PROVE  MostPoints = {epi} /\ \A other \in EPIs \ {epi} : cache[other].n_point < cache[epi].n_point
<1>1. ASSUME NEW other \in EPIs \ {epi}
      PROVE  cache[other].n_point < cache[epi].n_point /\ ~ (cache[epi].n_point <= cache[other].n_point)
  <2>1. /\ cache[epi].n_point \in Nat /\ cache[other].n_point \in Nat
        /\ cache[epi].n_point + cache[other].n_point <= 120
    BY TwoSeatsShare
  <2> QED
    BY <2>1
<1>2. cache[epi].n_point \in Nat /\ cache[epi].n_point <= cache[epi].n_point
  BY TwoSeatsShare
<1>3. \A other \in EPIs : cache[other].n_point <= cache[epi].n_point
  <2> TAKE other \in EPIs
  <2>1. cache[other].n_point \in Nat
    BY TwoSeatsShare
  <2> QED
    BY <1>1, <1>2, <2>1
<1>4. epi \in MostPoints
  BY <1>3 DEF MostPoints
<1>5. \A other \in MostPoints : other = epi
  BY <1>1 DEF MostPoints
<1> QED
  BY <1>1, <1>4, <1>5

\* A seat has all the Stichs if it has won each, and then it has all the points.
LEMMA AllStichs ==
  ASSUME PInv, GameFinished, NEW epi \in EPIs
  PROVE  /\ (cache[epi].n_stich = CardsPerPlayer(deal)) <=> (\A i \in DOMAIN winners : winners[i] = epi)
         /\ cache[epi].n_stich = CardsPerPlayer(deal) => cache[epi].n_point = 120
<1> DEFINE n == CardsPerPlayer(deal)
           won == Won(winners, n, epi)
<1>1. /\ deal \in PlayedDeals /\ winners \in Seq(EPIs) /\ Len(winners) = n /\ n \in Nat
      /\ DOMAIN winners = 1 .. n
  BY PointsOfDeal DEF PInv, PTypes, GameFinished
<1>2. cache[epi].n_stich = Cardinality(won) /\ cache[epi].n_point = SumFunctionOnSet(deal.points, won)
  BY <1>1, PInvCounted DEF Counted
<1>3. won \subseteq 1 .. n /\ IsFiniteSet(1 .. n) /\ Cardinality(1 .. n) = n
  <2>1. 1 \in Int /\ n \in Int /\ (IF 1 > n THEN 0 ELSE n - 1 + 1) = n
    BY <1>1
  <2>2. IsFiniteSet(1 .. n) /\ Cardinality(1 .. n) = IF 1 > n THEN 0 ELSE n - 1 + 1
    BY <2>1, FS_Interval
  <2> QED
    BY <2>1, <2>2 DEF Won
<1>4. (won = 1 .. n) <=> (\A i \in DOMAIN winners : winners[i] = epi)
  BY <1>1 DEF Won
<1>5. SumFunctionOnSet(deal.points, 1 .. n) = 120
  BY <1>1, PointsOfDeal
<1> HIDE DEF won, n
<1>6. (Cardinality(won) = n) <=> (won = 1 .. n)
  BY <1>3, FS_Subset
<1> QED
  BY <1>2, <1>4, <1>5, <1>6 DEF n

(***************************************************************************)
(* Seats without a Trumpf.                                                 *)
(***************************************************************************)
\* the Stichs of ws that a seat of S has made
WonIn(ws, S) == { i \in DOMAIN ws : ws[i] \in S }

\* in a Ramsch, everybody has played one card that is no Trumpf for each Stich that a
\* seat without a Trumpf has made
RamschInv ==
  contract.kind \in RamschKinds =>
    /\ AllTrumpfsOfRamsch(deal)
    /\ \A epi \in EPIs : StichsWithoutTrumpf <= CardsPerPlayer(deal) - TrumpfsOf(deal, epi)

\* The Trumpfs of a seat are at most its cards.
LEMMA TrumpfsOnHand ==
  ASSUME NEW d \in PlayedDeals, NEW epi \in EPIs
  PROVE  TrumpfsOf(d, epi) \in Nat /\ CardsPerPlayer(d) \in Nat /\ TrumpfsOf(d, epi) <= CardsPerPlayer(d)
<1>1. d.trumpfs \in Seq(EPIs) /\ TrumpfsOf(d, epi) <= CardsPerPlayer(d)
  BY PayoutAssumption
<1>2. Len(d.trumpfs) \in Nat /\ DOMAIN d.trumpfs = 1 .. Len(d.trumpfs)
  BY <1>1
<1>3. IsFiniteSet(DOMAIN d.trumpfs)
  BY <1>2, FS_Interval
<1>4. IsFiniteSet({ i \in DOMAIN d.trumpfs : d.trumpfs[i] = epi })
  BY <1>3, FS_Subset
<1>5. TrumpfsOf(d, epi) \in Nat
  BY <1>4, FS_CardinalityType DEF TrumpfsOf
<1>6. CardsPerPlayer(d) \in Nat
  BY PointsOfDeal
<1> QED
  BY <1>1, <1>5, <1>6

\* One Stich more is won by a seat of S or not.
LEMMA OneMoreWonIn ==
  ASSUME NEW ws \in Seq(EPIs), NEW epi \in EPIs, NEW S
  PROVE  /\ IsFiniteSet(WonIn(ws, S)) /\ Cardinality(WonIn(ws, S)) \in Nat
         /\ Cardinality(WonIn(Append(ws, epi), S))
              = Cardinality(WonIn(ws, S)) + (IF epi \in S THEN 1 ELSE 0)
<1> DEFINE n == Len(ws)
           more == Append(ws, epi)
<1>1. n \in Nat /\ DOMAIN ws = 1 .. n
  OBVIOUS
<1>2. DOMAIN more = 1 .. n + 1 /\ more[n + 1] = epi /\ \A i \in 1 .. n : more[i] = ws[i]
  BY <1>1
<1>3. IsFiniteSet(WonIn(ws, S))
  <2>1. IsFiniteSet(1 .. n)
    BY <1>1, FS_Interval
  <2> QED
    BY <1>1, <2>1, FS_Subset DEF WonIn
<1> HIDE DEF n, more
<1>4. Cardinality(WonIn(ws, S)) \in Nat
  BY <1>3, FS_CardinalityType
<1>5. n + 1 \notin WonIn(ws, S)
  BY <1>1 DEF WonIn
<1>6. WonIn(more, S) = IF epi \in S THEN WonIn(ws, S) \cup {n + 1} ELSE WonIn(ws, S)
  BY <1>1, <1>2 DEF WonIn
<1>7. Cardinality(WonIn(ws, S) \cup {n + 1}) = Cardinality(WonIn(ws, S)) + 1
  BY <1>3, <1>5, FS_AddElement
<1>8. Cardinality(WonIn(more, S)) = Cardinality(WonIn(ws, S)) + (IF epi \in S THEN 1 ELSE 0)
  BY <1>4, <1>6, <1>7
<1> QED
  BY <1>3, <1>4, <1>8 DEF more

\* Before the first Stich nobody has played a card.
LEMMA InitRamschInv == Init => RamschInv
<1> SUFFICES ASSUME Init, contract.kind \in RamschKinds
             PROVE  /\ AllTrumpfsOfRamsch(deal)
                    /\ \A epi \in EPIs : StichsWithoutTrumpf <= CardsPerPlayer(deal) - TrumpfsOf(deal, epi)
  BY DEF RamschInv
<1>1. AllTrumpfsOfRamsch(deal) /\ deal \in PlayedDeals /\ winners = <<>>
  BY DEF Init
<1>2. StichsWithoutTrumpf = 0
  <2>1. { i \in DOMAIN winners : winners[i] \in SeatsWithoutTrumpf } = {}
    BY <1>1
  <2> QED
    BY <2>1, FS_EmptySet DEF StichsWithoutTrumpf
<1>3. ASSUME NEW epi \in EPIs
      PROVE  StichsWithoutTrumpf <= CardsPerPlayer(deal) - TrumpfsOf(deal, epi)
  <2>1. /\ TrumpfsOf(deal, epi) \in Nat /\ CardsPerPlayer(deal) \in Nat
        /\ TrumpfsOf(deal, epi) <= CardsPerPlayer(deal)
    BY <1>1, TrumpfsOnHand
  <2> QED
    BY <1>2, <2>1
<1> QED
  BY <1>1, <1>3

\* A Stich that the Trumpfs do not allow is not made, and one that is taken back frees
\* the cards again.
LEMMA NextRamschInv == PInv /\ RamschInv /\ [Next]_vars => RamschInv'
<1> SUFFICES ASSUME PInv, RamschInv, [Next]_vars, contract'.kind \in RamschKinds
             PROVE  /\ AllTrumpfsOfRamsch(deal')
                    /\ \A epi \in EPIs : StichsWithoutTrumpf' <= CardsPerPlayer(deal') - TrumpfsOf(deal', epi)
  BY DEF RamschInv
<1>1. contract' = contract /\ deal' = deal
  BY DEF Next, vars, RegisterStich, UnregisterStich
<1>2. /\ AllTrumpfsOfRamsch(deal)
      /\ \A epi \in EPIs : StichsWithoutTrumpf <= CardsPerPlayer(deal) - TrumpfsOf(deal, epi)
  BY <1>1 DEF RamschInv
<1>3. deal \in PlayedDeals /\ winners \in Seq(EPIs)
  BY DEF PInv, PTypes
<1> DEFINE W == EPIs \ Range(deal.trumpfs)
<1>4. StichsWithoutTrumpf = Cardinality(WonIn(winners, W))
  BY DEF StichsWithoutTrumpf, SeatsWithoutTrumpf, WonIn
<1>5. StichsWithoutTrumpf' = Cardinality(WonIn(winners', W))
  BY <1>1 DEF StichsWithoutTrumpf, SeatsWithoutTrumpf, WonIn
<1> HIDE DEF W
<1>6. Cardinality(WonIn(winners, W)) \in Nat
  BY <1>3, OneMoreWonIn DEF EPIs
<1>7. ASSUME NEW epi \in EPIs
      PROVE  Cardinality(WonIn(winners', W)) <= CardsPerPlayer(deal) - TrumpfsOf(deal, epi)
  <2>1. TrumpfsOf(deal, epi) \in Nat /\ CardsPerPlayer(deal) \in Nat
    BY <1>3, TrumpfsOnHand
  <2>2. Cardinality(WonIn(winners, W)) <= CardsPerPlayer(deal) - TrumpfsOf(deal, epi)
    BY <1>2, <1>4
  <2>3. ASSUME NEW e \in EPIs, RegisterStich(e)
        PROVE  Cardinality(WonIn(winners', W)) <= CardsPerPlayer(deal) - TrumpfsOf(deal, epi)
    <3>1. winners' = Append(winners, e) /\ TrumpfsAllow(e)
      BY <1>1, <2>3 DEF RegisterStich
    <3>2. Cardinality(WonIn(winners', W)) = Cardinality(WonIn(winners, W)) + (IF e \in W THEN 1 ELSE 0)
      BY <1>3, <3>1, OneMoreWonIn
    <3>3. e \in W => Cardinality(WonIn(winners, W)) < CardsPerPlayer(deal) - TrumpfsOf(deal, epi)
      BY <1>4, <3>1 DEF TrumpfsAllow, SeatsWithoutTrumpf, W
    <3> QED
      BY <1>6, <2>1, <2>2, <3>2, <3>3
  <2>4. CASE UnregisterStich
    <3>1. WonIn(winners', W) \subseteq WonIn(winners, W)
      <4>1. winners' = SubSeq(winners, 1, Len(winners) - 1) /\ Len(winners) \in Nat
        BY <1>3, <2>4 DEF UnregisterStich
      <4>2. \A i \in DOMAIN winners' : i \in DOMAIN winners /\ winners'[i] = winners[i]
        BY <1>3, <4>1
      <4> QED
        BY <4>2 DEF WonIn
    <3>2. IsFiniteSet(WonIn(winners, W))
      BY <1>3, OneMoreWonIn DEF EPIs
    <3>3. /\ Cardinality(WonIn(winners', W)) <= Cardinality(WonIn(winners, W))
          /\ IsFiniteSet(WonIn(winners', W))
      BY <3>1, <3>2, FS_Subset
    <3>4. Cardinality(WonIn(winners', W)) \in Nat
      BY <3>3, FS_CardinalityType
    <3> QED
      BY <1>6, <2>1, <2>2, <3>3, <3>4
  <2>5. CASE UNCHANGED vars
    BY <2>2, <2>5 DEF vars
  <2> QED
    BY <2>3, <2>4, <2>5 DEF Next
<1> QED
  BY <1>1, <1>2, <1>5, <1>7

LEMMA InRamschInv == Spec => []RamschInv
<1> QED
  BY InitRamschInv, NextRamschInv, InPInv, PTL DEF Spec

\* Of two others without a Trumpf two seats hold all of them.
LEMMA TwoHoldAllTrumpfs ==
  ASSUME NEW d \in PlayedDeals, NEW a \in EPIs, NEW b \in EPIs, a # b,
         a \notin Range(d.trumpfs), b \notin Range(d.trumpfs)
  PROVE  \E c, e \in EPIs : Len(d.trumpfs) <= TrumpfsOf(d, c) + TrumpfsOf(d, e)
<1>1. PICK c \in EPIs, e \in EPIs : \A x \in EPIs : x \in {a, b, c, e}
  <2>1. a \in {0, 1, 2, 3} /\ b \in {0, 1, 2, 3}
    BY DEF EPIs
  <2>2. \E c, e \in {0, 1, 2, 3} : \A x \in {0, 1, 2, 3} : x \in {a, b, c, e}
    BY <2>1
  <2> QED
    BY <2>2 DEF EPIs
<1>2. d.trumpfs \in Seq(EPIs) /\ Len(d.trumpfs) \in Nat /\ DOMAIN d.trumpfs = 1 .. Len(d.trumpfs)
  <2>1. d.trumpfs \in Seq(EPIs)
    BY PayoutAssumption
  <2> QED
    BY <2>1
<1> DEFINE C == { i \in DOMAIN d.trumpfs : d.trumpfs[i] = c }
           E == { i \in DOMAIN d.trumpfs : d.trumpfs[i] = e }
<1>3. DOMAIN d.trumpfs = C \cup E
  <2>1. ASSUME NEW i \in DOMAIN d.trumpfs PROVE d.trumpfs[i] \in {c, e}
    <3>1. d.trumpfs[i] \in EPIs /\ d.trumpfs[i] \in Range(d.trumpfs)
      BY <1>2 DEF Range
    <3> QED
      BY <1>1, <3>1
  <2> QED
    BY <2>1
<1>4. IsFiniteSet(DOMAIN d.trumpfs) /\ Cardinality(DOMAIN d.trumpfs) = Len(d.trumpfs)
  <2>1. \A n \in Nat : IsFiniteSet(1 .. n) /\ Cardinality(1 .. n) = n
    <3> TAKE n \in Nat
    <3> QED
      BY FS_Interval
  <2> QED
    BY <1>2, <2>1
<1>5. Cardinality(C) = TrumpfsOf(d, c) /\ Cardinality(E) = TrumpfsOf(d, e)
  BY DEF TrumpfsOf
<1>6. C \subseteq DOMAIN d.trumpfs /\ E \subseteq DOMAIN d.trumpfs
  OBVIOUS
<1> HIDE DEF C, E
<1>7. IsFiniteSet(C) /\ IsFiniteSet(E) /\ IsFiniteSet(C \cap E)
  BY <1>4, <1>6, FS_Subset, FS_Intersection
<1>8. Cardinality(C \cup E) = Cardinality(C) + Cardinality(E) - Cardinality(C \cap E)
  BY <1>7, FS_Union
<1>9. Cardinality(C) \in Nat /\ Cardinality(E) \in Nat /\ Cardinality(C \cap E) \in Nat
  BY <1>7, FS_CardinalityType
<1>10. Len(d.trumpfs) <= TrumpfsOf(d, c) + TrumpfsOf(d, e)
  BY <1>3, <1>4, <1>5, <1>8, <1>9
<1> QED
  BY <1>10

\* In a finished game, who has most points has made a Stich.
LEMMA MostPointsWonStich ==
  ASSUME PInv, GameFinished, NEW epi \in MostPoints
  PROVE  \E i \in DOMAIN winners : winners[i] = epi
<1> SUFFICES ASSUME \A i \in DOMAIN winners : winners[i] # epi PROVE FALSE
  OBVIOUS
<1> DEFINE n == CardsPerPlayer(deal)
<1>1. /\ deal \in PlayedDeals /\ winners \in Seq(EPIs) /\ Len(winners) = n /\ n \in Nat
      /\ DOMAIN winners = 1 .. n
  BY PointsOfDeal DEF PInv, PTypes, GameFinished
<1>2. epi \in EPIs /\ \A other \in EPIs : cache[other].n_point <= cache[epi].n_point
  BY DEF MostPoints
<1>3. cache[epi].n_point = 0
  <2>1. Won(winners, n, epi) = {}
    BY <1>1 DEF Won
  <2>2. SumFunctionOnSet(deal.points, {}) = 0
    BY FS_EmptySet, SumOfTaken
  <2> QED
    BY <1>1, <1>2, <2>1, <2>2, PInvCounted DEF Counted
<1>4. ASSUME NEW other \in EPIs PROVE cache[other].n_point = 0
  <2>1. cache[other].n_point \in Nat
    BY TwoSeatsShare
  <2> QED
    BY <1>2, <1>3, <2>1
<1> DEFINE f == PointsOf(cache)
<1>5. f \in [EPIs -> Nat] /\ \A other \in EPIs : f[other] = 0
  <2>1. cache \in Counts
    BY DEF PInv, PTypes, Counts
  <2>2. f \in [EPIs -> Nat] /\ \A other \in EPIs : f[other] = cache[other].n_point
    BY <2>1, CountsAreNat
  <2> QED
    BY <1>4, <2>2
<1>6. {} \in SUBSET EPIs
  OBVIOUS
<1>7. Points({}) + Points(EPIs \ {}) = 120
  BY <1>6, FinishedTotals DEF SharedOut
<1>8. Points({}) = SumFunctionOnSet(f, {}) /\ Points(EPIs \ {}) = SumFunctionOnSet(f, EPIs \ {})
  BY DEF Points, f, PointsOf
<1> HIDE DEF f
<1>9. SumFunctionOnSet(f, {}) + SumFunctionOnSet(f, EPIs \ {}) = f[0] + f[1] + f[2] + f[3]
  BY <1>5, <1>6, SumOfParties
<1>10. f[0] = 0 /\ f[1] = 0 /\ f[2] = 0 /\ f[3] = 0
  BY <1>5 DEF EPIs
<1>11. f[0] + f[1] + f[2] + f[3] = 0
  BY <1>10
<1> QED
  BY <1>7, <1>8, <1>9, <1>11

\* Two seats without a Trumpf never have most points both: each would have made a Stich,
\* so that each of the two others had two cards that are no Trumpf, but the Trumpfs leave
\* these two at most two such cards together.
LEMMA OneWithoutTrumpf ==
  ASSUME PInv, RamschInv, GameFinished, contract.kind \in RamschKinds
  PROVE  \A one, other \in MostPoints \cap SeatsWithoutTrumpf : one = other
<1> SUFFICES ASSUME NEW one \in MostPoints \cap SeatsWithoutTrumpf,
                    NEW other \in MostPoints \cap SeatsWithoutTrumpf, one # other
             PROVE  FALSE
  OBVIOUS
<1>1. deal \in PlayedDeals /\ winners \in Seq(EPIs)
  BY DEF PInv, PTypes
<1>2. /\ one \in EPIs /\ one \notin Range(deal.trumpfs)
      /\ other \in EPIs /\ other \notin Range(deal.trumpfs)
  BY DEF SeatsWithoutTrumpf
<1> DEFINE won == WonIn(winners, SeatsWithoutTrumpf)
<1>3. IsFiniteSet(won) /\ Cardinality(won) \in Nat /\ StichsWithoutTrumpf = Cardinality(won)
  BY <1>1, <1>2, OneMoreWonIn DEF StichsWithoutTrumpf, WonIn
<1>4. PICK i \in DOMAIN winners : winners[i] = one
  BY MostPointsWonStich
<1>5. PICK j \in DOMAIN winners : winners[j] = other
  BY MostPointsWonStich
<1>6. i # j /\ {i, j} \subseteq won
  BY <1>4, <1>5 DEF WonIn
<1> HIDE DEF won
<1>7. Cardinality(won) >= 2
  <2>1. Cardinality({i, j}) = 2
    <3>1. IsFiniteSet({i}) /\ Cardinality({i}) = 1
      BY FS_Singleton
    <3>2. Cardinality({i} \cup {j}) = Cardinality({i}) + 1
      BY <1>6, <3>1, FS_AddElement
    <3>3. {i} \cup {j} = {i, j}
      OBVIOUS
    <3> QED
      BY <3>1, <3>2, <3>3
  <2>2. Cardinality({i, j}) <= Cardinality(won)
    BY <1>3, <1>6, FS_Subset
  <2> QED
    BY <1>3, <2>1, <2>2
<1>8. /\ AllTrumpfsOfRamsch(deal)
      /\ \A epi \in EPIs : StichsWithoutTrumpf <= CardsPerPlayer(deal) - TrumpfsOf(deal, epi)
  BY DEF RamschInv
<1>9. PICK c \in EPIs, e \in EPIs : Len(deal.trumpfs) <= TrumpfsOf(deal, c) + TrumpfsOf(deal, e)
  BY <1>1, <1>2, TwoHoldAllTrumpfs
<1>10. /\ TrumpfsOf(deal, c) \in Nat /\ TrumpfsOf(deal, e) \in Nat /\ CardsPerPlayer(deal) \in Nat
  BY <1>1, TrumpfsOnHand
<1>11. /\ Cardinality(won) <= CardsPerPlayer(deal) - TrumpfsOf(deal, c)
       /\ Cardinality(won) <= CardsPerPlayer(deal) - TrumpfsOf(deal, e)
  BY <1>3, <1>8
<1>12. Len(deal.trumpfs) >= 2 * CardsPerPlayer(deal) - 2 /\ Len(deal.trumpfs) \in Nat
  <2>1. deal.trumpfs \in Seq(EPIs)
    BY <1>1, PayoutAssumption
  <2>2. Len(deal.trumpfs) \in Nat
    BY <2>1
  <2> QED
    BY <1>8, <2>2 DEF AllTrumpfsOfRamsch
<1> QED
  BY <1>3, <1>7, <1>9, <1>10, <1>11, <1>12

\* The loser has most points, and a higher Trumpf than the others who have.
LEMMA LoserIsFound ==
  ASSUME PInv, \A one, other \in MostPoints \cap SeatsWithoutTrumpf : one = other
  PROVE  /\ Loser \in MostPoints
         /\ \A other \in MostPoints \ {Loser} :
              \E i \in DOMAIN deal.trumpfs :
                deal.trumpfs[i] = Loser /\ \A j \in 1 .. i : deal.trumpfs[j] # other
<1>1. IsFiniteSet(EPIs) /\ MostPoints \subseteq EPIs
  <2>1. 0 \in Int /\ 3 \in Int
    OBVIOUS
  <2>2. IsFiniteSet(EPIs)
    BY <2>1, FS_Interval DEF EPIs
  <2> QED
    BY <2>2 DEF MostPoints
<1>2. IsFiniteSet(MostPoints) /\ Cardinality(MostPoints) \in Nat /\ Cardinality(MostPoints) # 0
  BY <1>1, FS_Subset, FS_CardinalityType, FS_EmptySet, SomebodyHasMost
<1>3. CASE Cardinality(MostPoints) = 1
  <2>1. PICK epi : MostPoints = {epi}
    BY <1>2, <1>3, FS_Singleton
  <2>2. Loser = CHOOSE e \in MostPoints : TRUE
    BY <1>3 DEF Loser
  <2>3. Loser \in MostPoints
    BY <2>1, <2>2
  <2> QED
    BY <2>1, <2>3
<1>4. CASE Cardinality(MostPoints) # 1
  <2>1. /\ deal.trumpfs \in Seq(EPIs)
        /\ DOMAIN deal.trumpfs = 1 .. Len(deal.trumpfs) /\ Len(deal.trumpfs) \in Nat
    <3>1. deal \in PlayedDeals
      BY DEF PInv, PTypes
    <3>2. deal.trumpfs \in Seq(EPIs)
      BY <3>1, PayoutAssumption
    <3> QED
      BY <3>2
  <2> DEFINE T == { i \in DOMAIN deal.trumpfs : deal.trumpfs[i] \in MostPoints }
  <2>2. T # {}
    <3> SUFFICES ASSUME T = {} PROVE FALSE
      OBVIOUS
    <3>1. MostPoints \subseteq SeatsWithoutTrumpf
      BY <1>1 DEF Range, SeatsWithoutTrumpf
    <3>2. PICK epi : epi \in MostPoints
      BY SomebodyHasMost
    <3>3. MostPoints = {epi}
      BY <3>1, <3>2
    <3> QED
      BY <1>4, <3>3, FS_Singleton
  <2>3. PICK least \in T : \A i \in T : least <= i
    <3>1. T \in SUBSET Nat
      BY <2>1
    <3> HIDE DEF T
    <3> QED
      BY <2>2, <3>1, LeastOf
  <2> DEFINE IsFirst(i) == /\ deal.trumpfs[i] \in MostPoints
                           /\ \A j \in 1 .. i - 1 : deal.trumpfs[j] \notin MostPoints
             first == CHOOSE i \in DOMAIN deal.trumpfs : IsFirst(i)
  <2>4. IsFirst(least) /\ least \in DOMAIN deal.trumpfs
    <3>1. ASSUME NEW j \in 1 .. least - 1 PROVE deal.trumpfs[j] \notin MostPoints
      <4>1. j \in DOMAIN deal.trumpfs /\ ~ (least <= j)
        BY <2>1
      <4> QED
        BY <2>3, <4>1
    <3> QED
      BY <3>1
  <2>5. first \in DOMAIN deal.trumpfs /\ IsFirst(first)
    <3> HIDE DEF IsFirst
    <3> QED
      BY <2>4
  <2>6. Loser = deal.trumpfs[first]
    BY <1>4 DEF Loser
  <2> HIDE DEF first
  <2>7. ASSUME NEW other \in MostPoints \ {Loser}, NEW j \in 1 .. first
        PROVE  deal.trumpfs[j] # other
    <3>1. CASE j = first
      BY <2>6, <3>1
    <3>2. CASE j # first
      <4>1. j \in 1 .. first - 1
        BY <2>1, <2>5, <3>2
      <4> QED
        BY <2>5, <4>1
    <3> QED
      BY <3>1, <3>2
  <2> QED
    BY <2>5, <2>6, <2>7
<1> QED
  BY <1>3, <1>4

\* who makes a Durchmarsch (the condition of RamschSettled for being paid)
Marches(epi) ==
  \/ contract.kind = "RamschAll" /\ \A i \in DOMAIN winners : winners[i] = epi
  \/ contract.kind = "RamschAtLeast" /\ cache[epi].n_point >= contract.points_to_win

\* what RamschSettled says of the seat that pays, or is paid, alone
RamschAlone(epi) ==
  /\ \A other \in EPIs \ {epi} : Payout[epi] = -3 * Payout[other]
  /\ \A other \in EPIs \ {epi} :
       \/ cache[other].n_point < cache[epi].n_point
       \/ /\ cache[other].n_point = cache[epi].n_point
          /\ \E i \in DOMAIN deal.trumpfs :
               deal.trumpfs[i] = epi /\ \A j \in 1 .. i : deal.trumpfs[j] # other
  /\ Payout[epi] > 0 <=> Marches(epi)

\* Who makes it has more than half of the points, and the code finds it.
LEMMA MarchIsFound ==
  ASSUME PInv, GameFinished
  PROVE  /\ \A epi \in EPIs : Marches(epi) => cache[epi].n_point >= 61 /\ Durchmarsch
         /\ Durchmarsch => \E epi \in EPIs : Marches(epi)
<1>1. contract.points_to_win \in 61 .. 120
  BY BothParties DEF PInv
<1>2. ASSUME NEW epi \in EPIs, Marches(epi)
      PROVE  cache[epi].n_point >= 61 /\ Durchmarsch
  <2>1. CASE contract.kind = "RamschAll" /\ \A i \in DOMAIN winners : winners[i] = epi
    <3>1. cache[epi].n_stich = CardsPerPlayer(deal) /\ cache[epi].n_point = 120
      BY <2>1, AllStichs
    <3>2. cache[epi].n_point >= 61
      BY <3>1
    <3>3. epi \in MostPoints
      BY <3>2, MoreThanHalf
    <3> QED
      BY <2>1, <3>1, <3>2, <3>3 DEF Durchmarsch
  <2>2. CASE contract.kind = "RamschAtLeast" /\ cache[epi].n_point >= contract.points_to_win
    <3>1. cache[epi].n_point >= 61
      <4>1. cache[epi].n_point \in Nat
        BY TwoSeatsShare
      <4> QED
        BY <1>1, <2>2, <4>1
    <3>2. epi \in MostPoints
      BY <3>1, MoreThanHalf
    <3> QED
      BY <2>2, <3>1, <3>2 DEF Durchmarsch
  <2> QED
    BY <1>2, <2>1, <2>2 DEF Marches
<1>3. ASSUME Durchmarsch
      PROVE  \E epi \in EPIs : Marches(epi)
  <2>1. PICK epi \in MostPoints :
          \/ contract.kind = "RamschAll" /\ cache[epi].n_stich = CardsPerPlayer(deal)
          \/ contract.kind = "RamschAtLeast" /\ cache[epi].n_point >= contract.points_to_win
    BY <1>3 DEF Durchmarsch
  <2>2. epi \in EPIs
    BY DEF MostPoints
  <2> QED
    BY <2>1, <2>2, AllStichs DEF Marches
<1> QED
  BY <1>2, <1>3

\* The end of a Ramsch with a price.
LEMMA FinishedRamsch ==
  ASSUME PInv, RamschInv, GameFinished, n_price # 0, contract.kind \in RamschKinds
  PROVE  \E epi \in EPIs : RamschAlone(epi)
<1>1. Payout = InternalPayout(n_price, Parties13(IF Durchmarsch THEN CHOOSE epi \in MostPoints : TRUE ELSE Loser),
                              Durchmarsch)
  BY DEF Payout, PayoutRamsch, RamschKinds
<1>2. n_price \in Nat
  BY BothParties DEF PInv
<1>3. CASE Durchmarsch
  <2>1. PICK epi \in EPIs : Marches(epi)
    BY <1>3, MarchIsFound
  <2>2. MostPoints = {epi} /\ \A other \in EPIs \ {epi} : cache[other].n_point < cache[epi].n_point
    BY <2>1, MarchIsFound, MoreThanHalf
  <2>3. (CHOOSE e \in MostPoints : TRUE) = epi
    BY <2>2
  <2>4. Payout = InternalPayout(n_price, Parties13(epi), TRUE)
    <3>1. Durchmarsch = TRUE
      BY <1>3 DEF Durchmarsch
    <3> QED
      BY <1>1, <2>3, <3>1
  <2>5. \A other \in EPIs \ {epi} : Payout[epi] = 3 * n_price /\ Payout[other] = -n_price
    BY <1>2, <2>4, OneAgainstThree
  <2>6. Payout[epi] = 3 * n_price
    <3>1. PICK other \in EPIs : other # epi
      BY DEF EPIs
    <3> QED
      BY <2>5, <3>1
  <2>7. Payout[epi] > 0
    BY <1>2, <2>6
  <2>8. \A other \in EPIs \ {epi} : Payout[epi] = -3 * Payout[other]
    <3>1. 3 * n_price = -3 * (-n_price)
      BY <1>2
    <3> QED
      BY <2>5, <3>1
  <2> QED
    BY <2>1, <2>2, <2>7, <2>8 DEF RamschAlone
<1>4. CASE ~ Durchmarsch
  <2> DEFINE epi == Loser
  <2>1. /\ epi \in MostPoints
        /\ \A other \in MostPoints \ {epi} :
              \E i \in DOMAIN deal.trumpfs :
                deal.trumpfs[i] = epi /\ \A j \in 1 .. i : deal.trumpfs[j] # other
    BY OneWithoutTrumpf, LoserIsFound
  <2>2. epi \in EPIs /\ \A other \in EPIs : cache[other].n_point <= cache[epi].n_point
    BY <2>1 DEF MostPoints
  <2>3. Payout = InternalPayout(n_price, Parties13(epi), FALSE)
    <3>1. Durchmarsch = FALSE
      BY <1>4 DEF Durchmarsch
    <3> QED
      BY <1>1, <3>1
  <2> HIDE DEF epi
  <2>4. \A other \in EPIs \ {epi} : Payout[epi] = -(3 * n_price) /\ Payout[other] = n_price
    BY <1>2, <2>2, <2>3, OneAgainstThree
  <2>5. Payout[epi] = -(3 * n_price)
    <3>1. PICK other \in EPIs : other # epi
      BY DEF EPIs
    <3> QED
      BY <2>4, <3>1
  <2>6. ~ (Payout[epi] > 0)
    BY <1>2, <2>5
  <2>7. ~ Marches(epi)
    BY <1>4, <2>2, MarchIsFound
  <2>8. \A other \in EPIs \ {epi} : Payout[epi] = -3 * Payout[other]
    <3>1. -(3 * n_price) = -3 * n_price
      BY <1>2
    <3> QED
      BY <2>4, <3>1
  <2>9. ASSUME NEW other \in EPIs \ {epi}
        PROVE  \/ cache[other].n_point < cache[epi].n_point
               \/ /\ cache[other].n_point = cache[epi].n_point
                  /\ \E i \in DOMAIN deal.trumpfs :
                       deal.trumpfs[i] = epi /\ \A j \in 1 .. i : deal.trumpfs[j] # other
    <3>1. cache[other].n_point \in Nat /\ cache[epi].n_point \in Nat
      BY <2>2, TwoSeatsShare
    <3>2. CASE cache[other].n_point < cache[epi].n_point
      BY <3>2
    <3>3. CASE ~ (cache[other].n_point < cache[epi].n_point)
      <4>1. cache[other].n_point = cache[epi].n_point
        BY <2>2, <3>1, <3>3
      <4>2. other \in MostPoints
        BY <2>2, <4>1 DEF MostPoints
      <4> QED
        BY <2>1, <4>1, <4>2
    <3> QED
      BY <3>2, <3>3
  <2>10. RamschAlone(epi)
    BY <2>6, <2>7, <2>8, <2>9 DEF RamschAlone
  <2> QED
    BY <2>2, <2>10
<1> QED
  BY <1>3, <1>4

\* In a Ramsch one seat settles with the three others: the one with most points, or of
\* those with most points the one with the highest Trumpf; it is paid only if it made all
\* the Stichs or the points asked for (SRulesRamsch.payoutinfos).  Whatever was dealt, that
\* the Trumpfs decide never fails: the last panic of payoutinfos is not reached.
THEOREM RamschIsSettled ==
  ASSUME 0 \notin PricesInFile
  PROVE  Spec => []RamschSettled
<1>1. PInv /\ RamschInv => RamschSettled
  <2> SUFFICES ASSUME PInv, RamschInv, GameFinished, contract.kind \in RamschKinds
               PROVE  RamschSettled
    BY DEF RamschSettled
  <2>1. n_price # 0
    BY DEF PInv, PTypes
  <2>2. \E epi \in EPIs : RamschAlone(epi)
    BY <2>1, FinishedRamsch
  <2>3. \A one, other \in MostPoints \cap SeatsWithoutTrumpf : one = other
    BY OneWithoutTrumpf
  <2> QED
    BY <2>2, <2>3 DEF RamschAlone, Marches, RamschSettled
<1> QED
  BY <1>1, InPInv, InRamschInv, PTL
==============================================================================
