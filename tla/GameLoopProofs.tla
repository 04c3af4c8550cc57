---------------------------- MODULE GameLoopProofs ----------------------------
(***************************************************************************)
(* For all prices, any number of games and whatever the players answer:    *)
(* the accounts balance, the stock can be shared, it is taken whole, and   *)
(* the money of a game reaches one of its parties.                         *)
(***************************************************************************)
EXTENDS GameLoop, GamePhasesProofs, FiniteSetTheorems

\* The four seats, spelled out.
LEMMA FourSeats == EPIs = {0, 1, 2, 3}
  BY DEF EPIs

\* A party of one against three: what the one gets the three pay.
LEMMA Payout13 ==
  ASSUME NEW n \in Nat, NEW epi \in EPIs, NEW wins \in BOOLEAN
  PROVE  LET an == InternalPayout(n, Parties13(epi), wins)
         IN  an \in [EPIs -> Int] /\ Total(an) = 0
<1> DEFINE an == InternalPayout(n, Parties13(epi), wins)
<1>1. \A e \in EPIs : an[e] = IF e = epi THEN (IF wins THEN 3 * n ELSE -(3 * n))
                              ELSE (IF wins THEN -n ELSE n)
  BY DEF InternalPayout, Parties13
<1>2. an \in [EPIs -> Int]
  <2>1. \A e \in EPIs : an[e] \in Int
    BY <1>1
  <2> QED BY <2>1 DEF InternalPayout
<1>3. Total(an) = 0
  BY <1>1, FourSeats DEF Total
<1> QED BY <1>2, <1>3

\* Two against two: all of them get or pay the same.
LEMMA Payout22 ==
  ASSUME NEW n \in Nat, NEW p \in EPIs, NEW q \in EPIs, p # q, NEW wins \in BOOLEAN
  PROVE  LET an == InternalPayout(n, Parties22(p, q), wins)
         IN  an \in [EPIs -> Int] /\ Total(an) = 0
<1> DEFINE an == InternalPayout(n, Parties22(p, q), wins)
<1>1. \A e \in EPIs : an[e] = IF e \in {p, q} THEN (IF wins THEN n ELSE -n)
                              ELSE (IF wins THEN -n ELSE n)
  BY DEF InternalPayout, Parties22
<1>2. an \in [EPIs -> Int]
  <2>1. \A e \in EPIs : an[e] \in Int
    BY <1>1
  <2> QED BY <2>1 DEF InternalPayout
<1>3. Total(an) = 0
  BY <1>1, FourSeats DEF Total
<1> QED BY <1>2, <1>3

\* Raising the stakes keeps a sum of 0.
LEMMA RaisedStakes ==
  ASSUME NEW an \in [EPIs -> Int], Total(an) = 0, NEW s \in Int
  PROVE  an[0] * s + an[1] * s + an[2] * s + an[3] * s = 0
<1> DEFINE a == an[0]
           b == an[1]
           c == an[2]
           d == an[3]
<1>1. a \in Int /\ b \in Int /\ c \in Int /\ d \in Int
  BY FourSeats
<1>2. a + b + c + d = 0
  BY DEF Total
<1>3. a * s + b * s + c * s + d * s = 0
  <2> HIDE DEF a, b, c, d
  <2>1. d = -(a + b + c)
    BY <1>1, <1>2
  <2> QED
    BY <1>1, <2>1
<1> QED
  BY <1>3

\* The moves of the stock that a game can make: none, all of it, or as much again.
StockMoves == {0, n_stock, -n_stock}

\* A payout without the stock.
LEMMA IgnoringStock ==
  ASSUME NEW an \in [EPIs -> Int], Total(an) = 0, stakes \in Int
  PROVE  LET paid == PayoutIncludingStock(Ignoring(an), n_stock, stakes)
         IN  paid \in [EPIs -> Int] /\ Total(paid) = 0
<1> DEFINE paid == PayoutIncludingStock(Ignoring(an), n_stock, stakes)
<1>1. \A e \in EPIs : paid[e] = an[e] * stakes + 0
  BY DEF PayoutIncludingStock, Ignoring, IncludingStock
<1>2. \A e \in EPIs : an[e] * stakes \in Int
  OBVIOUS
<1>3. paid \in [EPIs -> Int]
  <2>1. \A e \in EPIs : paid[e] \in Int
    BY <1>1, <1>2
  <2> QED BY <2>1 DEF PayoutIncludingStock
<1>4. Total(paid) = 0
  <2>1. an[0] * stakes + an[1] * stakes + an[2] * stakes + an[3] * stakes = 0
    BY RaisedStakes
  <2> QED BY <1>1, <1>2, <2>1, FourSeats DEF Total
<1> QED BY <1>3, <1>4

\* Two seats that get a share each.
LEMMA TwoShares ==
  ASSUME NEW a \in [EPIs -> Int], Total(a) = 0, NEW share \in Int,
         NEW p \in EPIs, NEW q \in EPIs, p # q,
         NEW b, \A e \in EPIs : b[e] = a[e] + (IF e \in {p, q} THEN share ELSE 0)
  PROVE  Total(b) = share + share
<1>1. /\ a[0] \in Int /\ a[1] \in Int /\ a[2] \in Int /\ a[3] \in Int
      /\ a[0] + a[1] + a[2] + a[3] = 0
  BY FourSeats DEF Total
<1> DEFINE part == [e \in EPIs |-> IF e \in {p, q} THEN share ELSE 0]
<1>2. b[0] = a[0] + part[0] /\ b[1] = a[1] + part[1] /\ b[2] = a[2] + part[2] /\ b[3] = a[3] + part[3]
  BY FourSeats
<1>3. part[0] \in Int /\ part[1] \in Int /\ part[2] \in Int /\ part[3] \in Int
  BY FourSeats
<1>4. part[0] + part[1] + part[2] + part[3] = share + share
  <2>1. p \in {0, 1, 2, 3} /\ q \in {0, 1, 2, 3}
    BY FourSeats
  <2>2. CASE p = 0
    BY <2>1, <2>2, FourSeats
  <2>3. CASE p = 1
    BY <2>1, <2>3, FourSeats
  <2>4. CASE p = 2
    BY <2>1, <2>4, FourSeats
  <2>5. CASE p = 3
    BY <2>1, <2>5, FourSeats
  <2> QED BY <2>1, <2>2, <2>3, <2>4, <2>5
<1> HIDE DEF part
<1>5. b[0] + b[1] = (a[0] + a[1]) + (part[0] + part[1])
  BY <1>1, <1>2, <1>3
<1>6. b[2] + b[3] = (a[2] + a[3]) + (part[2] + part[3])
  BY <1>1, <1>2, <1>3
<1>7. b[0] \in Int /\ b[1] \in Int /\ b[2] \in Int /\ b[3] \in Int
  BY <1>1, <1>2, <1>3
<1>8. b[0] + b[1] + b[2] + b[3] = (b[0] + b[1]) + (b[2] + b[3])
  BY <1>7
<1>9. (b[0] + b[1]) + (b[2] + b[3]) = share + share
  BY <1>1, <1>3, <1>4, <1>5, <1>6, <1>7
<1> QED BY <1>8, <1>9 DEF Total

\* A payout of which two seats halve the stock, or pay as much into it.
LEMMA SharingTheStock ==
  ASSUME NEW an \in [EPIs -> Int], Total(an) = 0, stakes \in Int,
         NEW p \in EPIs, NEW q \in EPIs, p # q, n_stock \in Int, n_stock % 2 = 0
  PROVE  LET paid == PayoutIncludingStock(SharingStock(an, Parties22(p, q)), n_stock, stakes)
         IN  paid \in [EPIs -> Int] /\ Total(paid) \in StockMoves
<1> DEFINE infos == SharingStock(an, Parties22(p, q))
           paid == PayoutIncludingStock(infos, n_stock, stakes)
           half == n_stock \div 2
<1>1. half \in Int /\ n_stock = half + half
  OBVIOUS
<1>2. \A e \in EPIs : an[e] * stakes \in Int
  OBVIOUS
<1>3. PICK share \in {half, -half} :
        \A e \in EPIs : paid[e] = an[e] * stakes + (IF e \in {p, q} THEN share ELSE 0)
  <2> DEFINE action == IF \A epi \in {p, q} : an[epi] > 0 THEN "TakeHalf" ELSE "GiveHalf"
  <2>1. \A e \in EPIs : /\ infos[e].n_payout = an[e]
                        /\ infos[e].estockaction = IF e \in {p, q} THEN action ELSE "Ignore"
    BY DEF SharingStock, Parties22
  <2>2. \A e \in EPIs :
          paid[e] = infos[e].n_payout * stakes
                    + (IF infos[e].estockaction = "TakeHalf" THEN half
                       ELSE IF infos[e].estockaction = "GiveHalf" THEN -half ELSE 0)
    BY DEF PayoutIncludingStock, IncludingStock
  <2>3. CASE action = "TakeHalf"
    BY <2>1, <2>2, <2>3
  <2>4. CASE action = "GiveHalf"
    BY <2>1, <2>2, <2>4
  <2> QED BY <2>3, <2>4
<1>4. paid \in [EPIs -> Int]
  <2>1. \A e \in EPIs : paid[e] \in Int
    BY <1>1, <1>2, <1>3
  <2> QED BY <2>1 DEF PayoutIncludingStock
<1>5. Total(paid) = share + share
  <2>1. an[0] * stakes + an[1] * stakes + an[2] * stakes + an[3] * stakes = 0
    BY RaisedStakes
  <2>2. share \in Int
    BY <1>1, <1>3
  <2> DEFINE raised == [e \in EPIs |-> an[e] * stakes]
  <2>3. raised \in [EPIs -> Int] /\ Total(raised) = 0
    BY <1>2, <2>1, FourSeats DEF Total
  <2>4. \A e \in EPIs : paid[e] = raised[e] + (IF e \in {p, q} THEN share ELSE 0)
    BY <1>3
  <2> HIDE DEF raised, half, paid
  <2> QED BY <2>2, <2>3, <2>4, TwoShares
<1> QED BY <1>1, <1>3, <1>4, <1>5 DEF StockMoves

------------------------------------------------------------------------------
(***************************************************************************)
(* The inductive invariant.  The payouts are computed from the stakes, the *)
(* stock and the accounts, so these have to be numbers.                    *)
(***************************************************************************)
AccountsTyped ==
  /\ stakes \in Nat \ {0}
  /\ n_stock \in Int
  /\ aattable \in [EPIs -> [player : Players, n_money : Int]]

Accounts == AccountsTyped /\ AccountsBalance /\ StockCanBeShared

\* Whoever plays, a game moves none of the stock, all of it, or as much again.
LEMMA PayoutsMoveStock ==
  ASSUME Accounts, NEW active, NEW an_payout \in Payouts(active)
  PROVE  an_payout \in [EPIs -> Int] /\ Total(an_payout) \in StockMoves
<1>1. stakes \in Int /\ n_stock \in Int /\ n_stock % 2 = 0
  BY DEF Accounts, AccountsTyped, StockCanBeShared
<1>2. PICK infos \in Infos(active) : an_payout = PayoutIncludingStock(infos, n_stock, stakes)
  BY DEF Payouts
<1>3. CASE \E epi \in EPIs : infos \in InfosAmong(Parties13(epi), FALSE)
  <2>1. PICK epi \in EPIs, n \in Prices, wins \in BOOLEAN :
          infos = Ignoring(InternalPayout(n, Parties13(epi), wins))
    BY <1>3 DEF InfosAmong
  <2>2. n \in Nat
    BY GameLoopAssumption
  <2> DEFINE an == InternalPayout(n, Parties13(epi), wins)
  <2>3. an \in [EPIs -> Int] /\ Total(an) = 0
    BY <2>2, Payout13
  <2> HIDE DEF an
  <2>4. an_payout \in [EPIs -> Int] /\ Total(an_payout) = 0
    BY <1>1, <1>2, <2>1, <2>3, IgnoringStock DEF an
  <2> QED BY <2>4 DEF StockMoves
<1>4. CASE \E p \in EPIs, q \in EPIs : p # q /\ infos \in InfosAmong(Parties22(p, q), TRUE)
  <2>1. PICK p \in EPIs, q \in EPIs, n \in Prices, wins \in BOOLEAN :
          /\ p # q
          /\ infos = SharingStock(InternalPayout(n, Parties22(p, q), wins), Parties22(p, q))
    BY <1>4 DEF InfosAmong
  <2>2. n \in Nat
    BY GameLoopAssumption
  <2> DEFINE an == InternalPayout(n, Parties22(p, q), wins)
  <2>3. an \in [EPIs -> Int] /\ Total(an) = 0
    BY <2>1, <2>2, Payout22
  <2> HIDE DEF an
  <2> QED BY <1>1, <1>2, <2>1, <2>3, SharingTheStock DEF an
<1>5. CASE infos \in OneAgainstThree(active)
  BY <1>3, <1>5 DEF OneAgainstThree
<1>6. CASE infos \in TwoAgainstTwo(active)
  <2>1. PICK pair \in EPIs \X EPIs :
          pair[1] # pair[2] /\ infos \in InfosAmong(Parties22(pair[1], pair[2]), TRUE)
    BY <1>6 DEF TwoAgainstTwo
  <2> QED BY <1>4, <2>1
<1> QED BY <1>5, <1>6 DEF Infos

\* What is paid into the stock is a multiple of four.
LEMMA StockPayoutTotal ==
  ASSUME Accounts
  PROVE  /\ StockPayout \in [EPIs -> Int]
         /\ \E n \in Nat : Total(StockPayout) = -(4 * n)
<1> DEFINE n == StockPrice * (IF StockDoubled THEN stakes ELSE 1)
<1>1. n \in Nat
  BY GameLoopAssumption DEF Accounts, AccountsTyped
<1>2. \A epi \in EPIs : StockPayout[epi] = -n
  BY DEF StockPayout
<1>3. StockPayout \in [EPIs -> Int]
  BY <1>1 DEF StockPayout
<1> HIDE DEF n
<1>4. Total(StockPayout) = -(4 * n)
  BY <1>1, <1>2, FourSeats DEF Total
<1> QED BY <1>1, <1>3, <1>4

\* Paying out and moving up keeps players and money, and adds the payouts.
LEMMA MoneyPaid ==
  ASSUME AccountsTyped, NEW an \in [EPIs -> Int]
  PROVE  LET at == RotateLeft(Paid(an))
         IN  /\ at \in [EPIs -> [player : Players, n_money : Int]]
             /\ Money(at) = Money(aattable) + Total(an)
<1> DEFINE paid == Paid(an)
           at == RotateLeft(paid)
<1>1. \A epi \in EPIs : /\ paid[epi] \in [player : Players, n_money : Int]
                        /\ paid[epi].n_money = aattable[epi].n_money + an[epi]
  BY DEF AccountsTyped, Paid
<1> HIDE DEF paid
<1>2. at[0] = paid[1] /\ at[1] = paid[2] /\ at[2] = paid[3] /\ at[3] = paid[0]
  BY FourSeats DEF RotateLeft
<1>3. at \in [EPIs -> [player : Players, n_money : Int]]
  <2>1. \A epi \in EPIs : at[epi] \in [player : Players, n_money : Int]
    BY <1>1, <1>2, FourSeats
  <2> QED BY <2>1 DEF RotateLeft
<1> HIDE DEF at
<1>4. Money(at) = Money(paid)
  BY <1>1, <1>2, FourSeats DEF Money, Total
<1>5. Money(paid) = Money(aattable) + Total(an)
  <2>1. \A epi \in EPIs : aattable[epi].n_money \in Int
    BY DEF AccountsTyped
  <2> QED BY <1>1, <2>1, FourSeats DEF Money, Total
<1> QED BY <1>3, <1>4, <1>5 DEF at, paid

\* apply_payout of a sum that the stock can move by keeps the accounts.
LEMMA ApplyKeepsAccounts ==
  ASSUME Accounts, NEW an \in [EPIs -> Int], ApplyPayout(an),
         Total(an) \in StockMoves \/ \E n \in Nat : Total(an) = -(4 * n)
  PROVE  Accounts' /\ (n_stock' < n_stock => n_stock' = 0)
<1>1. Total(an) \in Int
  BY FourSeats DEF Total
<1>2. /\ n_stock' = n_stock - Total(an)
      /\ aattable' = RotateLeft(Paid(an))
      /\ stakes' = 1
  BY DEF ApplyPayout
<1>3. AccountsTyped'
  BY <1>1, <1>2, MoneyPaid DEF Accounts, AccountsTyped
<1>4. AccountsBalance'
  <2>1. Money(aattable) \in Int
    BY FourSeats DEF Money, Total, Accounts, AccountsTyped
  <2>2. Money(aattable)' = Money(aattable) + Total(an)
    BY <1>2, MoneyPaid DEF Accounts, Money, Total
  <2> QED BY <1>1, <1>2, <2>1, <2>2 DEF Accounts, AccountsTyped, AccountsBalance
<1>5. StockCanBeShared' /\ (n_stock' < n_stock => n_stock' = 0)
  <2>1. n_stock \in Int /\ n_stock >= 0 /\ n_stock % 2 = 0
    BY DEF Accounts, AccountsTyped, StockCanBeShared
  <2>2. CASE Total(an) = 0
    BY <1>2, <2>1, <2>2 DEF StockCanBeShared
  <2>3. CASE Total(an) = n_stock
    BY <1>2, <2>1, <2>3 DEF StockCanBeShared
  <2>4. CASE Total(an) = -n_stock
    BY <1>2, <2>1, <2>4 DEF StockCanBeShared
  <2>5. CASE \E n \in Nat : Total(an) = -(4 * n)
    BY <1>2, <2>1, <2>5 DEF StockCanBeShared
  <2> QED BY <2>2, <2>3, <2>4, <2>5 DEF StockMoves
<1> QED BY <1>3, <1>4, <1>5 DEF Accounts

\* Before the first game nobody owes anybody.
LEMMA AccountsInit ==
  ASSUME Init
  PROVE  Accounts
<1>1. \A epi \in EPIs : aattable[epi].n_money = 0
  BY DEF Init
<1> QED BY <1>1, FourSeats
        DEF Init, Accounts, AccountsTyped, AccountsBalance, StockCanBeShared, Money, Total,
            Players

\* Every step keeps the accounts, and takes the stock whole or not at all.
LEMMA AccountsStep ==
  ASSUME Accounts, [Next]_vars
  PROVE  Accounts' /\ (n_stock' < n_stock => n_stock' = 0)
<1>1. ASSUME UNCHANGED <<aattable, n_stock>>, stakes' \in Nat \ {0}
      PROVE  Accounts' /\ (n_stock' < n_stock => n_stock' = 0)
  BY <1>1 DEF Accounts, AccountsTyped, AccountsBalance, StockCanBeShared, Money, Total
<1>2. stakes \in Nat \ {0} /\ 2 * stakes \in Nat \ {0}
  BY DEF Accounts, AccountsTyped
<1>3. ASSUME NEW epi \in EPIs, NEW b_doubling \in BOOLEAN, AskForDoubling(epi, b_doubling)
      PROVE  Accounts' /\ (n_stock' < n_stock => n_stock' = 0)
  BY <1>1, <1>2, <1>3 DEF AskForDoubling
<1>4. ASSUME NEW epi \in EPIs, AskForGameOrCard(epi)
      PROVE  Accounts' /\ (n_stock' < n_stock => n_stock' = 0)
  BY <1>1, <1>2, <1>4 DEF AskForGameOrCard
<1>5. ASSUME NEW epi \in EPIs, AskForStoss(epi)
      PROVE  Accounts' /\ (n_stock' < n_stock => n_stock' = 0)
  BY <1>1, <1>2, <1>5 DEF AskForStoss
<1>6. ASSUME NEW epi \in EPIs, FinishGame(epi)
      PROVE  Accounts' /\ (n_stock' < n_stock => n_stock' = 0)
  <2>1. PICK an_payout \in Payouts(phase.active) : ApplyPayout(an_payout)
    BY <1>6 DEF FinishGame
  <2> QED BY <2>1, PayoutsMoveStock, ApplyKeepsAccounts
<1>7. ASSUME NEW epi \in EPIs, PayIntoStock(epi)
      PROVE  Accounts' /\ (n_stock' < n_stock => n_stock' = 0)
  <2>1. ApplyPayout(StockPayout)
    BY <1>7 DEF PayIntoStock
  <2> QED BY <2>1, StockPayoutTotal, ApplyKeepsAccounts
<1>8. CASE LoopEnded \/ UNCHANGED vars
  BY <1>1, <1>2, <1>8 DEF LoopEnded, vars
<1> QED BY <1>3, <1>4, <1>5, <1>6, <1>7, <1>8 DEF Next

------------------------------------------------------------------------------
\* The assertion after every turn of the loop (run.rs) never fails: what the players
\* have lost is in the stock.
THEOREM AccountsAlwaysBalance == Spec => []AccountsBalance
<1>1. Init => Accounts
  BY AccountsInit
<1>2. Accounts /\ [Next]_vars => Accounts'
  BY AccountsStep
<1>3. Accounts => AccountsBalance
  BY DEF Accounts
<1> QED BY <1>1, <1>2, <1>3, PTL DEF Spec

\* The assertions about the stock in apply_payout and payout_including_stock never
\* fail: it is neither overdrawn nor odd.
THEOREM StockCanAlwaysBeShared == Spec => []StockCanBeShared
<1>1. Init => Accounts
  BY AccountsInit
<1>2. Accounts /\ [Next]_vars => Accounts'
  BY AccountsStep
<1>3. Accounts => StockCanBeShared
  BY DEF Accounts
<1> QED BY <1>1, <1>2, <1>3, PTL DEF Spec

\* apply_payout: a game that takes from the stock takes all of it.
THEOREM StockIsTakenWhole == Spec => StockTakenWhole
<1>1. Init => Accounts
  BY AccountsInit
<1>2. Accounts /\ [Next]_vars => Accounts'
  BY AccountsStep
<1>3. Accounts /\ [Next]_vars => [n_stock' < n_stock => n_stock' = 0]_vars
  BY AccountsStep
<1> QED BY <1>1, <1>2, <1>3, PTL DEF Spec, StockTakenWhole

------------------------------------------------------------------------------
(***************************************************************************)
(* The loop goes from question to question, and ends when all the games    *)
(* are played.                                                             *)
(***************************************************************************)
LoopIsAsking ==
  /\ i_game \in 0 .. NGames
  /\ phase \in Questions \cup {NextGame}
  /\ phase # NextGame => i_game < NGames

LoopInv == Accounts /\ LoopIsAsking

\* The next turn of the loop begins with a question, unless it was the last.
LEMMA TurnBegins ==
  ASSUME NEW n \in Nat, n <= NGames, NEW next \in FirstPhase(n)
  PROVE  /\ next \in Questions \cup {NextGame}
         /\ next # NextGame => n < NGames
<1>1. CASE n < NGames
  BY <1>1, DealingIsQuestion DEF FirstPhase
<1>2. CASE ~ (n < NGames)
  BY <1>2 DEF FirstPhase
<1> QED BY <1>1, <1>2

\* What an answer to the question of the loop settles in.
LEMMA AnswerSettles ==
  ASSUME LoopIsAsking, NEW epi \in phase.asked, NEW p \in AfterAnswer(phase, epi),
         NEW next \in Settled(p)
  PROVE  /\ phase # NextGame
         /\ next \in Questions \cup {NextGame}
<1>1. phase # NextGame
  BY DEF NextGame
<1>2. phase \in Questions
  BY <1>1 DEF LoopIsAsking
<1>3. p \in Outcomes
  BY <1>2, AnswerOutcome
<1> QED BY <1>1, <1>3, SettledIsQuestion

\* apply_payout is called once for each game, and the next one begins.
LEMMA ApplyKeepsAsking ==
  ASSUME LoopIsAsking, NEW an, phase # NextGame, ApplyPayout(an)
  PROVE  LoopIsAsking'
<1>1. i_game \in Nat /\ NGames \in Nat /\ i_game < NGames
  BY GameLoopAssumption DEF LoopIsAsking
<1>2. i_game' = i_game + 1 /\ phase' \in FirstPhase(i_game + 1)
  BY DEF ApplyPayout
<1>3. i_game + 1 \in Nat /\ i_game + 1 <= NGames
  BY <1>1
<1>4. phase' \in Questions \cup {NextGame} /\ (phase' # NextGame => i_game + 1 < NGames)
  BY <1>2, <1>3, TurnBegins
<1> QED BY <1>1, <1>2, <1>3, <1>4 DEF LoopIsAsking

\* The loop starts asking.
LEMMA AskingInit ==
  ASSUME Init
  PROVE  LoopIsAsking
<1>1. 0 \in Nat /\ 0 <= NGames /\ NGames \in Nat
  BY GameLoopAssumption
<1>2. i_game = 0 /\ phase \in FirstPhase(0)
  BY DEF Init
<1> QED BY <1>1, <1>2, TurnBegins DEF LoopIsAsking

\* Every step leaves the loop asking, or at its end.
LEMMA AskingStep ==
  ASSUME LoopIsAsking, [Next]_vars
  PROVE  LoopIsAsking'
<1>1. ASSUME NEW epi \in phase.asked, UNCHANGED i_game,
             phase' \in UNION { Settled(p) : p \in AfterAnswer(phase, epi) }
      PROVE  LoopIsAsking'
  <2>1. PICK p \in AfterAnswer(phase, epi) : phase' \in Settled(p)
    BY <1>1
  <2>2. phase # NextGame /\ phase' \in Questions \cup {NextGame}
    BY <1>1, <2>1, AnswerSettles
  <2> QED BY <1>1, <2>2 DEF LoopIsAsking
<1>2. ASSUME NEW epi \in EPIs, NEW b_doubling \in BOOLEAN, AskForDoubling(epi, b_doubling)
      PROVE  LoopIsAsking'
  <2>1. phase' \in UNION { Settled(p) : p \in AfterAnswer(phase, epi) }
    BY <1>2 DEF AskForDoubling, AfterAnswer
  <2> QED BY <1>1, <1>2, <2>1 DEF AskForDoubling
<1>3. ASSUME NEW epi \in EPIs, AskForGameOrCard(epi)
      PROVE  LoopIsAsking'
  <2>1. phase' \in UNION { Settled(p) : p \in AfterAnswer(phase, epi) }
    BY <1>3 DEF AskForGameOrCard
  <2> QED BY <1>1, <1>3, <2>1 DEF AskForGameOrCard
<1>4. ASSUME NEW epi \in EPIs, AskForStoss(epi)
      PROVE  LoopIsAsking'
  <2>1. phase # NextGame
    BY <1>4 DEF AskForStoss, NextGame
  <2>2. phase \in Questions /\ MayStoss(phase, epi) /\ phase' = AfterStoss(phase)
    BY <1>4, <2>1 DEF AskForStoss, LoopIsAsking
  <2>3. phase' \in Questions
    BY <2>2, StossOutcome
  <2> QED BY <1>4, <2>1, <2>3 DEF AskForStoss, LoopIsAsking
<1>5. ASSUME NEW epi \in EPIs, FinishGame(epi)
      PROVE  LoopIsAsking'
  <2>1. phase # NextGame
    BY <1>5 DEF FinishGame, NextGame
  <2> QED BY <1>5, <2>1, ApplyKeepsAsking DEF FinishGame
<1>6. ASSUME NEW epi \in EPIs, PayIntoStock(epi)
      PROVE  LoopIsAsking'
  <2>1. phase # NextGame
    BY <1>6 DEF PayIntoStock, NextGame
  <2> QED BY <1>6, <2>1, ApplyKeepsAsking DEF PayIntoStock
<1>7. CASE LoopEnded \/ UNCHANGED vars
  BY <1>7 DEF LoopEnded, vars, LoopIsAsking
<1> QED BY <1>2, <1>3, <1>4, <1>5, <1>6, <1>7 DEF Next

\* The type invariant: run_simple_game_loop asks for nothing that is no phase of a game,
\* plays no game too many, and its stakes and accounts are numbers.
THEOREM TypeCorrect == Spec => []TypeOK
<1>1. Init => LoopInv
  BY AccountsInit, AskingInit DEF LoopInv
<1>2. LoopInv /\ [Next]_vars => LoopInv'
  BY AccountsStep, AskingStep DEF LoopInv
<1>3. LoopInv => TypeOK
  BY QuestionsArePhases DEF LoopInv, LoopIsAsking, Accounts, AccountsTyped, TypeOK
<1> QED BY <1>1, <1>2, <1>3, PTL DEF Spec

------------------------------------------------------------------------------
(***************************************************************************)
(* Who is paid.  What a seat wins or loses before the stakes decides it:   *)
(* neither the stakes nor the share of the stock turn a gain into a loss.  *)
(***************************************************************************)
Winning(an) == { epi \in EPIs : an[epi] > 0 }

\* A positive amount stays positive when the stakes are raised, a negative one negative.
LEMMA StakesKeepSign ==
  ASSUME NEW n \in Nat \ {0}, NEW s \in Nat \ {0}
  PROVE  /\ n * s > 0
         /\ (-n) * s < 0
<1>1. n * s \in Nat /\ n * s > 0
  <2>1. \A a, b \in Nat : a > 0 /\ b > 0 => a * b \in Nat /\ a * b > 0
    OBVIOUS
  <2> QED BY <2>1
<1>2. (-n) * s = -(n * s)
  OBVIOUS
<1> QED BY <1>1, <1>2

\* One against three: either the one is paid, or the three are.
LEMMA OneOrThreeWin ==
  ASSUME Accounts, NEW n \in Prices, NEW epi \in EPIs, NEW wins \in BOOLEAN,
         NEW an, an = PayoutIncludingStock(
                        Ignoring(InternalPayout(n, Parties13(epi), wins)), n_stock, stakes)
  PROVE  Winning(an) \in {{epi}, EPIs \ {epi}}
<1> DEFINE base == InternalPayout(n, Parties13(epi), wins)
<1>1. n \in Nat \ {0} /\ 3 * n \in Nat \ {0} /\ stakes \in Nat \ {0}
  BY GameLoopAssumption DEF Accounts, AccountsTyped
<1>2. \A e \in EPIs : base[e] = IF e = epi THEN (IF wins THEN 3 * n ELSE -(3 * n))
                                ELSE (IF wins THEN -n ELSE n)
  BY <1>1 DEF InternalPayout, Parties13
<1>3. \A e \in EPIs : an[e] = base[e] * stakes + 0
  BY DEF PayoutIncludingStock, Ignoring, IncludingStock
<1>4. /\ n * stakes > 0 /\ (-n) * stakes < 0
      /\ (3 * n) * stakes > 0 /\ (-(3 * n)) * stakes < 0
  BY <1>1, StakesKeepSign
<1>5. /\ n * stakes \in Int /\ (-n) * stakes \in Int
      /\ (3 * n) * stakes \in Int /\ (-(3 * n)) * stakes \in Int
  BY <1>1
<1> HIDE DEF base
<1>6. CASE wins
  <2>1. base[epi] = 3 * n /\ \A e \in EPIs : e # epi => base[e] = -n
    BY <1>2, <1>6
  <2>2. an[epi] = (3 * n) * stakes + 0
    BY <1>3, <2>1
  <2>3. \A e \in EPIs : e # epi => an[e] = (-n) * stakes + 0
    BY <1>3, <2>1
  <2>4. \A e \in EPIs : an[e] > 0 <=> e = epi
    BY <1>4, <1>5, <2>2, <2>3
  <2> QED BY <2>4 DEF Winning
<1>7. CASE ~ wins
  <2>1. base[epi] = -(3 * n) /\ \A e \in EPIs : e # epi => base[e] = n
    BY <1>2, <1>7
  <2>2. an[epi] = (-(3 * n)) * stakes + 0
    BY <1>3, <2>1
  <2>3. \A e \in EPIs : e # epi => an[e] = n * stakes + 0
    BY <1>3, <2>1
  <2>4. \A e \in EPIs : an[e] > 0 <=> e # epi
    BY <1>4, <1>5, <2>2, <2>3
  <2> QED BY <2>4 DEF Winning
<1> QED BY <1>6, <1>7

\* Two against two: one of the pairs is paid, and who halve the stock have won.
LEMMA OnePairWins ==
  ASSUME Accounts, NEW n \in Prices, NEW p \in EPIs, NEW q \in EPIs, p # q,
         NEW wins \in BOOLEAN,
         NEW an, an = PayoutIncludingStock(
                        SharingStock(InternalPayout(n, Parties22(p, q), wins), Parties22(p, q)),
                        n_stock, stakes)
  PROVE  Winning(an) \in {{p, q}, EPIs \ {p, q}}
<1> DEFINE base == InternalPayout(n, Parties22(p, q), wins)
           infos == SharingStock(base, Parties22(p, q))
           half == n_stock \div 2
<1>1. n \in Nat \ {0} /\ stakes \in Nat \ {0}
  BY GameLoopAssumption DEF Accounts, AccountsTyped
<1>2. half \in Int /\ half >= 0
  BY DEF Accounts, AccountsTyped, StockCanBeShared
<1>3. \A e \in EPIs : base[e] = IF e \in {p, q} THEN (IF wins THEN n ELSE -n)
                                ELSE (IF wins THEN -n ELSE n)
  BY <1>1 DEF InternalPayout, Parties22
<1>4. n * stakes > 0 /\ (-n) * stakes < 0 /\ n * stakes \in Int /\ (-n) * stakes \in Int
  BY <1>1, StakesKeepSign
<1>5. (\A e \in {p, q} : base[e] > 0) <=> wins
  BY <1>1, <1>3
<1> HIDE DEF base
<1>6. \A e \in EPIs : /\ infos[e].n_payout = base[e]
                      /\ infos[e].estockaction = IF e \in {p, q}
                                                 THEN IF wins THEN "TakeHalf" ELSE "GiveHalf"
                                                 ELSE "Ignore"
  BY <1>5 DEF SharingStock, Parties22
<1>7. \A e \in EPIs : an[e] = infos[e].n_payout * stakes
                               + (IF infos[e].estockaction = "TakeHalf" THEN half
                                  ELSE IF infos[e].estockaction = "GiveHalf" THEN -half ELSE 0)
  BY DEF PayoutIncludingStock, IncludingStock, base
<1> HIDE DEF infos, half
<1>8. CASE wins
  <2>1. ASSUME NEW e \in {p, q}
        PROVE  an[e] = n * stakes + half
    <3>1. e \in EPIs /\ infos[e].n_payout = n /\ infos[e].estockaction = "TakeHalf"
      BY <1>3, <1>6, <1>8
    <3> QED BY <1>7, <3>1
  <2>2. ASSUME NEW e \in EPIs, e \notin {p, q}
        PROVE  an[e] = (-n) * stakes + 0
    <3>1. infos[e].n_payout = -n /\ infos[e].estockaction = "Ignore"
      BY <1>3, <1>6, <1>8, <2>2
    <3> QED BY <1>7, <3>1
  <2>3. \A e \in EPIs : an[e] > 0 <=> e \in {p, q}
    BY <1>2, <1>4, <2>1, <2>2
  <2> QED BY <2>3 DEF Winning
<1>9. CASE ~ wins
  <2>1. ASSUME NEW e \in {p, q}
        PROVE  an[e] = (-n) * stakes + (-half)
    <3>1. e \in EPIs /\ infos[e].n_payout = -n /\ infos[e].estockaction = "GiveHalf"
      BY <1>3, <1>6, <1>9
    <3> QED BY <1>7, <3>1
  <2>2. ASSUME NEW e \in EPIs, e \notin {p, q}
        PROVE  an[e] = n * stakes + 0
    <3>1. infos[e].n_payout = n /\ infos[e].estockaction = "Ignore"
      BY <1>3, <1>6, <1>9, <2>2
    <3> QED BY <1>7, <3>1
  <2>3. \A e \in EPIs : an[e] > 0 <=> e \notin {p, q}
    BY <1>2, <1>4, <2>1, <2>2
  <2> QED BY <2>3 DEF Winning
<1> QED BY <1>8, <1>9

\* One seat, or all but one.
LEMMA OneOrThree ==
  ASSUME NEW epi \in EPIs, NEW S \in {{epi}, EPIs \ {epi}}
  PROVE  Cardinality(S) \in {1, 3}
<1>1. Cardinality(EPIs) = 4 /\ IsFiniteSet(EPIs)
  <2>1. /\ IsFiniteSet(0 .. 3)
        /\ Cardinality(0 .. 3) = IF 0 > 3 THEN 0 ELSE 3 - 0 + 1
    BY FS_Interval, 0 \in Int, 3 \in Int
  <2> QED BY <2>1 DEF EPIs
<1>2. Cardinality({epi}) = 1
  BY FS_Singleton
<1>3. Cardinality(EPIs \ {epi}) = 3
  BY <1>1, FS_RemoveElement
<1> QED BY <1>2, <1>3

\* Whoever plays a game, its payouts are positive for one of the parties.
LEMMA OnePartyWins ==
  ASSUME Accounts, NEW active, NEW an \in Payouts(active)
  PROVE  IF active = {} THEN Cardinality(Winning(an)) \in {1, 3}
         ELSE Winning(an) \in {active, EPIs \ active}
<1>1. PICK infos \in Infos(active) : an = PayoutIncludingStock(infos, n_stock, stakes)
  BY DEF Payouts
<1>2. CASE infos \in OneAgainstThree(active)
  <2>1. PICK epi \in { e \in EPIs : active = {} \/ active = {e} } :
          infos \in InfosAmong(Parties13(epi), FALSE)
    BY <1>2 DEF OneAgainstThree
  <2>2. PICK n \in Prices, wins \in BOOLEAN :
          infos = Ignoring(InternalPayout(n, Parties13(epi), wins))
    BY <2>1 DEF InfosAmong
  <2>3. Winning(an) \in {{epi}, EPIs \ {epi}}
    BY <1>1, <2>2, OneOrThreeWin
  <2>4. Cardinality(Winning(an)) \in {1, 3}
    BY <2>3, OneOrThree
  <2> QED BY <2>1, <2>3, <2>4
<1>3. CASE infos \in TwoAgainstTwo(active)
  <2>1. PICK pair \in EPIs \X EPIs :
          /\ pair[1] # pair[2] /\ active = {pair[1], pair[2]}
          /\ infos \in InfosAmong(Parties22(pair[1], pair[2]), TRUE)
    BY <1>3 DEF TwoAgainstTwo
  <2>2. PICK n \in Prices, wins \in BOOLEAN :
          infos = SharingStock(InternalPayout(n, Parties22(pair[1], pair[2]), wins),
                               Parties22(pair[1], pair[2]))
    BY <2>1 DEF InfosAmong
  <2>3. Winning(an) \in {{pair[1], pair[2]}, EPIs \ {pair[1], pair[2]}}
    BY <1>1, <2>1, <2>2, OnePairWins
  <2> QED BY <2>1, <2>3
<1> QED BY <1>1, <1>2, <1>3 DEF Infos

(***************************************************************************)
(* The players keep apart while they move up, so that each of them is      *)
(* found again behind the seat that was paid.                              *)
(***************************************************************************)
PlayersApart(at) == \A e, f \in EPIs : at[e].player = at[f].player => e = f

\* Moving up, every player sits one seat before the one that was played from.
LEMMA MovedUp ==
  ASSUME AccountsTyped, PlayersApart(aattable), NEW an \in [EPIs -> Int], NEW at,
         at = RotateLeft(Paid(an))
  PROVE  /\ PlayersApart(at)
         /\ \A epi \in EPIs :
              \E e \in EPIs :
                /\ at[e].player = aattable[epi].player
                /\ at[e].n_money = aattable[epi].n_money + an[epi]
<1> DEFINE paid == Paid(an)
<1>1. \A epi \in EPIs : /\ paid[epi].player = aattable[epi].player
                        /\ paid[epi].n_money = aattable[epi].n_money + an[epi]
  BY DEF AccountsTyped, Paid
<1> HIDE DEF paid
<1>2. at[0] = paid[1] /\ at[1] = paid[2] /\ at[2] = paid[3] /\ at[3] = paid[0]
  BY FourSeats DEF RotateLeft, paid
<1>3. PlayersApart(at)
  BY <1>1, <1>2, FourSeats DEF PlayersApart
<1>4. ASSUME NEW epi \in EPIs
      PROVE  \E e \in EPIs : at[e] = paid[epi]
  BY <1>2, FourSeats
<1> QED BY <1>1, <1>3, <1>4

SeatsInv == Accounts /\ PlayersApart(aattable)

\* Every step keeps the players apart.
LEMMA SeatsStep ==
  ASSUME SeatsInv, [Next]_vars
  PROVE  SeatsInv'
<1>1. Accounts'
  BY AccountsStep DEF SeatsInv
<1>2. ASSUME NEW an \in [EPIs -> Int], ApplyPayout(an)
      PROVE  PlayersApart(aattable')
  BY <1>2, MovedUp DEF SeatsInv, Accounts, ApplyPayout
<1>3. ASSUME NEW epi \in EPIs, FinishGame(epi)
      PROVE  PlayersApart(aattable')
  BY <1>2, <1>3, PayoutsMoveStock DEF FinishGame, SeatsInv
<1>4. ASSUME NEW epi \in EPIs, PayIntoStock(epi)
      PROVE  PlayersApart(aattable')
  BY <1>2, <1>4, StockPayoutTotal DEF PayIntoStock, SeatsInv
<1>5. ASSUME UNCHANGED aattable
      PROVE  PlayersApart(aattable')
  BY <1>5 DEF SeatsInv, PlayersApart
<1>6. PlayersApart(aattable')
  BY <1>3, <1>4, <1>5
     DEF Next, AskForDoubling, AskForGameOrCard, AskForStoss, LoopEnded, vars
<1> QED BY <1>1, <1>6 DEF SeatsInv, PlayersApart

\* When a game ends, who has more money than before are the seats that its payout says.
LEMMA PaidAreWinning ==
  ASSUME SeatsInv, NEW an \in [EPIs -> Int], ApplyPayout(an), NEW epi \in EPIs
  PROVE  LET after == CHOOSE e \in EPIs : aattable'[e].player = aattable[epi].player
         IN  aattable'[after].n_money > aattable[epi].n_money <=> an[epi] > 0
<1> DEFINE after == CHOOSE e \in EPIs : aattable'[e].player = aattable[epi].player
<1>1. aattable' = RotateLeft(Paid(an))
  BY DEF ApplyPayout
<1>2. /\ PlayersApart(aattable')
      /\ \E e \in EPIs : /\ aattable'[e].player = aattable[epi].player
                         /\ aattable'[e].n_money = aattable[epi].n_money + an[epi]
  BY <1>1, MovedUp DEF SeatsInv, Accounts
<1>3. PICK e \in EPIs : /\ aattable'[e].player = aattable[epi].player
                        /\ aattable'[e].n_money = aattable[epi].n_money + an[epi]
  BY <1>2
<1>4. after \in EPIs /\ aattable'[after].player = aattable[epi].player
  BY <1>3
<1>5. after = e
  BY <1>2, <1>3, <1>4 DEF PlayersApart
<1>6. aattable[epi].n_money \in Int /\ an[epi] \in Int
  BY DEF SeatsInv, Accounts, AccountsTyped
<1> HIDE DEF after
<1>7. aattable'[after].n_money > aattable[epi].n_money <=> an[epi] > 0
  BY <1>3, <1>5, <1>6
<1> QED BY <1>7 DEF after

\* apply_payout: the money of a game is paid before the players move up, to the seats of
\* one of its parties, whatever the stakes and the stock.
THEOREM OnePartyAlwaysPaid == Spec => OnePartyIsPaid
<1>1. Init => SeatsInv
  BY AccountsInit DEF Init, SeatsInv, PlayersApart
<1>2. SeatsInv /\ [Next]_vars => SeatsInv'
  BY SeatsStep
<1> DEFINE Step ==
      (phase.kind = "Game" /\ i_game' # i_game) =>
       LET after(player) == CHOOSE epi \in EPIs : aattable'[epi].player = player
           paid == { epi \in EPIs :
                       aattable'[after(aattable[epi].player)].n_money > aattable[epi].n_money }
       IN  IF phase.active = {} THEN Cardinality(paid) \in {1, 3}
           ELSE paid \in {phase.active, EPIs \ phase.active}
<1>3. SeatsInv /\ [Next]_vars => Step
  <2> SUFFICES ASSUME SeatsInv, [Next]_vars, phase.kind = "Game", i_game' # i_game
               PROVE  Step
    OBVIOUS
  <2>1. \E epi \in EPIs : FinishGame(epi)
    BY DEF Next, AskForDoubling, AskForGameOrCard, AskForStoss, PayIntoStock, LoopEnded, vars
  <2>2. PICK an \in Payouts(phase.active) : ApplyPayout(an)
    BY <2>1 DEF FinishGame
  <2>3. an \in [EPIs -> Int]
    BY <2>2, PayoutsMoveStock DEF SeatsInv
  <2> DEFINE paid == { epi \in EPIs :
        aattable'[CHOOSE e \in EPIs : aattable'[e].player = aattable[epi].player].n_money
          > aattable[epi].n_money }
  <2>4. paid = Winning(an)
    BY <2>2, <2>3, PaidAreWinning DEF Winning
  <2>5. IF phase.active = {} THEN Cardinality(Winning(an)) \in {1, 3}
        ELSE Winning(an) \in {phase.active, EPIs \ phase.active}
    BY <2>2, OnePartyWins DEF SeatsInv
  <2>6. IF phase.active = {} THEN Cardinality(paid) \in {1, 3}
        ELSE paid \in {phase.active, EPIs \ phase.active}
    BY <2>4, <2>5
  <2> QED BY <2>6
<1>4. SeatsInv /\ [Next]_vars => [Step]_vars
  BY <1>3
<1> QED BY <1>1, <1>2, <1>4, PTL DEF Spec, OnePartyIsPaid
==============================================================================
