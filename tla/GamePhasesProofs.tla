--------------------------- MODULE GamePhasesProofs --------------------------
(***************************************************************************)
(* The phases of a game go on from one question to the next: whatever the  *)
(* seats that are asked answer, finish() ends in a phase that asks         *)
(* somebody, or the game is over.  The tables of the server and of the     *)
(* command line rest on it.                                                *)
(***************************************************************************)
EXTENDS GamePhases, TLAPS, WellFoundedInduction

(***************************************************************************)
(* What an answer makes of a phase, before finish() is called on it.       *)
(***************************************************************************)
Cards == N * CardsPerPlayer

Singles == { {epi} : epi \in Seats }

AtMostOne == Singles \cup {{}}

GamesInPlay ==
  [kind : {"Game"}, asked : AtMostOne, active : SUBSET Seats,
   n_card : 0 .. Cards, n_stoss : 0 .. MaxStoss]

Outcomes ==
  [kind : {"DealCards"}, asked : AtMostOne]
  \cup [kind : {"GamePreparations"}, asked : AtMostOne, contenders : SUBSET Seats]
  \cup [kind : {"DetermineRules"}, asked : AtMostOne, contenders : SUBSET Seats,
        leader : Seats, n_raise : 0 .. MaxRaises]
  \cup { game \in GamesInPlay : game.asked # {} => game.n_card < Cards }
  \cup [kind : {"GameResult"}, asked : SUBSET Seats]

\* the phases of a table that waits for an answer
Questions == { p \in Outcomes : p.asked # {} }

-----------------------------------------------------------------------------
\* What is used of the numbers of seats and of cards.
LEMMA Numbers ==
  /\ N \in Nat /\ N > 1
  /\ CardsPerPlayer \in Nat /\ CardsPerPlayer > 0
  /\ Cards \in Nat /\ Cards > 0
  /\ MaxStoss \in Nat
  /\ MaxRaises \in Nat
<1>1. /\ N \in Nat /\ N > 1
      /\ CardsPerPlayer \in Nat /\ CardsPerPlayer > 0
      /\ MaxStoss \in Nat
      /\ MaxRaises \in Nat
  BY PhasesAssumption
<1>2. Cards \in Nat /\ Cards > 0
  <2>1. \A n, m \in Nat : n > 1 /\ m > 0 => n * m \in Nat /\ n * m > 0
    OBVIOUS
  <2>2. QED
    BY <1>1, <2>1 DEF Cards
<1>3. QED
  BY <1>1, <1>2

\* The seat that is asked next is one of those who can be asked.
LEMMA HighestIsMember ==
  ASSUME NEW S, S \subseteq Seats, S # {}
  PROVE  Highest(S) \in S
<1> DEFINE T == { N - 1 - s : s \in S }
<1>1. \A s \in S : s \in Int /\ 0 <= s /\ s <= N - 1
  BY Numbers DEF Seats
<1>2. T \subseteq Nat /\ T # {}
  BY <1>1, Numbers
<1>3. PICK m \in T : \A t \in T : ~ (<<t, m>> \in OpToRel(<, Nat))
  BY <1>2, WFMin, NatLessThanWellFounded
<1>4. PICK s \in S : m = N - 1 - s
  BY <1>3
<1>5. ASSUME NEW t \in S
      PROVE  t <= s
  <2>1. N - 1 - t \in T
    OBVIOUS
  <2>2. ~ (<<N - 1 - t, m>> \in OpToRel(<, Nat))
    BY <1>3, <2>1
  <2>3. ~ (N - 1 - t < m)
    BY <1>2, <1>3, <2>1, <2>2 DEF OpToRel
  <2>4. QED
    BY <1>1, <1>4, <2>3, Numbers
<1>6. \E x \in S : \A t \in S : t <= x
  BY <1>4, <1>5
<1>7. QED
  BY <1>6 DEF Highest

\* A turn asks one seat or nobody.
LEMMA TurnType ==
  ASSUME NEW n
  PROVE  Turn(n) \in AtMostOne
  BY DEF Turn, AtMostOne, Singles

\* A question is a phase as the type invariant has it.
LEMMA QuestionsArePhases == Questions \subseteq Phases
<1> SUFFICES ASSUME NEW p \in Questions
             PROVE  p \in Phases
  OBVIOUS
<1>1. p.asked \in (SUBSET Seats) \ {{}}
  BY DEF Questions, Outcomes, GamesInPlay, AtMostOne, Singles
<1>2. CASE p \in [kind : {"DealCards"}, asked : AtMostOne]
  BY <1>1, <1>2 DEF Phases
<1>3. CASE p \in [kind : {"GamePreparations"}, asked : AtMostOne, contenders : SUBSET Seats]
  BY <1>1, <1>3 DEF Phases
<1>4. CASE p \in [kind : {"DetermineRules"}, asked : AtMostOne, contenders : SUBSET Seats,
                  leader : Seats, n_raise : 0 .. MaxRaises]
  BY <1>1, <1>4 DEF Phases
<1>5. CASE p \in { game \in GamesInPlay : game.asked # {} => game.n_card < Cards }
  <2>1. p.n_card \in 0 .. Cards - 1
    BY <1>1, <1>5, Numbers DEF GamesInPlay
  <2>2. QED
    BY <1>5, <1>1, <2>1 DEF Phases, GamesInPlay, Cards
<1>6. CASE p \in [kind : {"GameResult"}, asked : SUBSET Seats]
  BY <1>1, <1>6 DEF Phases
<1>7. QED
  BY <1>2, <1>3, <1>4, <1>5, <1>6 DEF Questions, Outcomes

\* Only GameResult asks several seats at once.
LEMMA OneIsAsked ==
  ASSUME NEW p \in Outcomes, p.kind # "GameResult"
  PROVE  p.asked \in AtMostOne
  BY DEF Outcomes, GamesInPlay

\* An answer to DealCards leads to the next seat or to the end of the phase.
LEMMA DealCardsOutcome ==
  ASSUME NEW n
  PROVE  DealCards(n) \in Outcomes
<1>1. (IF Doubling THEN Turn(n) ELSE {}) \in AtMostOne
  BY TurnType DEF AtMostOne
<1>2. QED
  BY <1>1 DEF DealCards, Outcomes

\* The same of GamePreparations, with the seats that want to play.
LEMMA GamePreparationsOutcome ==
  ASSUME NEW n, NEW contenders \in SUBSET Seats
  PROVE  GamePreparations(n, contenders) \in Outcomes
  BY TurnType DEF GamePreparations, Outcomes

\* The same of DetermineRules, whoever outbids or gives up.
LEMMA DetermineRulesOutcome ==
  ASSUME NEW contenders \in SUBSET Seats, NEW leader \in Seats, NEW epi,
         NEW n_raise \in 0 .. MaxRaises
  PROVE  DetermineRules(contenders, leader, epi, n_raise) \in Outcomes
  BY TurnType DEF DetermineRules, Outcomes

\* The same of Game, whoever wins the Stich.
LEMMA GameOutcome ==
  ASSUME NEW active \in SUBSET Seats, NEW epi \in Seats, NEW n_card \in 0 .. Cards,
         NEW n_stoss \in 0 .. MaxStoss
  PROVE  Game(active, epi, n_card, n_stoss) \in Outcomes
<1> DEFINE g == Game(active, epi, n_card, n_stoss)
<1>1. g.asked \in AtMostOne
  BY DEF Game, AtMostOne, Singles
<1>2. g \in GamesInPlay
  BY <1>1 DEF Game, GamesInPlay
<1>3. g.asked # {} => g.n_card < Cards
  BY DEF Game, Cards
<1>4. QED
  BY <1>2, <1>3 DEF Outcomes

\* The same of GameResult, which has one confirmation less to wait for.
LEMMA GameResultOutcome ==
  ASSUME NEW S \in SUBSET Seats
  PROVE  GameResult(S) \in Outcomes
  BY DEF GameResult, Outcomes

\* The first card of a game is always asked for.
LEMMA GameBegins ==
  ASSUME NEW active \in SUBSET Seats
  PROVE  Game(active, 0, 0, 0) \in Questions
<1>1. 0 \in Seats /\ 0 \in 0 .. Cards /\ 0 \in 0 .. MaxStoss
  BY Numbers DEF Seats
<1>2. Game(active, 0, 0, 0) \in Outcomes
  BY <1>1, GameOutcome
<1>3. Game(active, 0, 0, 0).asked = {0}
  BY Numbers DEF Game, Cards
<1>4. QED
  BY <1>2, <1>3 DEF Questions

\* The first question of GamePreparations is put to the first seat.
LEMMA GamePreparationsBegin ==
  GamePreparations(0, {}) \in Questions
<1>1. Turn(0) = {0}
  BY Numbers DEF Turn, Seats
<1>2. GamePreparations(0, {}).asked # {}
  BY <1>1 DEF GamePreparations
<1>3. QED
  BY <1>2, GamePreparationsOutcome DEF Questions

\* When somebody wants to play, somebody is asked: a challenger or the first to play.
LEMMA AuctionBegins ==
  ASSUME NEW contenders \in SUBSET Seats, contenders # {}, NEW next \in Auctioned(contenders)
  PROVE  next \in Questions
<1> DEFINE leader == Highest(contenders)
           rest == contenders \ {leader}
<1>1. leader \in Seats
  BY HighestIsMember
<1>2. CASE rest = {}
  <2>1. next \in Begun(leader)
    BY <1>2 DEF Auctioned
  <2>2. PICK partner \in Seats : next = Game({leader, partner}, 0, 0, 0)
    BY <2>1 DEF Begun
  <2>3. QED
    BY <1>1, <2>2, GameBegins
<1>3. CASE rest # {}
  <2>1. next = DetermineRules(contenders, leader, Highest(rest), 0)
    BY <1>3 DEF Auctioned
  <2>2. Highest(rest) \in Seats
    BY <1>3, HighestIsMember
  <2>3. next \in Outcomes
    BY <1>1, <2>1, DetermineRulesOutcome, Numbers
  <2>4. next.asked = {Highest(rest)}
    BY <2>1, <2>2 DEF DetermineRules, Turn
  <2>5. QED
    BY <2>3, <2>4 DEF Questions
<1>4. QED
  BY <1>2, <1>3

\* finish() goes on to a phase that asks somebody, or to the next game.
LEMMA SettledIsQuestion ==
  ASSUME NEW p \in Outcomes, NEW next \in Settled(p)
  PROVE  /\ next = NextGame \/ next \in Questions
         /\ p.asked # {} => next = p
<1>1. CASE p.asked # {}
  BY <1>1 DEF Settled, Questions
<1>2. CASE p.asked = {}
  <2>1. CASE p \in [kind : {"DealCards"}, asked : AtMostOne]
    <3>1. next = GamePreparations(0, {})
      BY <1>2, <2>1 DEF Settled
    <3>2. QED
      BY <1>2, <3>1, GamePreparationsBegin
  <2>2. CASE p \in [kind : {"GamePreparations"}, asked : AtMostOne, contenders : SUBSET Seats]
    <3>1. CASE p.contenders # {}
      <4>1. next \in Auctioned(p.contenders)
        BY <1>2, <2>2, <3>1 DEF Settled
      <4>2. QED
        BY <1>2, <2>2, <3>1, <4>1, AuctionBegins
    <3>2. CASE p.contenders = {}
      <4>1. next \in { IF what = "Ramsch" THEN Game({}, 0, 0, 0) ELSE NextGame :
                         what \in NobodyPlays }
        BY <1>2, <2>2, <3>2 DEF Settled
      <4>2. QED
        BY <1>2, <4>1, GameBegins
    <3>3. QED
      BY <3>1, <3>2
  <2>3. CASE p \in [kind : {"DetermineRules"}, asked : AtMostOne, contenders : SUBSET Seats,
                    leader : Seats, n_raise : 0 .. MaxRaises]
    <3>1. next \in Begun(p.leader)
      BY <1>2, <2>3 DEF Settled
    <3>2. PICK partner \in Seats : next = Game({p.leader, partner}, 0, 0, 0)
      BY <3>1 DEF Begun
    <3>3. p.leader \in Seats
      BY <2>3
    <3>4. QED
      BY <1>2, <3>2, <3>3, GameBegins
  <2>4. CASE p \in GamesInPlay
    <3>1. next = GameResult(Seats)
      BY <1>2, <2>4 DEF Settled, GamesInPlay
    <3>2. next.asked # {}
      BY <3>1, Numbers DEF GameResult, Seats
    <3>3. QED
      BY <1>2, <3>1, <3>2, GameResultOutcome DEF Questions
  <2>5. CASE p \in [kind : {"GameResult"}, asked : SUBSET Seats]
    BY <1>2, <2>5 DEF Settled
  <2>6. QED
    BY <2>1, <2>2, <2>3, <2>4, <2>5 DEF Outcomes
<1>3. QED
  BY <1>1, <1>2

\* A game begins with a question, whether or not its rules know doublings.
LEMMA DealingIsQuestion ==
  ASSUME NEW p \in Settled(DealCards(0))
  PROVE  p \in Questions
<1>1. CASE DealCards(0).asked # {}
  BY <1>1, DealCardsOutcome DEF Settled, Questions
<1>2. CASE DealCards(0).asked = {}
  <2>1. p = GamePreparations(0, {})
    BY <1>2 DEF Settled, DealCards
  <2>2. QED
    BY <2>1, GamePreparationsBegin
<1>3. QED
  BY <1>1, <1>2

(***************************************************************************)
(* An answer: what it makes of the phase is the outcome of a phase, and    *)
(* only GameResult still asks those who were asked together with epi.      *)
(***************************************************************************)
\* An accepted answer to a question leads to a question or to a phase that finish() leaves.
LEMMA AnswerOutcome ==
  ASSUME NEW p \in Questions, NEW epi \in p.asked, NEW next \in AfterAnswer(p, epi)
  PROVE  /\ next \in Outcomes
         /\ p.asked \ {epi} \subseteq next.asked
         /\ p.asked \ {epi} # {} => next.kind = p.kind
<1>0. epi \in Seats
  BY DEF Questions, Outcomes, GamesInPlay, AtMostOne, Singles
<1>1. p.kind # "GameResult" => p.asked \ {epi} = {}
  BY OneIsAsked DEF Questions, AtMostOne, Singles
<1>2. CASE p \in [kind : {"DealCards"}, asked : AtMostOne]
  <2>1. next = DealCards(epi + 1)
    BY <1>2 DEF AfterAnswer, AfterDefault, AfterChoice
  <2>2. p.kind # "GameResult"
    BY <1>2
  <2>3. QED
    BY <1>1, <2>1, <2>2, DealCardsOutcome
<1>3. CASE p \in [kind : {"GamePreparations"}, asked : AtMostOne, contenders : SUBSET Seats]
  <2>1. \/ next = GamePreparations(epi + 1, p.contenders)
        \/ next = GamePreparations(epi + 1, p.contenders \cup {epi})
    BY <1>3 DEF AfterAnswer, AfterDefault, AfterChoice
  <2>2. p.kind # "GameResult" /\ p.contenders \in SUBSET Seats
    BY <1>3
  <2>3. p.contenders \cup {epi} \in SUBSET Seats
    BY <1>0, <2>2
  <2>4. QED
    BY <1>1, <2>1, <2>2, <2>3, GamePreparationsOutcome
<1>4. CASE p \in [kind : {"DetermineRules"}, asked : AtMostOne, contenders : SUBSET Seats,
                  leader : Seats, n_raise : 0 .. MaxRaises]
  <2> DEFINE left == p.contenders \ {epi}
  <2>1. /\ p.kind # "GameResult" /\ p.leader \in Seats
        /\ p.contenders \in SUBSET Seats /\ left \in SUBSET Seats
        /\ p.n_raise \in 0 .. MaxRaises
    BY <1>4
  <2>2. \/ next = DetermineRules(left, p.leader, Highest(left \ {p.leader}), p.n_raise)
        \/ /\ p.n_raise < MaxRaises
           /\ next = DetermineRules(p.contenders, epi, p.leader, p.n_raise + 1)
    BY <1>4 DEF AfterAnswer, AfterDefault, AfterChoice
  <2>3. p.n_raise < MaxRaises => p.n_raise + 1 \in 0 .. MaxRaises
    BY <2>1, Numbers
  <2>4. next \in Outcomes
    BY <1>0, <2>1, <2>2, <2>3, DetermineRulesOutcome
  <2>5. QED
    BY <1>1, <2>1, <2>4
<1>5. CASE p \in GamesInPlay /\ p.n_card < Cards
  <2>1. /\ p.kind = "Game" /\ p.active \in SUBSET Seats /\ p.n_stoss \in 0 .. MaxStoss
        /\ p.n_card \in 0 .. Cards
    BY <1>5 DEF GamesInPlay
  <2>2. PICK e \in IF (p.n_card + 1) % N = 0 THEN Seats ELSE {NextSeat(epi)} :
          next = Game(p.active, e, p.n_card + 1, p.n_stoss)
    BY <2>1 DEF AfterAnswer, AfterDefault, AfterChoice
  <2>3. NextSeat(epi) \in Seats
    BY <1>0, Numbers DEF NextSeat, Seats
  <2>4. e \in Seats
    BY <2>2, <2>3
  <2>5. p.n_card + 1 \in 0 .. Cards
    BY <1>5, <2>1, Numbers
  <2>6. QED
    BY <1>1, <2>1, <2>2, <2>4, <2>5, GameOutcome
<1>6. CASE p \in [kind : {"GameResult"}, asked : SUBSET Seats]
  <2>1. next = GameResult(p.asked \ {epi})
    BY <1>6 DEF AfterAnswer, AfterDefault, AfterChoice
  <2>2. p.asked \ {epi} \in SUBSET Seats
    BY <1>6
  <2>3. QED
    BY <1>6, <2>1, <2>2, GameResultOutcome DEF GameResult
<1>7. QED
  BY <1>2, <1>3, <1>4, <1>5, <1>6 DEF Questions, Outcomes

\* Doubling the stakes leaves the question as it is, within the limit.
LEMMA StossOutcome ==
  ASSUME NEW p \in Questions, NEW epi, MayStoss(p, epi)
  PROVE  /\ AfterStoss(p) \in Questions
         /\ AfterStoss(p).asked = p.asked
         /\ AfterStoss(p).kind = p.kind
<1>1. p \in GamesInPlay /\ p.n_card < Cards /\ p.n_stoss < MaxStoss
  BY DEF MayStoss, Questions, Outcomes, GamesInPlay
<1>2. /\ AfterStoss(p) = [p EXCEPT !.n_stoss = p.n_stoss + 1]
      /\ p.n_stoss + 1 \in 0 .. MaxStoss
  BY <1>1, Numbers DEF AfterStoss, GamesInPlay
<1>3. AfterStoss(p) \in GamesInPlay
  BY <1>1, <1>2 DEF GamesInPlay
<1>4. /\ AfterStoss(p).asked = p.asked
      /\ AfterStoss(p).kind = p.kind
      /\ AfterStoss(p).n_card = p.n_card
  BY <1>1, <1>2 DEF GamesInPlay
<1>5. QED
  BY <1>1, <1>3, <1>4 DEF Questions, Outcomes
==============================================================================
