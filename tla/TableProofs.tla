----------------------------- MODULE TableProofs -----------------------------
(***************************************************************************)
(* Theorems about the table, for every number of seats, cards and peers.   *)
(*                                                                         *)
(* The argument: the phase of the table is always a question, that is, it  *)
(* asks somebody, and only GameResult asks more than one seat at a time.   *)
(* So once a seat has answered no command is left but those of GameResult, *)
(* whose question remains; and what ask_with_timeout replaces is always a  *)
(* command of the phase it asks for.                                       *)
(*                                                                         *)
(* The second half is about places: what moves a peer - a connection, the  *)
(* rotation of the seats, the line that fills them, a removal - leaves     *)
(* everybody else where they are.                                          *)
(***************************************************************************)
EXTENDS Table, GamePhasesProofs, FiniteSetTheorems, SequenceTheorems

\* commands that may still be stored when p is asked
Compatible(c, p) ==
  \A epi \in Seats : c[epi] # NoCmd => epi \in p.asked /\ c[epi].kind = p.kind

Fresh(c, p) ==
  c = [epi \in Seats |-> IF p # NoPhase /\ epi \in p.asked THEN p ELSE NoCmd]

IInv ==
  /\ phase \in Questions \cup {NoPhase}
  /\ Fresh(cmd, phase)
  /\ poisoned => Lost # {}

-----------------------------------------------------------------------------
(***************************************************************************)
(* The commands.                                                           *)
(***************************************************************************)
\* A game begins with a question.
LEMMA FirstQuestionIsQuestion ==
  ASSUME NEW p \in FirstQuestion
  PROVE  p \in Questions
  BY DealingIsQuestion DEF FirstQuestion

\* The values for "none" are no questions.
LEMMA NoCmdIsNoQuestion == NoCmd \notin Questions /\ NoPhase \notin Questions
  BY QuestionsArePhases, TableAssumption

\* What is left of fresh commands once one of them is taken.
LEMMA TakenIsCompatible ==
  ASSUME IInv, phase # NoPhase, NEW epi, NEW p,
         phase.asked \ {epi} \subseteq p.asked,
         phase.asked \ {epi} # {} => p.kind = phase.kind
  PROVE  Compatible(Taken(epi), p)
<1> SUFFICES ASSUME NEW e \in Seats, Taken(epi)[e] # NoCmd
             PROVE  e \in p.asked /\ Taken(epi)[e].kind = p.kind
  BY DEF Compatible
<1>1. cmd = [f \in Seats |-> IF f \in phase.asked THEN phase ELSE NoCmd]
  BY DEF IInv, Fresh
<1>2. Taken(epi)[e] = IF e = epi THEN NoCmd ELSE cmd[e]
  BY <1>1 DEF Taken
<1>3. e # epi /\ e \in phase.asked /\ Taken(epi)[e] = phase
  BY <1>1, <1>2
<1>4. QED
  BY <1>3

\* Fresh commands are compatible with the question they were stored for.
LEMMA FreshIsCompatible ==
  ASSUME IInv, phase # NoPhase
  PROVE  Compatible(cmd, phase)
  BY DEF IInv, Fresh, Compatible

\* Between two games no command is stored.
LEMMA NoCmdBetweenGames ==
  ASSUME IInv, phase = NoPhase
  PROVE  \A epi \in Seats : cmd[epi] = NoCmd
  BY DEF IInv, Fresh

\* Asking the next question leaves fresh commands, or poisons the table for a lost peer.
LEMMA AskKeepsIInv ==
  ASSUME IInv, ~ poisoned, NEW s, NEW w, NEW c, NEW t, NEW p \in Questions,
         \A epi \in Seats : c[epi] # NoCmd => epi \in p.asked /\ c[epi].kind = p.kind,
         Ask(s, w, c, t, p),
         Lost # {} => Lost' # {}
  PROVE  IInv'
<1> DEFINE replaced == { epi \in p.asked : c[epi] # NoCmd }
<1>0. p.asked \subseteq Seats
  BY DEF Questions, Outcomes, GamesInPlay, AtMostOne, Singles
<1>1. \A epi \in replaced : c[epi].kind = p.kind
  BY <1>0
<1>2. CASE Lost # {}
  <2>1. poisoned' = TRUE /\ UNCHANGED <<phase, cmd>>
    BY <1>2 DEF Ask
  <2>2. QED
    BY <1>2, <2>1 DEF IInv, Fresh
<1>3. CASE Lost = {}
  <2>1. phase' = p /\ cmd' = Asked(s, c, p) /\ UNCHANGED poisoned
    BY <1>1, <1>3 DEF Ask
  <2>2. Asked(s, c, p) = [epi \in Seats |-> IF epi \in p.asked THEN p ELSE NoCmd]
    BY DEF Asked
  <2>3. p # NoPhase
    BY NoCmdIsNoQuestion
  <2>4. QED
    BY <2>1, <2>2, <2>3 DEF IInv, Fresh
<1>4. QED
  BY <1>2, <1>3

\* So does the beginning of the next game, or it leaves no question and no command.
LEMMA StartNextGameKeepsIInv ==
  ASSUME IInv, ~ poisoned, NEW c, NEW t, \A epi \in Seats : c[epi] = NoCmd,
         StartNextGame(c, t), Lost # {} => Lost' # {}
  PROVE  IInv'
<1> DEFINE last == N - 1
           s == [Rotated(seats) EXCEPT ![last] = NoPeer]
           w == Queued(waiting, Rotated(seats)[last])
           filled == FilledFrom(s, w)
<1>1. Rotated(c) = [epi \in Seats |-> NoCmd]
  <2>1. \A epi \in Seats : NextSeat(epi) \in Seats
    BY Numbers DEF NextSeat, Seats
  <2>2. QED
    BY <2>1 DEF Rotated
<1>2. CASE \A epi \in Seats : filled[epi] # NoPeer
  <2>1. PICK p \in FirstQuestion : Ask(filled, StillWaiting(s, w), Rotated(c), t, p)
    BY <1>2 DEF StartNextGame
  <2>2. p \in Questions
    BY FirstQuestionIsQuestion
  <2>3. \A epi \in Seats : Rotated(c)[epi] # NoCmd =>
          epi \in p.asked /\ Rotated(c)[epi].kind = p.kind
    BY <1>1
  <2>4. QED
    BY <2>1, <2>2, <2>3, AskKeepsIInv
<1>3. CASE ~ \A epi \in Seats : filled[epi] # NoPeer
  <2>1. phase' = NoPhase /\ cmd' = Rotated(c) /\ UNCHANGED poisoned
    BY <1>3 DEF StartNextGame
  <2>2. QED
    BY <1>1, <2>1 DEF IInv, Fresh
<1>4. QED
  BY <1>2, <1>3

\* So does the rest of the handler, whatever finish() makes of the phase.
LEMMA ProceedKeepsIInv ==
  ASSUME IInv, ~ poisoned, NEW p \in Outcomes, NEW c, NEW t, Compatible(c, p),
         Proceed(p, c, t), Lost # {} => Lost' # {}
  PROVE  IInv'
<1>1. PICK next \in Settled(p) :
        IF next = NextGame THEN StartNextGame(c, t) ELSE Ask(seats, waiting, c, t, next)
  BY DEF Proceed
<1>2. /\ next = NextGame \/ next \in Questions
      /\ p.asked # {} => next = p
  BY <1>1, SettledIsQuestion
<1>3. p.asked = {} => \A epi \in Seats : c[epi] = NoCmd
  BY DEF Compatible
<1>4. CASE next = NextGame
  <2>1. p.asked = {}
    BY <1>2, <1>4 DEF NextGame
  <2>2. QED
    BY <1>1, <1>3, <1>4, <2>1, StartNextGameKeepsIInv
<1>5. CASE next # NextGame
  <2>1. \A epi \in Seats : c[epi] # NoCmd => epi \in next.asked /\ c[epi].kind = next.kind
    BY <1>2, <1>3 DEF Compatible
  <2>2. QED
    BY <1>1, <1>2, <1>5, <2>1, AskKeepsIInv
<1>6. QED
  BY <1>4, <1>5

-----------------------------------------------------------------------------
(***************************************************************************)
(* The actions.                                                            *)
(***************************************************************************)
\* The empty table has no question and no command.
LEMMA InitIInv == Init => IInv
<1> SUFFICES ASSUME Init PROVE IInv
  OBVIOUS
<1> QED
  BY DEF Init, IInv, Fresh

\* No peer stops being lost but by its removal.
LEMMA LostStays ==
  ASSUME UNCHANGED conn
  PROVE  Lost # {} => Lost' # {}
  BY DEF Lost

\* A peer that connects finds no command at its seat.
LEMMA ConnectKeepsIInv ==
  ASSUME IInv, NEW p \in Peers, Connect(p)
  PROVE  IInv'
<1> DEFINE Free == { epi \in Seats : seats[epi] = NoPeer }
           first == CHOOSE epi \in Free : \A e \in Free : epi <= e
           s == [seats EXCEPT ![first] = p]
           c == Taken(first)
           t == stale \cup { epi \in {first} : cmd[epi] # NoCmd }
<1>1. ~ poisoned /\ conn[p] = "absent" /\ conn' = [conn EXCEPT ![p] = "open"]
  BY DEF Connect
<1>2. Lost # {} => Lost' # {}
  BY <1>1 DEF Lost
<1>3. CASE phase = NoPhase /\ Free # {}
  <2>1. \A epi \in Seats : c[epi] = NoCmd
    <3>1. cmd = [epi \in Seats |-> NoCmd]
      BY <1>3 DEF IInv, Fresh
    <3>2. QED
      BY <3>1 DEF Taken
  <2>2. c = [epi \in Seats |-> NoCmd]
    BY <1>3, <2>1 DEF IInv, Fresh, Taken
  <2>3. CASE Free = {first}
    <3>1. PICK q \in FirstQuestion : Ask(s, waiting, c, t, q)
      BY <1>3, <2>3 DEF Connect
    <3>2. q \in Questions
      BY FirstQuestionIsQuestion
    <3>3. QED
      BY <1>1, <1>2, <2>1, <3>1, <3>2, AskKeepsIInv
  <2>4. CASE Free # {first}
    <3>1. cmd' = c /\ UNCHANGED <<phase, poisoned>>
      BY <1>3, <2>4 DEF Connect
    <3>2. QED
      BY <1>1, <1>3, <2>2, <3>1 DEF IInv, Fresh
  <2>5. QED
    BY <2>3, <2>4
<1>4. CASE ~ (phase = NoPhase /\ Free # {})
  <2>1. UNCHANGED <<phase, cmd, poisoned>>
    BY <1>4 DEF Connect
  <2>2. QED
    BY <1>1, <2>1 DEF IInv, Fresh
<1>5. QED
  BY <1>3, <1>4

\* An accepted answer takes the command of the seat that gives it.
LEMMA AnswerKeepsIInv ==
  ASSUME IInv, NEW p \in Peers, Answer(p)
  PROVE  IInv'
<1>1. /\ ~ poisoned /\ phase # NoPhase /\ phase \in Questions
      /\ UNCHANGED conn
  BY DEF Answer, IInv
<1>2. PICK epi \in SeatOf(p) \cap phase.asked : \E t \in AbortOutcomes(epi) :
        \E next \in AfterAnswer(phase, epi) : Proceed(next, Taken(epi), t)
  BY DEF Answer
<1>3. PICK next \in AfterAnswer(phase, epi) : \E t \in AbortOutcomes(epi) :
        Proceed(next, Taken(epi), t)
  BY <1>2
<1>4. /\ next \in Outcomes
      /\ phase.asked \ {epi} \subseteq next.asked
      /\ phase.asked \ {epi} # {} => next.kind = phase.kind
  BY <1>1, AnswerOutcome
<1>5. Compatible(Taken(epi), next)
  BY <1>1, <1>4, TakenIsCompatible
<1>6. QED
  BY <1>1, <1>3, <1>4, <1>5, LostStays, ProceedKeepsIInv

\* Doubling the stakes does so too, and the same seat is asked again.
LEMMA StossKeepsIInv ==
  ASSUME IInv, NEW p \in Peers, Stoss(p)
  PROVE  IInv'
<1>1. /\ ~ poisoned /\ phase # NoPhase /\ phase \in Questions
      /\ UNCHANGED conn
  BY DEF Stoss, IInv
<1>2. PICK epi \in SeatOf(p) : \E t \in AbortOutcomes(epi) :
        MayStoss(phase, epi) /\ Proceed(AfterStoss(phase), Taken(epi), t)
  BY DEF Stoss
<1>3. /\ AfterStoss(phase) \in Outcomes
      /\ AfterStoss(phase).asked = phase.asked
      /\ AfterStoss(phase).kind = phase.kind
  BY <1>1, <1>2, StossOutcome DEF Questions
<1>4. Compatible(Taken(epi), AfterStoss(phase))
  BY <1>1, <1>3, TakenIsCompatible
<1>5. QED
  BY <1>1, <1>2, <1>3, <1>4, LostStays, ProceedKeepsIInv

\* A refused answer is followed by the same question.
LEMMA RefusedKeepsIInv ==
  ASSUME IInv, NEW p \in Peers, Refused(p)
  PROVE  IInv'
<1>1. /\ ~ poisoned /\ phase # NoPhase /\ phase \in Questions /\ phase \in Outcomes
      /\ UNCHANGED conn
  BY DEF Refused, IInv, Questions
<1>2. PICK epi \in SeatOf(p) \cap phase.asked : \E t \in AbortOutcomes(epi) :
        Proceed(phase, Taken(epi), t)
  BY DEF Refused
<1>3. Compatible(Taken(epi), phase)
  BY <1>1, TakenIsCompatible
<1>4. QED
  BY <1>1, <1>2, <1>3, LostStays, ProceedKeepsIInv

\* So is a message that answers nothing.
LEMMA OtherMessageKeepsIInv ==
  ASSUME IInv, NEW p \in Peers, OtherMessage(p)
  PROVE  IInv'
<1>1. ~ poisoned /\ UNCHANGED conn
  BY DEF OtherMessage
<1>2. CASE phase # NoPhase
  <2>1. Proceed(phase, cmd, stale) /\ phase \in Outcomes
    BY <1>2 DEF OtherMessage, IInv, Questions
  <2>2. QED
    BY <1>1, <1>2, <2>1, FreshIsCompatible, LostStays, ProceedKeepsIInv
<1>3. CASE phase = NoPhase
  BY <1>1, <1>3, LostStays DEF OtherMessage, IInv, Fresh
<1>4. QED
  BY <1>2, <1>3

\* The command a timer takes is the default answer to the present question.
LEMMA TimerTakesKeepsIInv ==
  ASSUME IInv, NEW epi \in Seats, ~ poisoned, cmd[epi] # NoCmd, TimerTakes(epi), UNCHANGED conn
  PROVE  IInv'
<1>1. phase # NoPhase /\ phase \in Questions
  BY NoCmdBetweenGames DEF IInv
<1>2. epi \in phase.asked /\ cmd[epi] = phase
  BY <1>1 DEF IInv, Fresh
<1>3. PICK next \in AfterDefault(phase, epi) : Proceed(next, Taken(epi), stale)
  BY <1>1, <1>2 DEF TimerTakes
<1>4. next \in AfterAnswer(phase, epi)
  BY DEF AfterAnswer
<1>5. /\ next \in Outcomes
      /\ phase.asked \ {epi} \subseteq next.asked
      /\ phase.asked \ {epi} # {} => next.kind = phase.kind
  BY <1>1, <1>2, <1>4, AnswerOutcome
<1>6. Compatible(Taken(epi), next)
  BY <1>1, <1>5, TakenIsCompatible
<1>7. QED
  BY <1>3, <1>5, <1>6, LostStays, ProceedKeepsIInv

\* A timer of an earlier question takes the same command, or none.
LEMMA StaleTimerKeepsIInv ==
  ASSUME IInv, NEW epi \in Seats, StaleTimerFires(epi)
  PROVE  IInv'
<1>1. CASE cmd[epi] # NoCmd
  BY <1>1, TimerTakesKeepsIInv DEF StaleTimerFires
<1>2. CASE cmd[epi] = NoCmd
  BY <1>2, LostStays DEF StaleTimerFires, IInv, Fresh
<1>3. QED
  BY <1>1, <1>2

\* Every step keeps the inductive invariant.
LEMMA NextIInv == IInv /\ [Next]_vars => IInv'
<1> SUFFICES ASSUME IInv, [Next]_vars
             PROVE  IInv'
  OBVIOUS
<1>1. ASSUME NEW p \in Peers, Connect(p)
      PROVE  IInv'
  BY <1>1, ConnectKeepsIInv
<1>2. ASSUME NEW p \in Peers, Disconnect(p)
      PROVE  IInv'
  BY <1>2 DEF Disconnect, IInv, Fresh
<1>3. ASSUME NEW p \in Peers, Remove(p)
      PROVE  IInv'
  BY <1>3 DEF Remove, IInv, Fresh
<1>4. ASSUME NEW p \in Peers, Answer(p)
      PROVE  IInv'
  BY <1>4, AnswerKeepsIInv
<1>5. ASSUME NEW p \in Peers, Stoss(p)
      PROVE  IInv'
  BY <1>5, StossKeepsIInv
<1>6. ASSUME NEW p \in Peers, Refused(p)
      PROVE  IInv'
  BY <1>6, RefusedKeepsIInv
<1>7. ASSUME NEW p \in Peers, OtherMessage(p)
      PROVE  IInv'
  BY <1>7, OtherMessageKeepsIInv
<1>8. ASSUME NEW epi \in Seats, TimerFires(epi)
      PROVE  IInv'
  BY <1>8, TimerTakesKeepsIInv DEF TimerFires
<1>9. ASSUME NEW epi \in Seats, StaleTimerFires(epi)
      PROVE  IInv'
  BY <1>9, StaleTimerKeepsIInv
<1>10. CASE UNCHANGED vars
  BY <1>10, LostStays DEF vars, IInv, Fresh
<1>11. QED
  BY <1>1, <1>2, <1>3, <1>4, <1>5, <1>6, <1>7, <1>8, <1>9, <1>10 DEF Next, Poisoned

\* The inductive invariant: the phase asks somebody, the commands are those of the
\* question, and only a lost peer can poison the table.
THEOREM Inductive == Spec => []IInv
  BY InitIInv, NextIInv, PTL DEF Spec

-----------------------------------------------------------------------------
\* Exactly the seats that have to answer hold a command, and it is the answer to
\* the present question, however timers and answers raced for the mutex.
THEOREM CommandsAreFresh == Spec => []CommandIsFresh
<1>1. IInv => CommandIsFresh
  BY DEF IInv, Fresh, CommandIsFresh
<1>2. QED
  BY <1>1, Inductive, PTL

\* The assertion of ask_with_timeout never fails: a task panics only when it
\* writes to a connection that has ended and is not yet removed.
THEOREM OnlyLostPeersDo == Spec => []OnlyLostPeersPoison
<1>1. IInv => OnlyLostPeersPoison
  BY DEF IInv, OnlyLostPeersPoison
<1>2. QED
  BY <1>1, Inductive, PTL

\* The table always waits for somebody, in a phase whose bidding and doubling of
\* stakes stay within their limits, or it is between two games.
THEOREM SomebodyIsAsked ==
  Spec => [](phase = NoPhase \/ (phase \in Phases /\ phase.asked # {}))
<1>1. IInv => phase = NoPhase \/ (phase \in Phases /\ phase.asked # {})
  BY QuestionsArePhases DEF IInv, Questions
<1>2. QED
  BY <1>1, Inductive, PTL
-----------------------------------------------------------------------------
(***************************************************************************)
(* Places: nobody sits on two seats, waits twice, or sits and waits, and   *)
(* those who do either are ps.  Stated of seats and a line given as        *)
(* parameters, as next_game goes through several of them.                  *)
(***************************************************************************)
OnePlace(s, w, ps) ==
  /\ s \in [Seats -> Peers \cup {NoPeer}]
  /\ w \in Seq(Peers)
  /\ \A e, f \in Seats : s[e] = s[f] => e = f \/ s[e] = NoPeer
  /\ \A i, j \in 1 .. Len(w) : w[i] = w[j] => i = j
  /\ \A e \in Seats : \A i \in 1 .. Len(w) : s[e] # w[i]
  /\ \A p \in Peers : p \in ps <=> \/ \E e \in Seats : s[e] = p
                                   \/ \E i \in 1 .. Len(w) : w[i] = p

Present == { p \in Peers : conn[p] # "absent" }

Places ==
  /\ seats \in [Seats -> Peers \cup {NoPeer}]
  /\ waiting \in Seq(Peers)
  /\ stale \subseteq Seats
  /\ conn \in [Peers -> {"absent", "open", "closing"}]
  /\ poisoned \in BOOLEAN
  /\ ~ poisoned =>
       /\ OnePlace(seats, waiting, Present)
       /\ phase = NoPhase => waiting = <<>> /\ \E epi \in Seats : seats[epi] = NoPeer

PInv == IInv /\ Places

\* The seats are finitely many.
LEMMA FreeSeatsFinite ==
  ASSUME NEW S \in SUBSET Seats
  PROVE  IsFiniteSet(S) /\ Cardinality(S) \in Nat
<1>1. IsFiniteSet(Seats)
  BY Numbers, FS_Interval DEF Seats
<1>2. IsFiniteSet(S)
  BY <1>1, FS_Subset
<1> QED
  BY <1>2, FS_CardinalityType

\* The free seats have ranks from 1 on, each its own, and every rank is taken.
LEMMA RanksOfSeats ==
  ASSUME NEW F \in SUBSET Seats
  PROVE  /\ \A e \in F : Cardinality({ x \in F : x <= e }) \in 1 .. Cardinality(F)
         /\ \A e, f \in F : Cardinality({ x \in F : x <= e }) = Cardinality({ x \in F : x <= f }) => e = f
         /\ \A k \in 1 .. Cardinality(F) : \E e \in F : Cardinality({ x \in F : x <= e }) = k
<1> DEFINE upto(e) == { x \in F : x <= e }
           rank(e) == Cardinality(upto(e))
           nf == Cardinality(F)
<1>1. IsFiniteSet(F) /\ nf \in Nat
  BY FreeSeatsFinite
<1>2. \A e \in F : e \in Int
  BY Numbers DEF Seats
<1>3. ASSUME NEW e \in F
      PROVE  IsFiniteSet(upto(e)) /\ rank(e) \in 1 .. nf
  <2>1. upto(e) \in SUBSET F /\ e \in upto(e)
    BY <1>2
  <2>2. IsFiniteSet(upto(e)) /\ rank(e) <= nf
    BY <1>1, <2>1, FS_Subset
  <2>3. rank(e) \in Nat /\ rank(e) # 0
    BY <2>1, <2>2, FS_CardinalityType, FS_EmptySet
  <2> QED
    BY <1>1, <2>2, <2>3
<1>4. ASSUME NEW e \in F, NEW f \in F, e < f
      PROVE  rank(e) # rank(f)
  <2>1. upto(e) \in SUBSET upto(f) /\ f \in upto(f) /\ f \notin upto(e)
    BY <1>2, <1>4
  <2> QED
    BY <1>3, <2>1, FS_Subset
<1>5. ASSUME NEW e \in F, NEW f \in F, rank(e) = rank(f)
      PROVE  e = f
  <2>1. e < f \/ f < e \/ e = f
    BY <1>2
  <2> QED
    BY <1>4, <1>5, <2>1
<1>6. ASSUME NEW k \in 1 .. nf
      PROVE  \E e \in F : rank(e) = k
  <2> DEFINE r == [e \in F |-> rank(e)]
  <2> HIDE DEF rank
  <2>1. r \in Injection(F, 1 .. nf)
    <3>1. r \in [F -> 1 .. nf]
      BY <1>3
    <3>2. \A e, f \in F : r[e] = r[f] => e = f
      BY <1>5
    <3> QED
      BY <3>1, <3>2 DEF Injection, IsInjective
  <2>2. IsFiniteSet(1 .. nf) /\ Cardinality(1 .. nf) = nf
    <3> HIDE DEF nf
    <3>1. /\ IsFiniteSet(1 .. nf)
          /\ Cardinality(1 .. nf) = IF 1 > nf THEN 0 ELSE nf - 1 + 1
      BY <1>1, FS_Interval
    <3> QED
      BY <1>1, <3>1
  <2>3. r \in Surjection(F, 1 .. nf)
    BY <2>1, <2>2, FS_Injection
  <2>4. PICK e \in F : r[e] = k
    BY <2>3 DEF Surjection
  <2> QED
    BY <2>4
<1> QED
  BY <1>3, <1>5, <1>6

\* The line fills the free seats: everybody keeps one place, and a seat stays free only
\* if nobody is left in line.
LEMMA FillingKeepsPlaces ==
  ASSUME NEW s, NEW w, NEW ps, OnePlace(s, w, ps)
  PROVE  /\ OnePlace(FilledFrom(s, w), StillWaiting(s, w), ps)
         /\ \A e \in Seats : FilledFrom(s, w)[e] = NoPeer => StillWaiting(s, w) = <<>>
<1> DEFINE F == { epi \in Seats : s[epi] = NoPeer }
           nf == Cardinality(F)
           rank(e) == Cardinality({ x \in F : x <= e })
           s2 == FilledFrom(s, w)
           w2 == StillWaiting(s, w)
           n == Len(w)
<1>1. /\ s \in [Seats -> Peers \cup {NoPeer}] /\ w \in Seq(Peers) /\ n \in Nat
      /\ \A e, f \in Seats : s[e] = s[f] => e = f \/ s[e] = NoPeer
      /\ \A i, j \in 1 .. n : w[i] = w[j] => i = j
      /\ \A e \in Seats : \A i \in 1 .. n : s[e] # w[i]
  BY DEF OnePlace
<1>2. nf \in Nat /\ F \in SUBSET Seats
  BY FreeSeatsFinite
<1>3. /\ \A e \in F : rank(e) \in 1 .. nf
      /\ \A e, f \in F : rank(e) = rank(f) => e = f
      /\ \A k \in 1 .. nf : \E e \in F : rank(e) = k
  BY <1>2, RanksOfSeats
<1>4. s2 = [e \in Seats |-> IF e \in F /\ rank(e) <= n THEN w[rank(e)] ELSE s[e]]
  BY DEF FilledFrom
<1>5. w2 = SubSeq(w, nf + 1, n)
  BY DEF StillWaiting
<1>6. /\ w2 \in Seq(Peers)
      /\ Len(w2) = IF nf < n THEN n - nf ELSE 0
      /\ \A i \in 1 .. Len(w2) : i + nf \in 1 .. n /\ w2[i] = w[i + nf]
  <2>1. \A i \in nf + 1 .. n : i \in 1 .. n /\ w[i] \in Peers
    BY <1>1, <1>2
  <2>2. /\ w2 \in Seq(Peers)
        /\ Len(w2) = IF nf + 1 <= n THEN n - (nf + 1) + 1 ELSE 0
        /\ \A i \in 1 .. n - (nf + 1) + 1 : w2[i] = w[nf + 1 + i - 1]
    <3> HIDE DEF nf, n, w2
    <3> QED
      BY <1>1, <1>2, <1>5, <2>1, SubSeqProperties
  <2> HIDE DEF nf, n, w2
  <2>3. Len(w2) = IF nf < n THEN n - nf ELSE 0
    BY <1>1, <1>2, <2>2
  <2>4. \A i \in 1 .. Len(w2) : i + nf \in 1 .. n /\ w2[i] = w[i + nf]
    <3> SUFFICES ASSUME NEW i \in 1 .. Len(w2)
                 PROVE  i + nf \in 1 .. n /\ w2[i] = w[i + nf]
      OBVIOUS
    <3>1. nf < n /\ i \in 1 .. n - nf
      BY <1>1, <1>2, <2>3
    <3>2. i \in 1 .. n - (nf + 1) + 1 /\ nf + 1 + i - 1 = i + nf /\ i + nf \in 1 .. n
      BY <1>1, <1>2, <3>1
    <3> QED
      BY <2>2, <3>2
  <2> QED
    BY <2>2, <2>3, <2>4
<1> HIDE DEF F, nf, rank, s2, w2, n
\* each seat is either filled from the line or kept
<1>7. ASSUME NEW e \in Seats
      PROVE  \/ e \in F /\ rank(e) \in 1 .. n /\ rank(e) <= nf /\ s2[e] = w[rank(e)] /\ s2[e] \in Peers
             \/ s2[e] = s[e] /\ (e \in F => rank(e) \in 1 .. nf /\ rank(e) > n)
  <2>1. CASE e \in F
    <3>1. rank(e) \in 1 .. nf
      BY <1>3, <2>1
    <3>2. CASE rank(e) <= n
      <4>1. rank(e) \in 1 .. n
        BY <1>1, <1>2, <3>1, <3>2
      <4>2. w[rank(e)] \in Peers
        BY <1>1, <4>1 DEF n
      <4> QED
        BY <1>2, <1>4, <2>1, <3>1, <3>2, <4>1, <4>2
    <3>3. CASE ~ (rank(e) <= n)
      <4>1. rank(e) > n
        BY <1>1, <1>2, <3>1, <3>3
      <4> QED
        BY <1>4, <3>1, <3>3, <4>1
    <3> QED
      BY <3>2, <3>3
  <2>2. CASE e \notin F
    BY <1>4, <2>2
  <2> QED
    BY <2>1, <2>2
<1>8. s2 \in [Seats -> Peers \cup {NoPeer}]
  <2>1. \A e \in Seats : s2[e] \in Peers \cup {NoPeer}
    BY <1>1, <1>7
  <2> QED
    BY <1>4, <2>1
<1>9. ASSUME NEW e \in Seats, NEW f \in Seats, s2[e] = s2[f], s2[e] # NoPeer
      PROVE  e = f
  <2>1. CASE s2[e] = s[e] /\ s2[f] = s[f]
    BY <1>1, <1>9, <2>1
  <2>2. CASE /\ e \in F /\ rank(e) \in 1 .. n /\ s2[e] = w[rank(e)]
             /\ f \in F /\ rank(f) \in 1 .. n /\ s2[f] = w[rank(f)]
    BY <1>1, <1>3, <1>9, <2>2
  <2> QED
    BY <1>1, <1>7, <1>9, <2>1, <2>2
<1>10. ASSUME NEW e \in Seats, NEW i \in 1 .. Len(w2)
       PROVE  s2[e] # w2[i]
  <2>1. i + nf \in 1 .. n /\ w2[i] = w[i + nf] /\ i + nf > nf
    BY <1>2, <1>6
  <2>2. CASE s2[e] = s[e]
    BY <1>1, <2>1, <2>2
  <2>3. CASE rank(e) \in 1 .. n /\ rank(e) <= nf /\ s2[e] = w[rank(e)]
    <3>1. rank(e) # i + nf
      BY <1>2, <2>1, <2>3
    <3> QED
      BY <1>1, <2>1, <2>3, <3>1
  <2> QED
    BY <1>7, <2>2, <2>3
<1>11. ASSUME NEW i \in 1 .. Len(w2), NEW j \in 1 .. Len(w2), w2[i] = w2[j]
       PROVE  i = j
  <2>1. i + nf = j + nf
    BY <1>1, <1>6, <1>11
  <2> QED
    BY <1>2, <2>1
<1>12. ASSUME NEW p \in Peers
       PROVE  p \in ps <=> \/ \E e \in Seats : s2[e] = p
                           \/ \E i \in 1 .. Len(w2) : w2[i] = p
  <2>1. p \in ps <=> \/ \E e \in Seats : s[e] = p
                     \/ \E i \in 1 .. n : w[i] = p
    BY DEF OnePlace, n
  <2>2. ASSUME NEW e \in Seats, s2[e] = p
        PROVE  p \in ps
    BY <1>7, <2>1, <2>2
  <2>3. ASSUME NEW i \in 1 .. Len(w2), w2[i] = p
        PROVE  p \in ps
    BY <1>6, <2>1, <2>3
  <2>4. ASSUME NEW e \in Seats, s[e] = p
        PROVE  s2[e] = p
    <3>1. e \notin F
      BY <2>4, TableAssumption DEF F
    <3> QED
      BY <1>7, <2>4, <3>1
  <2>5. ASSUME NEW i \in 1 .. n, w[i] = p, i <= nf
        PROVE  \E e \in Seats : s2[e] = p
    <3>1. PICK e \in F : rank(e) = i
      BY <1>1, <1>2, <1>3, <2>5
    <3>2. e \in Seats
      BY <1>2
    <3>3. rank(e) <= n
      BY <1>1, <3>1
    <3>4. s2[e] = p
      BY <1>4, <2>5, <3>1, <3>2, <3>3
    <3> QED
      BY <3>2, <3>4
  <2>6. ASSUME NEW i \in 1 .. n, w[i] = p, ~ (i <= nf)
        PROVE  \E j \in 1 .. Len(w2) : w2[j] = p
    <3>1. i - nf \in 1 .. Len(w2) /\ (i - nf) + nf = i
      BY <1>1, <1>2, <1>6, <2>6
    <3> QED
      BY <1>6, <2>6, <3>1
  <2> QED
    BY <2>1, <2>2, <2>3, <2>4, <2>5, <2>6
<1>13. OnePlace(s2, w2, ps)
  BY <1>6, <1>8, <1>9, <1>10, <1>11, <1>12 DEF OnePlace
<1>14. ASSUME NEW e \in Seats, s2[e] = NoPeer
       PROVE  w2 = <<>>
  <2>1. s[e] = NoPeer /\ (e \in F => rank(e) \in 1 .. nf /\ rank(e) > n)
    BY <1>7, <1>14, TableAssumption
  <2>2. e \in F
    BY <2>1 DEF F
  <2>3. ~ (nf < n)
    BY <1>1, <1>2, <2>1, <2>2
  <2>4. Len(w2) = 0
    BY <1>6, <2>3
  <2> QED
    BY <1>6, <2>4, EmptySeq
<1> QED
  BY <1>13, <1>14 DEF s2, w2

\* Everybody moves up one seat, and whoever leaves the first one queues.
LEMMA RotationKeepsPlaces ==
  ASSUME NEW ps, OnePlace(seats, waiting, ps)
  PROVE  OnePlace([Rotated(seats) EXCEPT ![N - 1] = NoPeer],
                  Queued(waiting, Rotated(seats)[N - 1]), ps)
<1> DEFINE s == [Rotated(seats) EXCEPT ![N - 1] = NoPeer]
           w == Queued(waiting, Rotated(seats)[N - 1])
           n == Len(waiting)
<1>1. /\ seats \in [Seats -> Peers \cup {NoPeer}] /\ waiting \in Seq(Peers) /\ n \in Nat
      /\ \A e, f \in Seats : seats[e] = seats[f] => e = f \/ seats[e] = NoPeer
      /\ \A i, j \in 1 .. n : waiting[i] = waiting[j] => i = j
      /\ \A e \in Seats : \A i \in 1 .. n : seats[e] # waiting[i]
  BY DEF OnePlace
<1>2. /\ 0 \in Seats /\ N - 1 \in Seats
      /\ \A e \in Seats : e # N - 1 => e + 1 \in Seats /\ NextSeat(e) = e + 1
      /\ NextSeat(N - 1) = 0
      /\ \A e \in Seats : e # 0 => e - 1 \in Seats /\ e - 1 # N - 1 /\ (e - 1) + 1 = e
      /\ \A e, f \in Seats : e + 1 = f + 1 => e = f
      /\ \A e \in Seats : e # N - 1 => e + 1 # 0
  <2>1. \A e \in Seats : e # N - 1 => e + 1 \in Seats /\ e + 1 < N /\ e + 1 \in Nat
    BY Numbers DEF Seats
  <2>2. \A e \in Nat : e < N => e % N = e
    BY Numbers
  <2>3. \A e \in Seats : e # N - 1 => NextSeat(e) = e + 1
    BY <2>1, <2>2 DEF NextSeat
  <2>4. NextSeat(N - 1) = 0
    <3>1. (N - 1) + 1 = N /\ N % N = 0
      BY Numbers
    <3> QED
      BY <3>1 DEF NextSeat
  <2> QED
    BY <2>1, <2>3, <2>4, Numbers DEF Seats
<1>3. Rotated(seats)[N - 1] = seats[0]
  BY <1>2 DEF Rotated
<1>4. /\ s[N - 1] = NoPeer
      /\ \A e \in Seats : e # N - 1 => s[e] = seats[e + 1]
      /\ DOMAIN s = Seats
  BY <1>2 DEF Rotated
<1>5. s \in [Seats -> Peers \cup {NoPeer}]
  <2>1. \A e \in Seats : s[e] \in Peers \cup {NoPeer}
    BY <1>1, <1>2, <1>4
  <2> QED
    BY <2>1 DEF Rotated
<1>6. w = IF seats[0] = NoPeer THEN waiting ELSE Append(waiting, seats[0])
  BY <1>3 DEF Queued
<1>7. /\ w \in Seq(Peers)
      /\ Len(w) = IF seats[0] = NoPeer THEN n ELSE n + 1
      /\ \A i \in 1 .. n : w[i] = waiting[i]
      /\ seats[0] # NoPeer => w[n + 1] = seats[0]
  <2>1. CASE seats[0] = NoPeer
    BY <1>1, <1>6, <2>1
  <2>2. CASE seats[0] # NoPeer
    <3>1. seats[0] \in Peers
      BY <1>1, <1>2, <2>2
    <3>2. w = Append(waiting, seats[0])
      BY <1>6, <2>2
    <3> HIDE DEF w
    <3> QED
      BY <1>1, <2>2, <3>1, <3>2, AppendProperties
  <2> QED
    BY <2>1, <2>2
<1> HIDE DEF s, w, n
<1>8. \A i \in 1 .. Len(w) : i \in 1 .. n \/ (i = n + 1 /\ seats[0] # NoPeer)
  <2> SUFFICES ASSUME NEW i \in 1 .. Len(w), i \notin 1 .. n
               PROVE  i = n + 1 /\ seats[0] # NoPeer
    OBVIOUS
  <2>1. Len(w) # n
    BY DEF n
  <2>2. seats[0] # NoPeer /\ Len(w) = n + 1
    BY <1>7, <2>1
  <2> QED
    BY <1>1, <2>2
<1>9. ASSUME NEW e \in Seats, NEW f \in Seats, s[e] = s[f], s[e] # NoPeer
      PROVE  e = f
  <2>1. e # N - 1 /\ f # N - 1
    BY <1>4, <1>9
  <2>2. seats[e + 1] = seats[f + 1] /\ seats[e + 1] # NoPeer
    BY <1>4, <1>9, <2>1
  <2>3. e + 1 \in Seats /\ f + 1 \in Seats
    BY <1>2, <2>1
  <2>4. e + 1 = f + 1
    BY <1>1, <2>2, <2>3
  <2> QED
    BY <1>2, <2>4
<1>10. ASSUME NEW i \in 1 .. Len(w), NEW j \in 1 .. Len(w), w[i] = w[j]
       PROVE  i = j
  <2>1. \A k \in 1 .. n : seats[0] # waiting[k]
    BY <1>1, <1>2 DEF n
  <2>2. \A k \in 1 .. n : \A l \in 1 .. n : waiting[k] = waiting[l] => k = l
    BY <1>1 DEF n
  <2>3. CASE i \in 1 .. n
    BY <1>7, <1>8, <1>10, <2>1, <2>2, <2>3
  <2>4. CASE i = n + 1 /\ seats[0] # NoPeer
    BY <1>7, <1>8, <1>10, <2>1, <2>4
  <2> QED
    BY <1>8, <2>3, <2>4
<1>11. ASSUME NEW e \in Seats, NEW i \in 1 .. Len(w)
       PROVE  s[e] # w[i]
  <2>1. w[i] \in Peers
    BY <1>7
  <2>2. CASE e = N - 1
    BY <1>4, <2>1, <2>2, TableAssumption
  <2>3. CASE e # N - 1
    BY <1>1, <1>2, <1>4, <1>7, <1>8, <2>3
  <2> QED
    BY <2>2, <2>3
<1>12. ASSUME NEW p \in Peers
       PROVE  p \in ps <=> \/ \E e \in Seats : s[e] = p
                           \/ \E i \in 1 .. Len(w) : w[i] = p
  <2>1. p \in ps <=> \/ \E e \in Seats : seats[e] = p
                     \/ \E i \in 1 .. n : waiting[i] = p
    BY DEF OnePlace, n
  <2>2. p # NoPeer
    BY TableAssumption
  <2>3. ASSUME NEW e \in Seats, s[e] = p PROVE p \in ps
    BY <1>2, <1>4, <2>1, <2>2, <2>3
  <2>4. ASSUME NEW i \in 1 .. Len(w), w[i] = p PROVE p \in ps
    BY <1>2, <1>7, <1>8, <2>1, <2>4
  <2>5. ASSUME NEW e \in Seats, seats[e] = p
        PROVE  \/ \E f \in Seats : s[f] = p
               \/ \E i \in 1 .. Len(w) : w[i] = p
    <3>1. CASE e = 0
      <4>1. n + 1 \in 1 .. Len(w) /\ w[n + 1] = p
        BY <1>1, <1>7, <2>2, <2>5, <3>1
      <4> QED
        BY <4>1
    <3>2. CASE e # 0
      <4>1. e - 1 \in Seats /\ s[e - 1] = p
        BY <1>2, <1>4, <2>5, <3>2
      <4> QED
        BY <4>1
    <3> QED
      BY <3>1, <3>2
  <2>6. ASSUME NEW i \in 1 .. n, waiting[i] = p
        PROVE  \E j \in 1 .. Len(w) : w[j] = p
    <3>1. i \in 1 .. Len(w) /\ w[i] = p
      BY <1>1, <1>7, <2>6
    <3> QED
      BY <3>1
  <2> QED
    BY <2>1, <2>3, <2>4, <2>5, <2>6
<1>13. OnePlace(s, w, ps)
  BY <1>5, <1>7, <1>9, <1>10, <1>11, <1>12 DEF OnePlace
<1> QED
  BY <1>13 DEF s, w

\* A peer that is new takes a free seat.
LEMMA SeatingKeepsPlaces ==
  ASSUME NEW ps, OnePlace(seats, waiting, ps), NEW p \in Peers, p \notin ps,
         NEW epi \in Seats, seats[epi] = NoPeer
  PROVE  OnePlace([seats EXCEPT ![epi] = p], waiting, ps \cup {p})
<1> DEFINE s == [seats EXCEPT ![epi] = p]
<1>1. /\ seats \in [Seats -> Peers \cup {NoPeer}] /\ waiting \in Seq(Peers)
      /\ \A e, f \in Seats : seats[e] = seats[f] => e = f \/ seats[e] = NoPeer
      /\ \A i, j \in 1 .. Len(waiting) : waiting[i] = waiting[j] => i = j
      /\ \A e \in Seats : \A i \in 1 .. Len(waiting) : seats[e] # waiting[i]
      /\ \A q \in Peers : q \in ps <=> \/ \E e \in Seats : seats[e] = q
                                       \/ \E i \in 1 .. Len(waiting) : waiting[i] = q
  BY DEF OnePlace
<1>2. s \in [Seats -> Peers \cup {NoPeer}] /\ \A e \in Seats : s[e] = IF e = epi THEN p ELSE seats[e]
  BY <1>1
<1>3. p # NoPeer
  BY TableAssumption
<1>4. /\ \A e \in Seats : seats[e] # p
      /\ \A i \in 1 .. Len(waiting) : waiting[i] # p
  BY <1>1
<1> HIDE DEF s
<1>5. \A e, f \in Seats : s[e] = s[f] => e = f \/ s[e] = NoPeer
  BY <1>1, <1>2, <1>4
<1>6. \A e \in Seats : \A i \in 1 .. Len(waiting) : s[e] # waiting[i]
  BY <1>1, <1>2, <1>4
<1>7. ASSUME NEW q \in Peers
      PROVE  q \in ps \cup {p} <=> \/ \E e \in Seats : s[e] = q
                                   \/ \E i \in 1 .. Len(waiting) : waiting[i] = q
  <2>1. CASE q = p
    BY <1>2, <2>1
  <2>2. CASE q # p
    <3>1. (\E e \in Seats : s[e] = q) <=> \E e \in Seats : seats[e] = q
      <4>1. ASSUME NEW e \in Seats PROVE s[e] = q <=> seats[e] = q
        <5>1. q # NoPeer
          BY TableAssumption
        <5> QED
          BY <1>2, <2>2, <5>1
      <4> QED
        BY <4>1
    <3> QED
      BY <1>1, <2>2, <3>1
  <2> QED
    BY <2>1, <2>2
<1>8. OnePlace(s, waiting, ps \cup {p})
  BY <1>1, <1>2, <1>5, <1>6, <1>7 DEF OnePlace
<1> QED
  BY <1>8 DEF s

\* Or it goes to the end of the line.
LEMMA QueueingKeepsPlaces ==
  ASSUME NEW ps, OnePlace(seats, waiting, ps), NEW p \in Peers, p \notin ps
  PROVE  OnePlace(seats, Append(waiting, p), ps \cup {p})
<1> DEFINE w == Append(waiting, p)
           n == Len(waiting)
<1>1. /\ seats \in [Seats -> Peers \cup {NoPeer}] /\ waiting \in Seq(Peers) /\ n \in Nat
      /\ \A e, f \in Seats : seats[e] = seats[f] => e = f \/ seats[e] = NoPeer
      /\ \A i, j \in 1 .. n : waiting[i] = waiting[j] => i = j
      /\ \A e \in Seats : \A i \in 1 .. n : seats[e] # waiting[i]
      /\ \A q \in Peers : q \in ps <=> \/ \E e \in Seats : seats[e] = q
                                       \/ \E i \in 1 .. n : waiting[i] = q
  BY DEF OnePlace
<1>2. /\ w \in Seq(Peers) /\ Len(w) = n + 1
      /\ \A i \in 1 .. n : w[i] = waiting[i]
      /\ w[n + 1] = p
  BY <1>1, AppendProperties
<1>3. /\ \A e \in Seats : seats[e] # p
      /\ \A i \in 1 .. n : waiting[i] # p
  BY <1>1
<1> HIDE DEF w, n
<1>4. \A i \in 1 .. Len(w) : i \in 1 .. n \/ i = n + 1
  BY <1>1, <1>2
<1>5. \A i, j \in 1 .. Len(w) : w[i] = w[j] => i = j
  BY <1>1, <1>2, <1>3, <1>4
<1>6. \A e \in Seats : \A i \in 1 .. Len(w) : seats[e] # w[i]
  BY <1>1, <1>2, <1>3, <1>4
<1>7. ASSUME NEW q \in Peers
      PROVE  q \in ps \cup {p} <=> \/ \E e \in Seats : seats[e] = q
                                   \/ \E i \in 1 .. Len(w) : w[i] = q
  <2>1. (\E i \in 1 .. Len(w) : w[i] = q) <=> q = p \/ \E i \in 1 .. n : waiting[i] = q
    <3>1. n + 1 \in 1 .. Len(w) /\ \A i \in 1 .. n : i \in 1 .. Len(w)
      BY <1>1, <1>2
    <3> QED
      BY <1>2, <1>4, <3>1
  <2> QED
    BY <1>1, <2>1
<1>8. OnePlace(seats, w, ps \cup {p})
  BY <1>1, <1>2, <1>5, <1>6, <1>7 DEF OnePlace
<1> QED
  BY <1>8 DEF w

\* A peer that is removed leaves its seat or the line, and the others keep their places.
LEMMA RemovalKeepsPlaces ==
  ASSUME NEW ps, OnePlace(seats, waiting, ps), NEW p \in Peers
  PROVE  OnePlace([epi \in Seats |-> IF seats[epi] = p THEN NoPeer ELSE seats[epi]],
                  WithoutPeer(waiting, p), ps \ {p})
<1> DEFINE s == [epi \in Seats |-> IF seats[epi] = p THEN NoPeer ELSE seats[epi]]
           w == WithoutPeer(waiting, p)
           n == Len(waiting)
<1>1. /\ seats \in [Seats -> Peers \cup {NoPeer}] /\ waiting \in Seq(Peers) /\ n \in Nat
      /\ \A e, f \in Seats : seats[e] = seats[f] => e = f \/ seats[e] = NoPeer
      /\ \A i, j \in 1 .. n : waiting[i] = waiting[j] => i = j
      /\ \A e \in Seats : \A i \in 1 .. n : seats[e] # waiting[i]
      /\ \A q \in Peers : q \in ps <=> \/ \E e \in Seats : seats[e] = q
                                       \/ \E i \in 1 .. n : waiting[i] = q
  BY DEF OnePlace
<1>2. s \in [Seats -> Peers \cup {NoPeer}] /\ \A e \in Seats : s[e] = IF seats[e] = p THEN NoPeer ELSE seats[e]
  BY <1>1
\* the line without p: its members in their order, from other places
<1>3. \E at \in [1 .. Len(w) -> 1 .. n] :
        /\ w \in Seq(Peers)
        /\ \A i \in 1 .. Len(w) : w[i] = waiting[at[i]]
        /\ \A i, j \in 1 .. Len(w) : at[i] = at[j] => i = j
        /\ \A k \in 1 .. n : waiting[k] # p <=> \E i \in 1 .. Len(w) : at[i] = k
  <2>1. CASE ~ \E i \in 1 .. n : waiting[i] = p
    <3>1. w = waiting
      BY <2>1 DEF WithoutPeer
    <3>2. [i \in 1 .. n |-> i] \in [1 .. Len(w) -> 1 .. n]
      BY <3>1
    <3> QED
      BY <1>1, <2>1, <3>1, <3>2
  <2>2. CASE \E i \in 1 .. n : waiting[i] = p
    <3> DEFINE c == CHOOSE i \in 1 .. n : waiting[i] = p
               u == SubSeq(waiting, 1, c - 1)
               v == SubSeq(waiting, c + 1, n)
               at == [i \in 1 .. n - 1 |-> IF i < c THEN i ELSE i + 1]
    <3>1. c \in 1 .. n /\ waiting[c] = p
      BY <2>2
    <3>2. w = u \o v
      BY <2>2 DEF WithoutPeer
    <3> HIDE DEF c
    <3>3. u \in Seq(Peers) /\ Len(u) = c - 1 /\ \A i \in 1 .. c - 1 : u[i] = waiting[i]
      BY <1>1, <3>1
    <3>4. v \in Seq(Peers) /\ Len(v) = n - c /\ \A i \in 1 .. n - c : v[i] = waiting[c + i]
      BY <1>1, <3>1
    <3> HIDE DEF u, v, w, n
    <3>5. /\ w \in Seq(Peers) /\ Len(w) = n - 1
          /\ \A i \in 1 .. n - 1 : w[i] = IF i <= c - 1 THEN u[i] ELSE v[i - (c - 1)]
      <4>1. /\ w \in Seq(Peers) /\ Len(w) = Len(u) + Len(v)
            /\ \A i \in 1 .. Len(u) + Len(v) : w[i] = IF i <= Len(u) THEN u[i] ELSE v[i - Len(u)]
        BY <3>2, <3>3, <3>4, ConcatProperties
      <4>2. Len(u) + Len(v) = n - 1
        BY <1>1, <3>1, <3>3, <3>4
      <4> QED
        BY <3>3, <4>1, <4>2
    <3>6. at \in [1 .. Len(w) -> 1 .. n]
      BY <1>1, <3>1, <3>5
    <3>7. ASSUME NEW i \in 1 .. Len(w) PROVE w[i] = waiting[at[i]]
      <4>1. CASE i <= c - 1
        BY <1>1, <3>1, <3>3, <3>5, <4>1
      <4>2. CASE ~ (i <= c - 1)
        <5>1. i - (c - 1) \in 1 .. n - c /\ c + (i - (c - 1)) = i + 1 /\ at[i] = i + 1
          BY <1>1, <3>1, <3>5, <4>2
        <5> QED
          BY <3>4, <3>5, <4>2, <5>1
      <4> QED
        BY <4>1, <4>2
    <3>8. \A i, j \in 1 .. Len(w) : at[i] = at[j] => i = j
      BY <1>1, <3>1, <3>5
    <3>9. ASSUME NEW k \in 1 .. n
          PROVE  waiting[k] # p <=> \E i \in 1 .. Len(w) : at[i] = k
      <4>1. waiting[k] # p <=> k # c
        BY <1>1, <3>1 DEF n
      <4>2. k < c => k \in 1 .. Len(w) /\ at[k] = k
        BY <1>1, <3>1, <3>5
      <4>3. k > c => k - 1 \in 1 .. Len(w) /\ at[k - 1] = k
        BY <1>1, <3>1, <3>5
      <4>4. \A i \in 1 .. Len(w) : at[i] # c
        BY <1>1, <3>1, <3>5
      <4>5. k < c \/ k > c \/ k = c
        BY <1>1, <3>1
      <4> QED
        BY <4>1, <4>2, <4>3, <4>4, <4>5
    <3> HIDE DEF at
    <3> QED
      BY <3>5, <3>6, <3>7, <3>8, <3>9
  <2> QED
    BY <2>1, <2>2
<1> HIDE DEF s, w, n
<1>4. PICK at \in [1 .. Len(w) -> 1 .. n] :
        /\ w \in Seq(Peers)
        /\ \A i \in 1 .. Len(w) : w[i] = waiting[at[i]]
        /\ \A i, j \in 1 .. Len(w) : at[i] = at[j] => i = j
        /\ \A k \in 1 .. n : waiting[k] # p <=> \E i \in 1 .. Len(w) : at[i] = k
  BY <1>3
<1>5. \A e, f \in Seats : s[e] = s[f] => e = f \/ s[e] = NoPeer
  BY <1>1, <1>2
<1>6. ASSUME NEW i \in 1 .. Len(w), NEW j \in 1 .. Len(w), w[i] = w[j]
      PROVE  i = j
  <2>1. at[i] \in 1 .. n /\ at[j] \in 1 .. n /\ waiting[at[i]] = waiting[at[j]]
    BY <1>4, <1>6
  <2>2. at[i] = at[j]
    BY <1>1, <2>1
  <2> QED
    BY <1>4, <2>2
<1>7. \A e \in Seats : \A i \in 1 .. Len(w) : s[e] # w[i]
  <2> SUFFICES ASSUME NEW e \in Seats, NEW i \in 1 .. Len(w) PROVE s[e] # w[i]
    OBVIOUS
  <2>1. w[i] \in Peers /\ w[i] = waiting[at[i]] /\ at[i] \in 1 .. n
    BY <1>4
  <2> QED
    BY <1>1, <1>2, <2>1, TableAssumption
<1>8. ASSUME NEW q \in Peers
      PROVE  q \in ps \ {p} <=> \/ \E e \in Seats : s[e] = q
                                \/ \E i \in 1 .. Len(w) : w[i] = q
  <2>1. q # NoPeer
    BY TableAssumption
  <2>2. (\E e \in Seats : s[e] = q) <=> q # p /\ \E e \in Seats : seats[e] = q
    BY <1>2, <2>1
  <2>3. (\E i \in 1 .. Len(w) : w[i] = q) <=> q # p /\ \E k \in 1 .. n : waiting[k] = q
    <3>1. ASSUME NEW i \in 1 .. Len(w), w[i] = q
          PROVE  q # p /\ \E k \in 1 .. n : waiting[k] = q
      <4>1. at[i] \in 1 .. n /\ waiting[at[i]] = q
        BY <1>4, <3>1
      <4> QED
        BY <1>4, <4>1
    <3>2. ASSUME NEW k \in 1 .. n, waiting[k] = q, q # p
          PROVE  \E i \in 1 .. Len(w) : w[i] = q
      BY <1>4, <3>2
    <3> QED
      BY <3>1, <3>2
  <2> QED
    BY <1>1, <2>2, <2>3
<1>9. OnePlace(s, w, ps \ {p})
  BY <1>2, <1>4, <1>5, <1>6, <1>7, <1>8 DEF OnePlace
<1> QED
  BY <1>9 DEF s, w

-----------------------------------------------------------------------------
(***************************************************************************)
(* The steps and the places.                                               *)
(***************************************************************************)
\* Asking a question leaves the places that it is given, or poisons the table.
LEMMA AskKeepsPlaces ==
  ASSUME Places, ~ poisoned, NEW s, NEW w, NEW c, NEW t \in SUBSET Seats, NEW p \in Questions,
         Ask(s, w, c, t, p), OnePlace(s, w, Present'),
         conn' \in [Peers -> {"absent", "open", "closing"}]
  PROVE  Places'
<1> DEFINE replaced == { epi \in p.asked : c[epi] # NoCmd }
<1>1. p.asked \subseteq Seats /\ p # NoPhase
  BY NoCmdIsNoQuestion DEF Questions, Outcomes, GamesInPlay, AtMostOne, Singles
<1>2. CASE Lost # {} \/ \E epi \in replaced : c[epi].kind # p.kind
  <2>1. poisoned' = TRUE /\ UNCHANGED <<seats, waiting, stale>>
    BY <1>2 DEF Ask
  <2> QED
    BY <2>1 DEF Places
<1>3. CASE ~ (Lost # {} \/ \E epi \in replaced : c[epi].kind # p.kind)
  <2>1. /\ seats' = s /\ waiting' = w /\ phase' = p /\ stale' = t \cup replaced
        /\ UNCHANGED poisoned
    BY <1>3 DEF Ask
  <2>2. stale' \subseteq Seats
    BY <1>1, <2>1
  <2>3. seats' \in [Seats -> Peers \cup {NoPeer}] /\ waiting' \in Seq(Peers)
    BY <2>1 DEF OnePlace
  <2>4. OnePlace(seats, waiting, Present)'
    BY <2>1 DEF OnePlace
  <2> QED
    BY <1>1, <2>1, <2>2, <2>3, <2>4 DEF Places
<1> QED
  BY <1>2, <1>3

\* So does the rest of the handler.
LEMMA ProceedKeepsPlaces ==
  ASSUME IInv, Places, ~ poisoned, NEW p \in Outcomes, NEW c, NEW t \in SUBSET Seats,
         Proceed(p, c, t), UNCHANGED conn
  PROVE  Places'
<1>1. PICK next \in Settled(p) :
        IF next = NextGame THEN StartNextGame(c, t) ELSE Ask(seats, waiting, c, t, next)
  BY DEF Proceed
<1>2. next = NextGame \/ next \in Questions
  BY <1>1, SettledIsQuestion
<1>3. /\ OnePlace(seats, waiting, Present) /\ Present' = Present
      /\ conn' \in [Peers -> {"absent", "open", "closing"}]
  BY DEF Places, Present
<1>4. CASE next # NextGame
  BY <1>1, <1>2, <1>3, <1>4, AskKeepsPlaces
<1>5. CASE next = NextGame
  <2> DEFINE s == [Rotated(seats) EXCEPT ![N - 1] = NoPeer]
             w == Queued(waiting, Rotated(seats)[N - 1])
             filled == FilledFrom(s, w)
  <2>1. OnePlace(s, w, Present)
    BY <1>3, RotationKeepsPlaces
  <2> HIDE DEF s, w
  <2>2. /\ OnePlace(filled, StillWaiting(s, w), Present')
        /\ \A e \in Seats : filled[e] = NoPeer => StillWaiting(s, w) = <<>>
    BY <1>3, <2>1, FillingKeepsPlaces
  <2> HIDE DEF filled
  <2>3. CASE \A epi \in Seats : filled[epi] # NoPeer
    <3>1. PICK q \in FirstQuestion : Ask(filled, StillWaiting(s, w), Rotated(c), t, q)
      BY <1>1, <1>5, <2>3 DEF StartNextGame, filled, s, w
    <3> QED
      BY <1>3, <2>2, <3>1, FirstQuestionIsQuestion, AskKeepsPlaces
  <2>4. CASE ~ \A epi \in Seats : filled[epi] # NoPeer
    <3>1. /\ seats' = filled /\ waiting' = StillWaiting(s, w) /\ stale' = t
          /\ UNCHANGED poisoned
      BY <1>1, <1>5, <2>4 DEF StartNextGame, filled, s, w
    <3>2. waiting' = <<>> /\ \E epi \in Seats : seats'[epi] = NoPeer
      BY <2>2, <2>4, <3>1
    <3>3. OnePlace(seats, waiting, Present)'
      BY <2>2, <3>1 DEF OnePlace
    <3>4. seats' \in [Seats -> Peers \cup {NoPeer}] /\ waiting' \in Seq(Peers)
      BY <3>3 DEF OnePlace
    <3> QED
      BY <1>3, <3>1, <3>2, <3>3, <3>4 DEF Places
  <2> QED
    BY <2>3, <2>4
<1> QED
  BY <1>4, <1>5

\* A free seat that nobody sits before.
LEMMA FirstFreeSeat ==
  ASSUME NEW S \in SUBSET Seats, S # {}
  PROVE  (CHOOSE e \in S : \A f \in S : e <= f) \in S
<1>1. \A e \in S : e \in Nat
  BY Numbers DEF Seats
<1>2. PICK e \in S : \A f \in S : ~ (<<f, e>> \in OpToRel(<, Nat))
  BY <1>1, WFMin, NatLessThanWellFounded
<1>3. ASSUME NEW f \in S
      PROVE  e <= f
  <2>1. e \in Nat /\ f \in Nat
    BY <1>1
  <2>2. ~ (f < e)
    BY <1>2, <2>1 DEF OpToRel
  <2> QED
    BY <2>1, <2>2
<1> QED
  BY <1>3

\* A peer that connects gets its one place.
LEMMA ConnectKeepsPlaces ==
  ASSUME IInv, Places, NEW p \in Peers, Connect(p)
  PROVE  Places'
<1> DEFINE Free == { epi \in Seats : seats[epi] = NoPeer }
           first == CHOOSE epi \in Free : \A e \in Free : epi <= e
           s == [seats EXCEPT ![first] = p]
           c == Taken(first)
           t == stale \cup { epi \in {first} : cmd[epi] # NoCmd }
<1>1. /\ ~ poisoned /\ conn[p] = "absent" /\ conn' = [conn EXCEPT ![p] = "open"]
      /\ OnePlace(seats, waiting, Present) /\ p \notin Present
      /\ phase = NoPhase => waiting = <<>> /\ Free # {}
  BY DEF Connect, Places, Present
<1>2. /\ conn' \in [Peers -> {"absent", "open", "closing"}]
      /\ Present' = Present \cup {p}
  BY <1>1 DEF Places, Present
<1>3. CASE phase = NoPhase
  <2>1. first \in Free
    BY <1>1, <1>3, FirstFreeSeat
  <2> HIDE DEF first
  <2>2. OnePlace(s, waiting, Present')
    BY <1>1, <1>2, <2>1, SeatingKeepsPlaces
  <2>3. t \in SUBSET Seats
    BY <2>1 DEF Places
  <2>4. CASE Free = {first}
    <3>1. PICK q \in FirstQuestion : Ask(s, waiting, c, t, q)
      BY <1>1, <1>3, <2>4 DEF Connect, first
    <3> QED
      BY <1>1, <1>2, <2>2, <2>3, <3>1, FirstQuestionIsQuestion, AskKeepsPlaces
  <2>5. CASE Free # {first}
    <3>1. seats' = s /\ stale' = t /\ UNCHANGED <<waiting, phase, poisoned>>
      BY <1>1, <1>3, <2>5 DEF Connect, first
    <3>2. PICK e \in Free : e # first
      BY <2>1, <2>5
    <3>3. seats'[e] = NoPeer /\ e \in Seats
      BY <3>1, <3>2 DEF Places
    <3>4. OnePlace(seats, waiting, Present)'
      BY <2>2, <3>1 DEF OnePlace
    <3>5. seats' \in [Seats -> Peers \cup {NoPeer}] /\ waiting' \in Seq(Peers)
      BY <3>4 DEF OnePlace
    <3> QED
      BY <1>1, <1>2, <2>3, <3>1, <3>3, <3>4, <3>5 DEF Places
  <2> QED
    BY <2>4, <2>5
<1>4. CASE phase # NoPhase
  <2>1. waiting' = Append(waiting, p) /\ UNCHANGED <<seats, phase, stale, poisoned>>
    BY <1>4 DEF Connect
  <2>2. OnePlace(seats, Append(waiting, p), Present')
    BY <1>1, <1>2, QueueingKeepsPlaces
  <2>3. OnePlace(seats, waiting, Present)'
    BY <2>1, <2>2 DEF OnePlace
  <2>4. seats' \in [Seats -> Peers \cup {NoPeer}] /\ waiting' \in Seq(Peers)
    BY <2>3 DEF OnePlace
  <2> QED
    BY <1>1, <1>2, <1>4, <2>1, <2>3, <2>4 DEF Places
<1> QED
  BY <1>3, <1>4

\* A peer that is removed loses its place and nobody else does.
LEMMA RemoveKeepsPlaces ==
  ASSUME Places, NEW p \in Peers, Remove(p)
  PROVE  Places'
<1>1. /\ ~ poisoned /\ conn' = [conn EXCEPT ![p] = "absent"]
      /\ OnePlace(seats, waiting, Present)
      /\ phase = NoPhase => waiting = <<>> /\ \E epi \in Seats : seats[epi] = NoPeer
      /\ UNCHANGED <<phase, stale, poisoned>>
  BY DEF Remove, Places
<1>2. /\ conn' \in [Peers -> {"absent", "open", "closing"}]
      /\ Present' = Present \ {p}
  BY <1>1 DEF Places, Present
<1>3. /\ seats' = [epi \in Seats |-> IF seats[epi] = p THEN NoPeer ELSE seats[epi]]
      /\ waiting' = WithoutPeer(waiting, p)
  BY DEF Remove
<1>4. OnePlace(seats, waiting, Present)'
  <2>1. OnePlace(seats', waiting', Present')
    BY <1>1, <1>2, <1>3, RemovalKeepsPlaces
  <2> QED
    BY <2>1 DEF OnePlace
<1>5. seats' \in [Seats -> Peers \cup {NoPeer}] /\ waiting' \in Seq(Peers)
  BY <1>4 DEF OnePlace
<1>6. phase' = NoPhase => waiting' = <<>> /\ \E epi \in Seats : seats'[epi] = NoPeer
  <2> SUFFICES ASSUME phase = NoPhase
               PROVE  waiting' = <<>> /\ \E epi \in Seats : seats'[epi] = NoPeer
    BY <1>1
  <2>1. WithoutPeer(<<>>, p) = <<>>
    <3>1. ~ \E i \in 1 .. Len(<<>>) : <<>>[i] = p
      OBVIOUS
    <3> QED
      BY <3>1 DEF WithoutPeer
  <2>2. PICK epi \in Seats : seats[epi] = NoPeer
    BY <1>1
  <2>3. seats'[epi] = NoPeer
    BY <1>3, <2>2
  <2> QED
    BY <1>1, <1>3, <2>1, <2>3
<1> QED
  BY <1>1, <1>2, <1>4, <1>5, <1>6 DEF Places

\* What a timer that could not be aborted leaves behind are seats.
LEMMA AbortedAreSeats ==
  ASSUME Places, NEW epi \in Seats, NEW t \in AbortOutcomes(epi)
  PROVE  t \in SUBSET Seats
  BY DEF AbortOutcomes, Places

\* A timer leaves the places alone, but for the next game it may start.
LEMMA TimerKeepsPlaces ==
  ASSUME IInv, Places, NEW epi \in Seats, ~ poisoned, cmd[epi] # NoCmd, TimerTakes(epi), UNCHANGED conn
  PROVE  Places'
<1>1. phase # NoPhase /\ phase \in Questions
  BY NoCmdBetweenGames DEF IInv
<1>2. epi \in phase.asked /\ cmd[epi] = phase
  BY <1>1 DEF IInv, Fresh
<1>3. PICK next \in AfterDefault(phase, epi) : Proceed(next, Taken(epi), stale)
  BY <1>1, <1>2 DEF TimerTakes
<1>4. next \in Outcomes
  BY <1>1, <1>2, <1>3, AnswerOutcome DEF AfterAnswer
<1>5. stale \in SUBSET Seats
  BY DEF Places
<1> QED
  BY <1>3, <1>4, <1>5, ProceedKeepsPlaces

\* Steps that leave seats, line, phase and connections as they are.
LEMMA UnchangedKeepsPlaces ==
  ASSUME Places, UNCHANGED <<seats, waiting, phase, conn>>, stale' \subseteq Seats,
         poisoned' \in BOOLEAN, poisoned => poisoned'
  PROVE  Places'
<1>1. Present' = Present
  BY DEF Present
<1> QED
  BY <1>1 DEF Places, OnePlace

\* Every step keeps the places.
LEMMA NextPInv == PInv /\ [Next]_vars => PInv'
<1> SUFFICES ASSUME IInv, Places, [Next]_vars
             PROVE  Places'
  BY NextIInv DEF PInv
<1>1. ASSUME NEW p \in Peers, Connect(p) PROVE Places'
  BY <1>1, ConnectKeepsPlaces
<1>2. ASSUME NEW p \in Peers, Disconnect(p) PROVE Places'
  <2>1. /\ conn[p] = "open" /\ conn' = [conn EXCEPT ![p] = "closing"]
        /\ UNCHANGED <<seats, waiting, phase, stale, poisoned>>
    BY <1>2 DEF Disconnect
  <2>2. conn' \in [Peers -> {"absent", "open", "closing"}] /\ Present' = Present
    BY <2>1 DEF Places, Present
  <2> QED
    BY <2>1, <2>2 DEF Places, OnePlace
<1>3. ASSUME NEW p \in Peers, Remove(p) PROVE Places'
  BY <1>3, RemoveKeepsPlaces
<1>4. ASSUME NEW p \in Peers, Answer(p) PROVE Places'
  <2>1. ~ poisoned /\ phase \in Questions /\ UNCHANGED conn
    BY <1>4 DEF Answer, IInv
  <2>2. PICK epi \in SeatOf(p) \cap phase.asked : \E t \in AbortOutcomes(epi) :
          \E next \in AfterAnswer(phase, epi) : Proceed(next, Taken(epi), t)
    BY <1>4 DEF Answer
  <2>3. PICK t \in AbortOutcomes(epi) :
          \E next \in AfterAnswer(phase, epi) : Proceed(next, Taken(epi), t)
    BY <2>2
  <2>4. PICK next \in AfterAnswer(phase, epi) : Proceed(next, Taken(epi), t)
    BY <2>3
  <2>5. epi \in Seats /\ next \in Outcomes
    BY <2>1, <2>4, AnswerOutcome DEF SeatOf
  <2> QED
    BY <2>1, <2>4, <2>5, AbortedAreSeats, ProceedKeepsPlaces
<1>5. ASSUME NEW p \in Peers, Stoss(p) PROVE Places'
  <2>1. ~ poisoned /\ phase \in Questions /\ UNCHANGED conn
    BY <1>5 DEF Stoss, IInv
  <2>2. PICK epi \in SeatOf(p) : \E t \in AbortOutcomes(epi) :
          MayStoss(phase, epi) /\ Proceed(AfterStoss(phase), Taken(epi), t)
    BY <1>5 DEF Stoss
  <2>3. PICK t \in AbortOutcomes(epi) : Proceed(AfterStoss(phase), Taken(epi), t)
    BY <2>2
  <2>4. epi \in Seats /\ AfterStoss(phase) \in Outcomes
    BY <2>1, <2>2, StossOutcome DEF Questions, SeatOf
  <2> QED
    BY <2>1, <2>3, <2>4, AbortedAreSeats, ProceedKeepsPlaces
<1>6. ASSUME NEW p \in Peers, Refused(p) PROVE Places'
  <2>1. ~ poisoned /\ phase \in Outcomes /\ UNCHANGED conn
    BY <1>6 DEF Refused, IInv, Questions
  <2>2. PICK epi \in SeatOf(p) \cap phase.asked : \E t \in AbortOutcomes(epi) :
          Proceed(phase, Taken(epi), t)
    BY <1>6 DEF Refused
  <2>3. epi \in Seats
    BY DEF SeatOf
  <2> QED
    BY <2>1, <2>2, <2>3, AbortedAreSeats, ProceedKeepsPlaces
<1>7. ASSUME NEW p \in Peers, OtherMessage(p) PROVE Places'
  <2>1. ~ poisoned /\ UNCHANGED conn /\ stale \in SUBSET Seats
    BY <1>7 DEF OtherMessage, Places
  <2>2. CASE phase # NoPhase
    <3>1. Proceed(phase, cmd, stale) /\ phase \in Outcomes
      BY <1>7, <2>2 DEF OtherMessage, IInv, Questions
    <3> QED
      BY <2>1, <3>1, ProceedKeepsPlaces
  <2>3. CASE phase = NoPhase
    BY <1>7, <2>1, <2>3, UnchangedKeepsPlaces DEF OtherMessage
  <2> QED
    BY <2>2, <2>3
<1>8. ASSUME NEW epi \in Seats, TimerFires(epi) PROVE Places'
  BY <1>8, TimerKeepsPlaces DEF TimerFires
<1>9. ASSUME NEW epi \in Seats, StaleTimerFires(epi) PROVE Places'
  <2>1. CASE cmd[epi] # NoCmd
    BY <1>9, <2>1, TimerKeepsPlaces DEF StaleTimerFires
  <2>2. CASE cmd[epi] = NoCmd
    <3>1. /\ stale' \in {stale, stale \ {epi}}
          /\ UNCHANGED <<seats, waiting, phase, conn, poisoned>>
      BY <1>9, <2>2 DEF StaleTimerFires
    <3>2. stale' \subseteq Seats /\ poisoned' \in BOOLEAN
      BY <3>1 DEF Places
    <3> QED
      BY <3>1, <3>2, UnchangedKeepsPlaces
  <2> QED
    BY <2>1, <2>2
<1>10. CASE UNCHANGED vars
  <2>1. UNCHANGED <<seats, waiting, phase, conn, stale, poisoned>>
    BY <1>10 DEF vars
  <2>2. stale' \subseteq Seats /\ poisoned' \in BOOLEAN
    BY <2>1 DEF Places
  <2> QED
    BY <2>1, <2>2, UnchangedKeepsPlaces
<1> QED
  BY <1>1, <1>2, <1>3, <1>4, <1>5, <1>6, <1>7, <1>8, <1>9, <1>10 DEF Next, Poisoned

\* Nobody is there at first.
LEMMA InitPInv == Init => PInv
<1> SUFFICES ASSUME Init PROVE Places
  BY InitIInv DEF PInv
<1>1. /\ seats = [epi \in Seats |-> NoPeer] /\ waiting = <<>> /\ stale = {}
      /\ conn = [p \in Peers |-> "absent"] /\ poisoned = FALSE
  BY DEF Init
<1>2. Present = {}
  BY <1>1 DEF Present
<1>3. OnePlace(seats, waiting, Present)
  BY <1>1, <1>2, TableAssumption DEF OnePlace
<1>4. 0 \in Seats
  BY Numbers DEF Seats
<1> QED
  BY <1>1, <1>3, <1>4 DEF Places

\* Who sits and who waits, counted.
LEMMA PlacesAreCounted ==
  ASSUME OnePlace(seats, waiting, Present)
  PROVE  /\ Seated \cup Waiting = Present
         /\ Cardinality({ epi \in Seats : seats[epi] # NoPeer }) + Len(waiting)
              = Cardinality(Seated \cup Waiting)
<1> DEFINE T == { epi \in Seats : seats[epi] # NoPeer }
           n == Len(waiting)
<1>1. /\ seats \in [Seats -> Peers \cup {NoPeer}] /\ waiting \in Seq(Peers) /\ n \in Nat
      /\ \A e, f \in Seats : seats[e] = seats[f] => e = f \/ seats[e] = NoPeer
      /\ \A i, j \in 1 .. n : waiting[i] = waiting[j] => i = j
      /\ \A e \in Seats : \A i \in 1 .. n : seats[e] # waiting[i]
      /\ \A p \in Peers : p \in Present <=> \/ \E e \in Seats : seats[e] = p
                                            \/ \E i \in 1 .. n : waiting[i] = p
  BY DEF OnePlace
<1>2. Seated \subseteq Peers /\ Waiting \subseteq Peers /\ Seated \cap Waiting = {}
  BY <1>1 DEF Seated, Waiting
<1>3. Seated \cup Waiting = Present
  <2>1. \A p \in Peers : p \in Seated <=> \E e \in Seats : seats[e] = p
    BY TableAssumption DEF Seated
  <2>2. \A p \in Peers : p \in Waiting <=> \E i \in 1 .. n : waiting[i] = p
    BY DEF Waiting
  <2>3. Present \subseteq Peers
    BY DEF Present
  <2> QED
    BY <1>1, <1>2, <2>1, <2>2, <2>3
<1>4. IsFiniteSet(Seated) /\ Cardinality(Seated) = Cardinality(T)
  <2> DEFINE f == [e \in T |-> seats[e]]
  <2>1. f \in Surjection(T, Seated)
    BY DEF Surjection, Seated
  <2>2. f \in Injection(T, Seated)
    <3>1. f \in [T -> Seated]
      BY DEF Seated
    <3>2. \A d, e \in T : f[d] = f[e] => d = e
      BY <1>1
    <3> QED
      BY <3>1, <3>2 DEF Injection, IsInjective
  <2>3. IsFiniteSet(T)
    BY FreeSeatsFinite
  <2> QED
    BY <2>1, <2>2, <2>3, FS_Surjection
<1>5. IsFiniteSet(Waiting) /\ Cardinality(Waiting) = n
  <2> DEFINE f == [i \in 1 .. n |-> waiting[i]]
  <2>1. f \in Surjection(1 .. n, Waiting)
    BY DEF Surjection, Waiting
  <2>2. f \in Injection(1 .. n, Waiting)
    <3>1. f \in [1 .. n -> Waiting]
      BY DEF Waiting
    <3>2. \A i, j \in 1 .. n : f[i] = f[j] => i = j
      BY <1>1
    <3> QED
      BY <3>1, <3>2 DEF Injection, IsInjective
  <2> HIDE DEF f, n
  <2>3. IsFiniteSet(1 .. n) /\ Cardinality(1 .. n) = n
    <3>1. /\ IsFiniteSet(1 .. n)
          /\ Cardinality(1 .. n) = IF 1 > n THEN 0 ELSE n - 1 + 1
      BY <1>1, FS_Interval
    <3> QED
      BY <1>1, <3>1
  <2> QED
    BY <2>1, <2>2, <2>3, FS_Surjection
<1>6. Cardinality(Seated \cup Waiting) = Cardinality(T) + n
  <2>1. Cardinality(Seated \cup Waiting)
          = Cardinality(Seated) + Cardinality(Waiting) - Cardinality(Seated \cap Waiting)
    BY <1>4, <1>5, FS_Union
  <2>2. Cardinality(Seated \cap Waiting) = 0
    BY <1>2, FS_EmptySet
  <2>3. Cardinality(T) \in Nat
    BY FreeSeatsFinite
  <2> QED
    BY <1>1, <1>4, <1>5, <2>1, <2>2, <2>3
<1> QED
  BY <1>3, <1>6

\* Every connection has one place, a seat or one in line, until it is removed, through
\* every rotation of the seats; between two games nobody waits while a seat is free.
THEOREM EverybodyHasOnePlace == Spec => []OnePlaceEach
<1>1. PInv => OnePlaceEach
  <2> SUFFICES ASSUME Places, ~ poisoned
               PROVE  /\ Seated \cup Waiting = { p \in Peers : conn[p] # "absent" }
                      /\ Cardinality({ epi \in Seats : seats[epi] # NoPeer }) + Len(waiting)
                           = Cardinality(Seated \cup Waiting)
                      /\ phase = NoPhase => waiting = <<>> /\ \E epi \in Seats : seats[epi] = NoPeer
    BY DEF PInv, OnePlaceEach
  <2> QED
    BY PlacesAreCounted DEF Places, Present
<1> QED
  BY <1>1, InitPInv, NextPInv, PTL DEF Spec

\* The phase stays within the limits of bidding and doubling, the commands are default
\* answers of such phases, and seats, line and timers are of their types.
THEOREM TypeCorrect == Spec => []TypeOK
<1>1. PInv => TypeOK
  <2> SUFFICES ASSUME IInv, Places PROVE TypeOK
    BY DEF PInv
  <2>1. phase \in Phases \cup {NoPhase}
    BY QuestionsArePhases DEF IInv
  <2>2. cmd \in [Seats -> Phases \cup {NoCmd}]
    BY <2>1 DEF IInv, Fresh
  <2> QED
    BY <2>1, <2>2 DEF Places, TypeOK
<1> QED
  BY <1>1, InitPInv, NextPInv, PTL DEF Spec

-----------------------------------------------------------------------------
(***************************************************************************)
(* From one game to the next.  Of the steps that leave a last question for *)
(* a first one, or for none, all are next_game: finish() never leads from  *)
(* the end of a game to the first question of one.                         *)
(***************************************************************************)
\* the line is served in its order: n of w sit down, the rest keep waiting
ServedInOrder(s, w, filled, rest) ==
  LET n == Len(w) - Len(rest)
  IN  /\ n \in Nat
      /\ rest = SubSeq(w, n + 1, Len(w))
      /\ \A i \in 1 .. n : \E e \in Seats : filled[e] = w[i]
      /\ \A e \in Seats : s[e] # NoPeer => filled[e] = s[e]

\* The line fills the free seats from its head.
LEMMA FillingServesInOrder ==
  ASSUME NEW s, NEW w \in Seq(Peers)
  PROVE  ServedInOrder(s, w, FilledFrom(s, w), StillWaiting(s, w))
<1> DEFINE F == { epi \in Seats : s[epi] = NoPeer }
           nf == Cardinality(F)
           rank(e) == Cardinality({ x \in F : x <= e })
           filled == FilledFrom(s, w)
           rest == StillWaiting(s, w)
           len == Len(w)
           n == len - Len(rest)
<1>1. nf \in Nat /\ F \in SUBSET Seats /\ len \in Nat
  BY FreeSeatsFinite
<1>2. \A k \in 1 .. nf : \E e \in F : rank(e) = k
  BY <1>1, RanksOfSeats
<1>3. /\ \A e \in Seats : e \in F /\ rank(e) <= len => filled[e] = w[rank(e)]
      /\ \A e \in Seats : e \notin F => filled[e] = s[e]
  BY DEF FilledFrom
<1>4. rest = SubSeq(w, nf + 1, len)
  BY DEF StillWaiting
<1> HIDE DEF F, nf, rank, filled, rest, len
<1>5. Len(rest) = IF nf + 1 <= len THEN len - (nf + 1) + 1 ELSE 0
  <2>1. \A i \in nf + 1 .. len : w[i] \in Peers
    BY <1>1, ElementOfSeq DEF len
  <2> QED BY <1>1, <1>4, <2>1, SubSeqProperties
<1>6. n \in Nat /\ n <= nf /\ n <= len /\ (nf < len => n = nf) /\ (nf >= len => n = len)
  BY <1>1, <1>5
<1>7. rest = SubSeq(w, n + 1, len)
  <2>1. CASE nf < len
    BY <1>4, <1>6, <2>1
  <2>2. CASE nf >= len
    <3>1. n = len /\ ~ (nf + 1 <= len) /\ ~ (len + 1 <= len)
      BY <1>1, <1>6, <2>2
    <3>2. /\ rest \in Seq(Peers) /\ Len(rest) = 0
      <4>1. \A i \in nf + 1 .. len : w[i] \in Peers
        BY <1>1, <2>2
      <4> QED BY <1>1, <1>4, <3>1, <4>1, SubSeqProperties
    <3>3. /\ SubSeq(w, len + 1, len) \in Seq(Peers) /\ Len(SubSeq(w, len + 1, len)) = 0
      <4>1. \A i \in len + 1 .. len : w[i] \in Peers
        BY <1>1
      <4> QED BY <1>1, <3>1, <4>1, SubSeqProperties
    <3> QED BY <3>1, <3>2, <3>3, EmptySeq
  <2> QED BY <1>1, <2>1, <2>2
<1>8. ASSUME NEW i \in 1 .. n
      PROVE  \E e \in Seats : filled[e] = w[i]
  <2>1. i \in 1 .. nf /\ i <= len
    BY <1>1, <1>6
  <2>2. PICK e \in F : rank(e) = i
    BY <1>2, <2>1
  <2> QED BY <1>1, <1>3, <2>1, <2>2
<1>9. \A e \in Seats : s[e] # NoPeer => filled[e] = s[e]
  BY <1>3 DEF F
<1> QED BY <1>6, <1>7, <1>8, <1>9 DEF ServedInOrder, filled, rest, len

\* Everybody moves up one seat; who sat on the first is behind the line.
LEMMA RotationMovesUp ==
  ASSUME Places, ~ poisoned
  PROVE  LET s == [Rotated(seats) EXCEPT ![N - 1] = NoPeer]
             w == Queued(waiting, Rotated(seats)[N - 1])
         IN  /\ OnePlace(s, w, Present)
             /\ w = IF seats[0] = NoPeer THEN waiting ELSE Append(waiting, seats[0])
             /\ \A e \in Seats \ {0} : e - 1 \in Seats /\ s[e - 1] = seats[e]
<1>1. /\ NextSeat(N - 1) = 0 /\ N - 1 \in Seats
      /\ \A e \in Seats \ {0} : e - 1 \in Seats /\ e - 1 # N - 1 /\ NextSeat(e - 1) = e
  <2>1. N % N = 0 /\ (N - 1) + 1 = N
    BY Numbers
  <2>2. \A e \in Nat : e < N => e % N = e
    BY Numbers
  <2>3. \A e \in Seats \ {0} : /\ e \in Nat /\ e < N /\ (e - 1) + 1 = e
                               /\ e - 1 \in Seats /\ e - 1 # N - 1
    BY Numbers DEF Seats
  <2> QED BY <2>1, <2>2, <2>3, Numbers DEF NextSeat, Seats
<1>2. OnePlace([Rotated(seats) EXCEPT ![N - 1] = NoPeer],
               Queued(waiting, Rotated(seats)[N - 1]), Present)
  BY RotationKeepsPlaces DEF Places
<1>3. Rotated(seats)[N - 1] = seats[0]
  BY <1>1 DEF Rotated
<1>4. \A e \in Seats \ {0} : [Rotated(seats) EXCEPT ![N - 1] = NoPeer][e - 1] = seats[e]
  BY <1>1 DEF Rotated
<1> QED BY <1>1, <1>2, <1>3, <1>4 DEF Queued

\* what SeatsRotate says of a step
SeatsMoveUp ==
  LET line == IF seats[0] = NoPeer THEN waiting ELSE Append(waiting, seats[0])
      n_seated == Len(line) - Len(waiting')
  IN  /\ \A epi \in Seats \ {0} : seats[epi] # NoPeer => seats'[epi - 1] = seats[epi]
      /\ n_seated >= 0
      /\ waiting' = SubSeq(line, n_seated + 1, Len(line))
      /\ \A i \in 1 .. n_seated : line[i] \in Seated'
      /\ phase' = NoPhase => waiting' = <<>>

\* next_game moves everybody up one seat and serves the line in its order.
LEMMA NextGameMovesUp ==
  ASSUME Places, ~ poisoned, phase \notin FirstQuestion \cup {NoPhase},
         phase' \in FirstQuestion \cup {NoPhase}, NEW c, NEW t, StartNextGame(c, t)
  PROVE  SeatsMoveUp
<1> DEFINE s == [Rotated(seats) EXCEPT ![N - 1] = NoPeer]
           w == Queued(waiting, Rotated(seats)[N - 1])
           filled == FilledFrom(s, w)
           rest == StillWaiting(s, w)
<1>1. /\ OnePlace(s, w, Present)
      /\ w = IF seats[0] = NoPeer THEN waiting ELSE Append(waiting, seats[0])
      /\ \A e \in Seats \ {0} : e - 1 \in Seats /\ s[e - 1] = seats[e]
  BY RotationMovesUp
<1> HIDE DEF s, w
<1>2. w \in Seq(Peers)
  BY <1>1 DEF OnePlace
<1>3. ServedInOrder(s, w, filled, rest)
  BY <1>2, FillingServesInOrder
<1>4. \A e \in Seats : filled[e] = NoPeer => rest = <<>>
  BY <1>1, FillingKeepsPlaces
<1> HIDE DEF filled, rest
<1>5. seats' = filled /\ waiting' = rest /\ (phase' = NoPhase => \E e \in Seats : filled[e] = NoPeer)
  <2>1. CASE \A epi \in Seats : filled[epi] # NoPeer
    <3>1. PICK p \in FirstQuestion : Ask(filled, rest, Rotated(c), t, p)
      BY <2>1 DEF StartNextGame, filled, rest, s, w
    <3>2. p # NoPhase
      BY FirstQuestionIsQuestion, NoCmdIsNoQuestion
    <3>3. phase' # phase
      OBVIOUS
    <3> QED BY <3>1, <3>2, <3>3 DEF Ask
  <2>2. CASE ~ \A epi \in Seats : filled[epi] # NoPeer
    BY <2>2 DEF StartNextGame, filled, rest, s, w
  <2> QED BY <2>1, <2>2
<1> DEFINE n_seated == Len(w) - Len(waiting')
<1>6. /\ n_seated \in Nat
      /\ waiting' = SubSeq(w, n_seated + 1, Len(w))
      /\ \A i \in 1 .. n_seated : \E e \in Seats : seats'[e] = w[i]
      /\ \A e \in Seats : s[e] # NoPeer => seats'[e] = s[e]
  BY <1>3, <1>5 DEF ServedInOrder
<1>7. \A i \in 1 .. n_seated : w[i] \in Seated'
  <2> SUFFICES ASSUME NEW i \in 1 .. n_seated
               PROVE  w[i] \in Seated'
    OBVIOUS
  <2>1. w[i] # NoPeer
    <3>1. Len(waiting') \in Nat
      <4>1. \A j \in n_seated + 1 .. Len(w) : w[j] \in Peers
        BY <1>2, <1>6, ElementOfSeq
      <4> QED BY <1>2, <1>6, <4>1, SubSeqProperties
    <3>2. i \in 1 .. Len(w)
      BY <1>2, <1>6, <3>1
    <3> QED BY <1>2, <3>2, ElementOfSeq, TableAssumption
  <2> QED BY <1>6, <2>1 DEF Seated
<1>8. \A epi \in Seats \ {0} : seats[epi] # NoPeer => seats'[epi - 1] = seats[epi]
  BY <1>1, <1>6
<1>9. phase' = NoPhase => waiting' = <<>>
  BY <1>4, <1>5
<1> HIDE DEF n_seated
<1>10. n_seated >= 0
  BY <1>6
<1> QED BY <1>1, <1>6, <1>7, <1>8, <1>9, <1>10 DEF SeatsMoveUp, n_seated

\* No answer leads from the end of the preparations or of a game to the first question,
\* unless through next_game.
LEMMA NoSecondBeginning ==
  ASSUME NEW p \in Questions, p.kind \in {"GamePreparations", "GameResult"},
         NEW epi \in p.asked, NEW q \in AfterAnswer(p, epi), NEW next \in Settled(q),
         next # NextGame
  PROVE  next \notin FirstQuestion
<1>1. \A f \in FirstQuestion : f.kind = "DealCards" \/ (f.kind = "GamePreparations" /\ f.asked = {0})
  <2>1. Turn(0) = {0}
    BY Numbers DEF Turn, Seats
  <2> QED BY <2>1 DEF FirstQuestion, Settled, DealCards, GamePreparations
<1>2. epi \in Seats /\ epi \in Nat
  BY Numbers DEF Seats, Questions, Outcomes, GamesInPlay, AtMostOne, Singles
<1>3. CASE p.kind = "GamePreparations"
  <2>1. PICK contenders : q = GamePreparations(epi + 1, contenders)
    BY <1>3 DEF AfterAnswer, AfterDefault, AfterChoice
  <2>2. CASE q.asked # {}
    <3>1. next = q
      BY <2>2 DEF Settled
    <3>2. next.kind = "GamePreparations" /\ next.asked = {epi + 1}
      BY <2>1, <2>2, <3>1 DEF GamePreparations, Turn
    <3>3. {epi + 1} # {0}
      BY <1>2
    <3> QED BY <1>1, <3>2, <3>3
  <2>3. CASE q.asked = {}
    <3>1. q.kind = "GamePreparations"
      BY <2>1 DEF GamePreparations
    <3>2. CASE q.contenders = {}
      BY <1>1, <2>3, <3>1, <3>2 DEF Settled, Game
    <3>3. CASE q.contenders # {}
      <4>1. next \in Auctioned(q.contenders)
        BY <2>3, <3>1, <3>3 DEF Settled
      <4> QED BY <1>1, <4>1 DEF Auctioned, Begun, Game, DetermineRules
    <3> QED BY <3>2, <3>3
  <2> QED BY <2>2, <2>3
<1>4. CASE p.kind = "GameResult"
  <2>1. q = GameResult(p.asked \ {epi})
    BY <1>4 DEF AfterAnswer, AfterDefault, AfterChoice
  <2> QED BY <1>1, <2>1 DEF Settled, GameResult
<1> QED BY <1>3, <1>4

\* So the rest of the handler moves everybody up, or asks another question.
LEMMA ProceedMovesUp ==
  ASSUME Places, ~ poisoned, NextGameFollows, NEW p \in Outcomes, NEW c, NEW t, Proceed(p, c, t),
         \A next \in Settled(p) : next # NextGame => next \notin FirstQuestion
  PROVE  SeatsMoveUp
<1>1. PICK next \in Settled(p) :
        IF next = NextGame THEN StartNextGame(c, t) ELSE Ask(seats, waiting, c, t, next)
  BY DEF Proceed
<1>2. /\ phase \notin FirstQuestion \cup {NoPhase}
      /\ phase' \in FirstQuestion \cup {NoPhase}
  BY DEF NextGameFollows
<1>3. CASE next = NextGame
  BY <1>1, <1>2, <1>3, NextGameMovesUp
<1>4. CASE next # NextGame
  <2>1. next \notin FirstQuestion /\ next # NoPhase
    BY <1>1, <1>4, SettledIsQuestion, NoCmdIsNoQuestion
  <2>2. phase' \in {phase, next}
    BY <1>1, <1>4 DEF Ask
  <2> QED BY <1>2, <2>1, <2>2
<1> QED BY <1>3, <1>4

\* The same, when the handler was called with an answer or the default of a seat.
LEMMA AnswerMovesUp ==
  ASSUME PInv, ~ poisoned, NextGameFollows, NEW epi \in phase.asked,
         NEW p \in AfterAnswer(phase, epi), NEW c, NEW t, Proceed(p, c, t)
  PROVE  SeatsMoveUp
<1>1. /\ phase \in Questions /\ Places
      /\ phase.kind \in {"GamePreparations", "GameResult"}
  BY DEF PInv, IInv, NextGameFollows
<1>2. p \in Outcomes
  BY <1>1, AnswerOutcome
<1>3. \A next \in Settled(p) : next # NextGame => next \notin FirstQuestion
  BY <1>1, NoSecondBeginning
<1> QED BY <1>1, <1>2, <1>3, ProceedMovesUp

\* And when it was called with nothing that changes the phase.
LEMMA SamePhaseMovesUp ==
  ASSUME PInv, ~ poisoned, NextGameFollows, NEW c, NEW t, Proceed(phase, c, t)
  PROVE  SeatsMoveUp
<1>1. phase \in Questions /\ phase \in Outcomes /\ phase.asked # {} /\ Places
      /\ phase \notin FirstQuestion
  BY DEF PInv, IInv, NextGameFollows, Questions
<1>2. \A next \in Settled(phase) : next = phase
  BY <1>1 DEF Settled
<1> QED BY <1>1, <1>2, ProceedMovesUp

\* The command that a timer takes is applied like an answer.
LEMMA TimerMovesUp ==
  ASSUME PInv, ~ poisoned, NextGameFollows, NEW epi \in Seats, TimerTakes(epi)
  PROVE  SeatsMoveUp
<1>1. phase # NoPhase
  BY DEF NextGameFollows
<1>2. CASE epi \in phase.asked /\ cmd[epi].kind = phase.kind
  <2>1. PICK p \in AfterDefault(phase, epi) : Proceed(p, Taken(epi), stale)
    BY <1>1, <1>2 DEF TimerTakes
  <2>2. p \in AfterAnswer(phase, epi)
    BY DEF AfterAnswer
  <2> QED BY <1>2, <2>1, <2>2, AnswerMovesUp
<1>3. CASE ~ (epi \in phase.asked /\ cmd[epi].kind = phase.kind)
  <2>1. Proceed(phase, Taken(epi), stale)
    BY <1>1, <1>3 DEF TimerTakes
  <2> QED BY <2>1, SamePhaseMovesUp
<1> QED BY <1>2, <1>3

\* Every step from the end of one game to the next moves everybody up.
LEMMA NextMovesUp ==
  ASSUME PInv, Next, NextGameFollows
  PROVE  SeatsMoveUp
<1>1. phase # NoPhase /\ phase' # phase /\ phase.kind # "Game"
  BY DEF NextGameFollows
<1>2. ASSUME NEW p \in Peers, Connect(p)
      PROVE  SeatsMoveUp
  BY <1>1, <1>2 DEF Connect
<1>3. ASSUME NEW p \in Peers, Disconnect(p) \/ Remove(p)
      PROVE  SeatsMoveUp
  BY <1>1, <1>3 DEF Disconnect, Remove
<1>4. ASSUME NEW p \in Peers, Answer(p)
      PROVE  SeatsMoveUp
  BY <1>4, AnswerMovesUp DEF Answer
<1>5. ASSUME NEW p \in Peers, Stoss(p)
      PROVE  SeatsMoveUp
  BY <1>1, <1>5 DEF Stoss, MayStoss
<1>6. ASSUME NEW p \in Peers, Refused(p)
      PROVE  SeatsMoveUp
  BY <1>6, SamePhaseMovesUp DEF Refused
<1>7. ASSUME NEW p \in Peers, OtherMessage(p)
      PROVE  SeatsMoveUp
  BY <1>1, <1>7, SamePhaseMovesUp DEF OtherMessage
<1>8. ASSUME NEW epi \in Seats, TimerFires(epi)
      PROVE  SeatsMoveUp
  BY <1>8, TimerMovesUp DEF TimerFires
<1>9. ASSUME NEW epi \in Seats, StaleTimerFires(epi)
      PROVE  SeatsMoveUp
  BY <1>1, <1>9, TimerMovesUp DEF StaleTimerFires
<1>10. CASE Poisoned
  BY <1>1, <1>10 DEF Poisoned, vars
<1> QED BY <1>2, <1>3, <1>4, <1>5, <1>6, <1>7, <1>8, <1>9, <1>10 DEF Next

\* next_game: from one game to the next everybody moves up one seat, the line is served
\* in its order, and nobody is left waiting while the game cannot begin.
THEOREM SeatsAlwaysRotate == Spec => SeatsRotate
<1>1. Spec => []PInv
  BY InitPInv, NextPInv, PTL DEF Spec
<1>2. PInv /\ [Next]_vars => [NextGameFollows => SeatsMoveUp]_vars
  BY NextMovesUp
<1>3. [NextGameFollows => SeatsMoveUp]_vars
      <=> [ NextGameFollows =>
        LET line == IF seats[0] = NoPeer THEN waiting ELSE Append(waiting, seats[0])
            n_seated == Len(line) - Len(waiting')
        IN  /\ \A epi \in Seats \ {0} : seats[epi] # NoPeer => seats'[epi - 1] = seats[epi]
            /\ n_seated >= 0
            /\ waiting' = SubSeq(line, n_seated + 1, Len(line))
            /\ \A i \in 1 .. n_seated : line[i] \in Seated'
            /\ phase' = NoPhase => waiting' = <<>> ]_vars
  BY DEF SeatsMoveUp
<1> QED BY <1>1, <1>2, <1>3, PTL DEF Spec, SeatsRotate
==============================================================================
