-------------------------------- MODULE Table --------------------------------
(***************************************************************************)
(* The table of the game server (main/src/subcommands/websocket.rs).       *)
(*                                                                         *)
(* One STable behind a mutex is shared by the tasks that serve the         *)
(* connections and by the timers.  A peer that connects takes a free seat  *)
(* between two games, and waits in line otherwise.  Whoever has to answer  *)
(* is asked, and a timer answers for those who do not: every question      *)
(* stores a default answer at the seat (otimeoutcmd) and starts a timer,   *)
(* which, when it ends, takes and applies whatever answer it finds there.  *)
(* A seat that was left is played by its timers, as a bot.                 *)
(*                                                                         *)
(* Each action is what one task does while it holds the mutex.             *)
(***************************************************************************)
EXTENDS GamePhases, Sequences, FiniteSets

CONSTANTS
  Peers,            \* connections
  NoPeer,           \* opeer = None
  NoCmd,            \* otimeoutcmd = None
  NoPhase,          \* ogamephase = None
  MayBeRefused      \* whether players give answers that the phase refuses

ASSUME TableAssumption ==
  /\ NoPeer \notin Peers
  /\ NoCmd \notin Phases
  /\ NoPhase \notin Phases
  /\ MayBeRefused \in BOOLEAN

VARIABLES
  seats,            \* mapepiopeer[epi].opeer
  waiting,          \* vecpeer, longest waiting first
  phase,            \* ogamephase
  cmd,              \* mapepiopeer[epi].otimeoutcmd: the phase whose default answer
                    \* it holds; the timer started with it is running
  stale,            \* the seats for which some timer started with an earlier
                    \* command is still running and can no longer be aborted
  conn,             \* "absent"; "open"; "closing" once the task that serves the
                    \* connection has dropped the receiver but not yet removed the peer
  poisoned          \* a task panicked while it held the mutex

vars == <<seats, waiting, phase, cmd, stale, conn, poisoned>>

Seated == { seats[epi] : epi \in Seats } \ {NoPeer}

Waiting == { waiting[i] : i \in 1 .. Len(waiting) }

Lost == { p \in Peers : conn[p] = "closing" }

\* the oepi that the handler looks up for a message: a peer has at most one seat
SeatOf(p) == { epi \in Seats : seats[epi] = p }

------------------------------------------------------------------------------
(***************************************************************************)
(* on_incoming_message, in the order of its parts.                         *)
(***************************************************************************)

(***************************************************************************)
(* ask_with_timeout stores the command of every seat that has to answer,   *)
(* whether a peer sits there or not, and starts a timer for it.            *)
(***************************************************************************)
AskedWithoutBots(s, c, p) ==
  [epi \in Seats |-> IF epi \in p.asked /\ s[epi] # NoPeer THEN p ELSE c[epi]]

Asked(s, c, p) == [epi \in Seats |-> IF epi \in p.asked THEN p ELSE c[epi]]

(***************************************************************************)
(* The end of the handler: the seats are asked, and the timer of a command *)
(* that is replaced runs on.  It panics at a peer whose receiver is gone   *)
(* (for_each sends to all of them) and at a command of another phase (the  *)
(* assertion in ask_with_timeout); what it leaves behind then is never     *)
(* seen, since nobody can lock the table again.                            *)
(***************************************************************************)
Ask(s, w, c, t, p) ==
  LET replaced == { epi \in p.asked : c[epi] # NoCmd }
  IN  IF Lost # {} \/ \E epi \in replaced : c[epi].kind # p.kind
      THEN /\ poisoned' = TRUE
           /\ UNCHANGED <<seats, waiting, phase, cmd, stale>>
      ELSE /\ seats' = s
           /\ waiting' = w
           /\ phase' = p
           /\ cmd' = Asked(s, c, p)
           /\ stale' = t \cup replaced
           /\ UNCHANGED poisoned

(***************************************************************************)
(* next_game: everybody moves up one seat, with the commands of the seat;  *)
(* the peer that would come round to the last seat goes to the end of the  *)
(* line; then the line fills the free seats.  The game begins if all are   *)
(* taken (at once with the preparations, if nothing is ever doubled), and  *)
(* nobody is told anything otherwise.                                      *)
(***************************************************************************)
FirstQuestion == Settled(DealCards(0))

Rotated(f) == [epi \in Seats |-> f[NextSeat(epi)]]

QueuedFirst(w, p) == IF p = NoPeer THEN w ELSE <<p>> \o w

Queued(w, p) == IF p = NoPeer THEN w ELSE Append(w, p)

FilledFrom(s, w) ==
  LET Free == { epi \in Seats : s[epi] = NoPeer }
      rank(epi) == Cardinality({ e \in Free : e <= epi })
  IN  [epi \in Seats |-> IF epi \in Free /\ rank(epi) <= Len(w)
                         THEN w[rank(epi)] ELSE s[epi]]

StillWaiting(s, w) ==
  SubSeq(w, Cardinality({ epi \in Seats : s[epi] = NoPeer }) + 1, Len(w))

StartNextGame(c, t) ==
  LET last == N - 1
      s == [Rotated(seats) EXCEPT ![last] = NoPeer]
      w == Queued(waiting, Rotated(seats)[last])
      filled == FilledFrom(s, w)
  IN  IF \A epi \in Seats : filled[epi] # NoPeer
      THEN \E p \in FirstQuestion : Ask(filled, StillWaiting(s, w), Rotated(c), t, p)
      ELSE /\ seats' = filled
           /\ waiting' = StillWaiting(s, w)
           /\ phase' = NoPhase
           /\ cmd' = Rotated(c)
           /\ stale' = t
           /\ UNCHANGED poisoned

(***************************************************************************)
(* The rest of the handler once the answer, if any, has made p of the      *)
(* phase, c of the commands and t of the timers left running.              *)
(***************************************************************************)
Proceed(p, c, t) ==
  \E next \in Settled(p) :
    IF next = NextGame THEN StartNextGame(c, t) ELSE Ask(seats, waiting, c, t, next)

\* taking the command of a seat
TakenByNobody(epi) == cmd

Taken(epi) == [cmd EXCEPT ![epi] = NoCmd]

(***************************************************************************)
(* aborthandle.abort(): too late if the timer has ended and waits for the  *)
(* mutex; it will look for a command all the same.                         *)
(***************************************************************************)
AbortOutcomes(epi) ==
  IF cmd[epi] = NoCmd THEN {stale} ELSE {stale, stale \cup {epi}}

------------------------------------------------------------------------------
Init ==
  /\ seats = [epi \in Seats |-> NoPeer]
  /\ waiting = <<>>
  /\ phase = NoPhase
  /\ cmd = [epi \in Seats |-> NoCmd]
  /\ stale = {}
  /\ conn = [p \in Peers |-> "absent"]
  /\ poisoned = FALSE

\* handle_connection calls insert
Connect(p) ==
  /\ ~ poisoned
  /\ conn[p] = "absent"
  /\ conn' = [conn EXCEPT ![p] = "open"]
  /\ LET Free == { epi \in Seats : seats[epi] = NoPeer }
         first == CHOOSE epi \in Free : \A e \in Free : epi <= e
         s == [seats EXCEPT ![first] = p]
         c == Taken(first)
         t == stale \cup { epi \in {first} : cmd[epi] # NoCmd }
     IN  IF phase = NoPhase /\ Free # {}
         THEN IF Free = {first}
              THEN \E first_phase \in FirstQuestion : Ask(s, waiting, c, t, first_phase)
              ELSE /\ seats' = s
                   /\ cmd' = c
                   /\ stale' = t
                   /\ UNCHANGED <<waiting, phase, poisoned>>
         ELSE /\ waiting' = Append(waiting, p)
              /\ UNCHANGED <<seats, phase, cmd, stale, poisoned>>

\* the connection ends: select returns and the receiver is dropped
Disconnect(p) ==
  /\ ~ poisoned
  /\ conn[p] = "open"
  /\ conn' = [conn EXCEPT ![p] = "closing"]
  /\ UNCHANGED <<seats, waiting, phase, cmd, stale, poisoned>>

\* retain drops one peer from the line, where nobody stands twice (OnePlaceEach)
WithoutPeer(w, p) ==
  IF \E i \in 1 .. Len(w) : w[i] = p
  THEN LET i == CHOOSE i \in 1 .. Len(w) : w[i] = p
       IN  SubSeq(w, 1, i - 1) \o SubSeq(w, i + 1, Len(w))
  ELSE w

\* then handle_connection locks the table again and calls remove
RemoveSeated(p) ==
  /\ ~ poisoned
  /\ conn[p] = "closing"
  /\ conn' = [conn EXCEPT ![p] = "absent"]
  /\ seats' = [epi \in Seats |-> IF seats[epi] = p THEN NoPeer ELSE seats[epi]]
  /\ UNCHANGED <<waiting, phase, cmd, stale, poisoned>>

Remove(p) ==
  /\ ~ poisoned
  /\ conn[p] = "closing"
  /\ conn' = [conn EXCEPT ![p] = "absent"]
  /\ seats' = [epi \in Seats |-> IF seats[epi] = p THEN NoPeer ELSE seats[epi]]
  /\ waiting' = WithoutPeer(waiting, p)
  /\ UNCHANGED <<phase, cmd, stale, poisoned>>

\* a player gives an answer that the phase accepts
Answer(p) ==
  /\ ~ poisoned
  /\ conn[p] = "open"
  /\ phase # NoPhase
  /\ \E epi \in SeatOf(p) \cap phase.asked : \E t \in AbortOutcomes(epi) :
       \E next \in AfterAnswer(phase, epi) : Proceed(next, Taken(epi), t)
  /\ UNCHANGED conn

\* a player doubles the stakes; whoever has to play the card is asked again
Stoss(p) ==
  /\ ~ poisoned
  /\ conn[p] = "open"
  /\ phase # NoPhase
  /\ \E epi \in SeatOf(p) : \E t \in AbortOutcomes(epi) :
       /\ MayStoss(phase, epi)
       /\ Proceed(AfterStoss(phase), Taken(epi), t)
  /\ UNCHANGED conn

\* the phases that may refuse an answer of the right kind from a seat they ask: a
\* card that is not allowed, a stoss, a game that the hand does not allow
\* (announce_doubling and confirm take whatever the asked seat says)
CanRefuse == {"GamePreparations", "DetermineRules", "Game"}

\* a player who has to answer gives an answer of the right kind that is refused
Refused(p) ==
  /\ ~ poisoned
  /\ MayBeRefused
  /\ conn[p] = "open"
  /\ phase # NoPhase
  /\ phase.kind \in CanRefuse
  /\ \E epi \in SeatOf(p) \cap phase.asked : \E t \in AbortOutcomes(epi) :
       Proceed(phase, Taken(epi), t)
  /\ UNCHANGED conn

\* any other message: from a seat that is not asked, from somebody waiting, or
\* meant for another phase
OtherMessage(p) ==
  /\ ~ poisoned
  /\ conn[p] = "open"
  /\ IF phase # NoPhase
     THEN Proceed(phase, cmd, stale)
     ELSE /\ poisoned' = (Lost # {})
          /\ UNCHANGED <<seats, waiting, phase, cmd, stale>>
  /\ UNCHANGED conn

\* STimerFuture::poll takes the command it finds at its seat and applies it
TimerTakes(epi) ==
  IF phase = NoPhase
  THEN /\ poisoned' = (Lost # {})
       /\ cmd' = Taken(epi)
       /\ UNCHANGED <<seats, waiting, phase, stale>>
  ELSE \E next \in IF epi \in phase.asked /\ cmd[epi].kind = phase.kind
                    THEN AfterDefault(phase, epi) ELSE {phase} :
         Proceed(next, Taken(epi), stale)

\* the timer that was started with the command ends
TimerFires(epi) ==
  /\ ~ poisoned
  /\ cmd[epi] # NoCmd
  /\ TimerTakes(epi)
  /\ UNCHANGED conn

\* a timer started with an earlier command ends: it takes the present one, whose
\* own timer runs on, or finds none
StaleTimerFires(epi) ==
  /\ ~ poisoned
  /\ epi \in stale
  /\ IF cmd[epi] # NoCmd
     THEN TimerTakes(epi)
     ELSE /\ stale' \in {stale, stale \ {epi}}
          /\ UNCHANGED <<seats, waiting, phase, cmd, poisoned>>
  /\ UNCHANGED conn

\* every task that locks the table now panics in turn
Poisoned == poisoned /\ UNCHANGED vars

Next ==
  \/ \E p \in Peers : Connect(p)
  \/ \E p \in Peers : Disconnect(p)
  \/ \E p \in Peers : Remove(p)
  \/ \E p \in Peers : Answer(p)
  \/ \E p \in Peers : Stoss(p)
  \/ \E p \in Peers : Refused(p)
  \/ \E p \in Peers : OtherMessage(p)
  \/ \E epi \in Seats : TimerFires(epi)
  \/ \E epi \in Seats : StaleTimerFires(epi)
  \/ Poisoned

Spec == Init /\ [][Next]_vars

(***************************************************************************)
(* Every timer ends: its thread sleeps two seconds.  A timer may be        *)
(* aborted, but then the seat has answered; with MayBeRefused = FALSE that *)
(* has brought the game forward, so that it can happen only so often.      *)
(* A task whose connection ended goes on to remove its peer.               *)
(***************************************************************************)
LiveSpec ==
  /\ Spec
  /\ \A epi \in Seats : WF_vars(TimerFires(epi))
  /\ \A p \in Peers : WF_vars(Remove(p))

------------------------------------------------------------------------------
(***************************************************************************)
(* Types: the phase is one in which somebody still has to answer, with its *)
(* bidding and its doubling of stakes within their limits, and a stored    *)
(* command is the default answer of such a phase.                          *)
(***************************************************************************)
TypeOK ==
  /\ seats \in [Seats -> Peers \cup {NoPeer}]
  /\ waiting \in Seq(Peers)
  /\ phase \in Phases \cup {NoPhase}
  /\ cmd \in [Seats -> Phases \cup {NoCmd}]
  /\ stale \subseteq Seats
  /\ conn \in [Peers -> {"absent", "open", "closing"}]
  /\ poisoned \in BOOLEAN

(***************************************************************************)
(* Exactly the seats that have to answer, bots too, hold a command, and it *)
(* answers the question that the phase asks them now, whoever has answered *)
(* in between and whichever timers are still running: no default answer    *)
(* outlives its question, none survives the end of a game or the rotation  *)
(* of the seats, and nobody is left without one.                           *)
(***************************************************************************)
CommandIsFresh ==
  \A epi \in Seats :
    cmd[epi] = IF phase # NoPhase /\ epi \in phase.asked THEN phase ELSE NoCmd

(***************************************************************************)
(* Every connection has one place, a seat or one in line, until it is      *)
(* removed; and between two games nobody waits in line while a seat is     *)
(* free.  (insert looks at the phase and the seats but never at the line.) *)
(***************************************************************************)
OnePlaceEach ==
  ~ poisoned =>
  /\ Seated \cup Waiting = { p \in Peers : conn[p] # "absent" }
  /\ Cardinality({ epi \in Seats : seats[epi] # NoPeer }) + Len(waiting)
       = Cardinality(Seated \cup Waiting)
  /\ phase = NoPhase => waiting = <<>> /\ \E epi \in Seats : seats[epi] = NoPeer

(***************************************************************************)
(* Of the panics modelled here only one loses the table, the write to a    *)
(* connection that has ended and is not yet removed: the assertion of      *)
(* ask_with_timeout, that a command is only ever replaced by one of the    *)
(* same phase, never fails.                                                *)
(***************************************************************************)
OnlyLostPeersPoison == poisoned => Lost # {}

(***************************************************************************)
(* The comment in ask_with_timeout says "only one active timeout cmd": a   *)
(* seat that holds a command has the timer of that command and no other;   *)
(* no question is answered by the timer of an earlier one.                 *)
(***************************************************************************)
OneTimerPerQuestion == \A epi \in stale : cmd[epi] = NoCmd

(***************************************************************************)
(* The unwrap! around unbounded_send asserts that every peer at the table  *)
(* still has a receiver.                                                   *)
(***************************************************************************)
NeverPoisoned == ~ poisoned

(***************************************************************************)
(* From one game to the next everybody moves up one seat, the peers in     *)
(* line take the free seats in their order, and whoever leaves the first   *)
(* seat plays on only if nobody is left waiting before him.                *)
(***************************************************************************)
NextGameFollows ==
  /\ phase # NoPhase
  /\ phase.kind \in {"GamePreparations", "GameResult"}
  /\ phase \notin FirstQuestion
  /\ phase' \in FirstQuestion \cup {NoPhase}

SeatsRotate ==
  [][ NextGameFollows =>
        LET line == IF seats[0] = NoPeer THEN waiting ELSE Append(waiting, seats[0])
            n_seated == Len(line) - Len(waiting')
        IN  /\ \A epi \in Seats \ {0} : seats[epi] # NoPeer => seats'[epi - 1] = seats[epi]
            /\ n_seated >= 0
            /\ waiting' = SubSeq(line, n_seated + 1, Len(line))
            /\ \A i \in 1 .. n_seated : line[i] \in Seated'
            /\ phase' = NoPhase => waiting' = <<>> ]_vars

(***************************************************************************)
(* Every game comes to its end, however many of the players answer or are  *)
(* still there: the table is between two games, or at the first question   *)
(* of one, again and again, and never stays at that question.              *)
(***************************************************************************)
Opening == phase \in FirstQuestion

EveryGameEnds ==
  /\ []<>(poisoned \/ phase = NoPhase \/ Opening)
  /\ []<>(poisoned \/ phase = NoPhase \/ ~ Opening)

(***************************************************************************)
(* Whoever waits in line gets a seat in the end, unless he leaves.         *)
(***************************************************************************)
WaitersAreSeated ==
  \A p \in Peers :
    p \in Waiting ~> (p \in Seated \/ conn[p] # "open" \/ poisoned)
==============================================================================
