# Openschafkopf in TLA+

Openschafkopf plays Schafkopf: a command line game, a search that suggests
cards, and a game server for browsers. This directory models the core of the
program - finding a game, playing the cards, what a game is worth, the search for a
card, the table of the server and the one at the command line - checks the models
with TLC and proves theorems about them with TLAPS. Line numbers are
those of the files under `src/`; file names without a path are below
`src/main/src/`.

## 1. The system

| Component | State | Operations | Made correct by |
|---|---|---|---|
| Game phases, `game/mod.rs` | `SDealCards`, `SGamePreparations`, `SDetermineRules`, `SGame`, `SGameResult`, each consumed by `finish` | `announce_doubling`, `announce_game`, `resign`, `stoss`, `zugeben`, `confirm`, `finish` | only the seat that `which_player_can_do_something` names can act; a phase ends exactly when nobody can |
| Bidding (Steigern), `game/mod.rs` 93-293, `rules/mod.rs` 390-450, `rules/rulessolo.rs` 73-107 | queue of announced games, standing bid | as above | bids rise, the right seat is asked, what is offered is accepted, the bidding ends |
| Card play, `game/mod.rs` 295-589, `rules/*.rs` | hands, Stichs, stoss | `stoss`, `zugeben`, `zugeben_and_restore` | somebody can always play, the winner of a Stich leads the next, the rules of the Rufspiel about its Ass |
| Order of the cards, `rules/trumpfdecider.rs` | none (types) | `trumpforfarbe`, `compare_cards`, `trumpfs_in_descending_order` | the comparison and the list describe the same order |
| Game server, `subcommands/websocket.rs` | `STable` behind a mutex: seats, waiting peers, phase, a default answer (`otimeoutcmd`) per seat; timers; connections | `insert`, `remove`, `on_incoming_message`, `next_game`, timers | every seat that is asked has one pending default answer for *this* question; games end although players leave; nobody is lost or overtaken in line |
| Game loop, `game/run.rs` | players, money, stock | `run_simple_game_loop`, `apply_payout` | money and stock add up to 0, the stock is even and taken whole, the winners are paid |
| Payouts, `rules/payoutdecider.rs`, `rules/rules*.rs` | none | `payoutinfos`, `payouthints` | Schneider and Schwarz as the loser sees them, ties of a Ramsch, hints only narrow and contain the payout, never 0 |
| Rule state cache, `rules/mod.rs` 118-216 | points and Stichs per seat, who was dealt a card | `new`, `register_stich`, `unregister_stich` | equals a recount |
| Suggestion of a card, `ai/mod.rs`, `ai/rulespecific/` | statistics of every allowed card behind a mutex, worker threads | `suggest_card`, `determine_best_card` | no result is lost, a card that wins for certain is taken |
| Hands that are possible, `ai/handiterators.rs` | the permutation of the unknown cards | `next`, the filter by the game so far | every possible hand comes once, none that contradicts the game |
| Search, `ai/suspicion.rs` | hands, Stichs and cache, changed in place | `explore_snapshots` | finds the value of the game tree, leaves everything as it was |
| Rule sets, `rules/ruleset.rs`, `rules/parser.rs` | groups of rules per seat | parsing, `allowed_rules` | |
| Players, user interface, subcommands, logging, monitor, site | | | front ends |

How they interact: the game loop and the server drive the same phase objects.
The loop asks one player at a time and unwraps every result. The server keeps
the phase in an `STable` behind a mutex shared by one task per connection and
one timer per question; `on_incoming_message` applies an answer, finishes
phases while nobody can answer, and asks again. A phase calls the rules to find
the allowed cards, the winner of a Stich and the payout; the rules look at the
Stichs and hands they are given.

What is hard: in the server, timers that end while their question is being
answered, peers that disconnect at any point, and seats that rotate while
commands and timers refer to them by index. In the bidding, who may equal a bid
and who has to exceed it after any number of changes. In the card play, the
exceptions of the Rufspiel, and a partial order of cards used in a loop. In the
payouts, bounds that are stated from the side of one party only, hints that the
search relies on before a game is over, and a cache that it changes and restores
as it goes. In the search, four values folded over the same lines of play, each with
a comparison of its own, hands that have to agree with every card played so far,
and worker threads that finish in any order. Over many games, a stock whose halves always have to come out even.
`PROJECT.json` lists these under `hazards`, each with its line and the
properties that would notice it going wrong.

## 2. The modules

| Module | Models | Uses |
|---|---|---|
| `Auction` | what the bidding promises: contenders, a leader, a price; the highest other contender outbids or gives up | |
| `Bidding` | `SGamePreparations` and `SDetermineRules` with their queue | instantiates `Auction` (`A`) |
| `BiddingPhases` | that the bidding is, for a table, the phases of `GamePhases` | extends `Bidding`, instantiates `GamePhases` |
| `GamePhases` | every phase as seen from outside: who is asked, what an answer makes of it, what `finish` leads to | |
| `Table` | the server | extends `GamePhases` |
| `Trumpf` | cards and their orders | |
| `StichOrder` | `preliminary_winner_index` over the whole deck | extends `Trumpf` |
| `CardPlay` | `SGame` with `SStichSequence` and the rules for allowed cards | extends `Trumpf`, instantiates `GamePhases` |
| `PayoutInfo` | the arithmetic of payouts: parties, stakes, shares of the stock | |
| `Payout` | `payoutinfos` and `payouthints` of every kind of rules, on the `SRuleStateCache` | extends `PayoutInfo` |
| `GameLoop` | `run_simple_game_loop` with doublings, money and stock | extends `GamePhases`, `PayoutInfo` |
| `MinMax` | the four values of a line of play (`SPerMinMaxStrategy`) and the statistics of a card (`SPayoutStats`) | extends `PayoutInfo` |
| `Search` | `explore_snapshots` as a machine: a stack of calls on one set of hands, Stichs and cache | extends `MinMax`, `Trumpf`; instantiates `CardPlay`, `Payout` |
| `Suggest` | `suggest_card`: hand iterators, workers, shared statistics, choice of the card | extends `Search` |
| `GameTree` | what a suggestion promises: the value of the whole game tree | extends `Suggest` |
| `BiddingProofs`, `CardPlayProofs`, `StichOrderProofs`, `PayoutProofs`, `SuggestProofs` | theorems | extend `BiddingPhases`, `CardPlay`, `StichOrder`, `Payout`, `GameTree` |
| `GamePhasesProofs` | lemmas on the phases | extends `GamePhases` |
| `TableProofs`, `GameLoopProofs` | theorems | extend `Table`, `GameLoop`, and both `GamePhasesProofs` |
| `MCBidding`, `MCTable`, `MCStichOrder`, `MCCardPlay`, `MCPayout`, `MCGameLoop`, `MCSuggest` | constants for TLC | |

`GamePhases` is the joint: the server does not care which cards are played, only
who is asked and what follows, so `Table` is built on it, and so is `GameLoop`; and
`BiddingPhases` and
`CardPlay` show that the real phases are refined views of it
(`BidsAsGamePhases`, `PlaysAsGamePhase`). The search is the other one: it asks
`CardPlay` which cards are allowed and who wins a Stich, and `Payout` what the game
is worth, with the operators that those modules are checked by.

### Bidding
A game (Rufspiel, a Wenz, a Solo ...) is a model value with a priority
`<<class, number>>`; the derived order of `VGameAnnouncementPriority` is the
lexicographic one. A hand is the set of games that `can_be_played` with it.
`queued` is first `gameannouncements` (only those that are `Some`), then
`vecpairepirules_queued`; `finish_success` turns the first into the second by
popping the last entry. The actions are `AnnounceGame`, `FinishPreparations`,
`BidHigher`, `Resign`, `FinishDetermineRules`. `Offers` is what
`which_player_can_do_something` offers, `Accepts` the checks of `announce_game`:
they are written from two places of the code, and `OfferedIsAccepted` relates
them. `n_step` is one number for the whole rule set, as `ruleset.rs` reads it.

### Table
An action is what one task does while it holds the mutex. `on_incoming_message`
is `Proceed` (finish phases while nobody can answer, then ask), started by
`Connect` (`insert`), `Answer`, `Stoss`, `Refused`, `OtherMessage`, and by a
timer (`TimerFires`, `StaleTimerFires`). `cmd[epi]` is `otimeoutcmd`, as the
phase whose default answer it holds. The timer started with a command is running
as long as the command is stored; `stale` holds the seats for which a timer of an
*earlier* command is still running and too late to abort: either the command was
replaced without aborting its timer (`Ask`) or `abort()` came when the timer was
already waiting for the mutex (`AbortOutcomes`). A stale timer takes whatever
command it finds. `Disconnect` and `Remove` are two steps, as the receiver is
dropped when `select` returns and the table is locked again only afterwards;
asking anybody in between panics and poisons the mutex. `phase = NoPhase` is
`ogamephase = None`, between two games with seats free. Which answers are refused
is not modelled, but in which phases a seat that is asked can be refused at all:
`announce_doubling` and `confirm` take whatever it says (`CanRefuse`).

A `PlayerLogin` message changes a name only and is left out, as are money, the
text of questions and the relative numbering of seats for a client. Which game a
seat announces and which card it plays is nondeterministic; `MaxRaises` bounds
how often the bidding can be raised.

### Card play and the order of cards
`Trumpf` represents the composition of deciders as a record: the Schlaege that
are Trumpf (highest first), the Farbe below them, the order of the other cards.
`CardPlay` has one action per operation, `DoStoss` and `Zugeben`; a Stich is its
leader and its cards in order, `vecstich` ends with the current one, as in
`SStichSequence`. `AllAllowedCards` follows the code of each rule: the Rufspiel's
two functions, the Stichzwang of a Bettel, and following suit. `RunAway` is the 4
of `all_allowed_cards_first_in_stich`. `Restored` is the second half of
`zugeben_and_restore`.

### Payouts and the cache
`Payout` is a game as its cache sees it: `RegisterStich` for a Stich that ends,
`UnregisterStich` when the search (`ai/suspicion.rs` 238-248) goes back. Of the
cards it keeps who was dealt each Trumpf and the called Ass (`who_has_card`) and
the points in each Stich. Any seat may win any Stich, whatever it holds: more
lines of Stichs than real games have, all of which the payouts have to survive.
Only a Ramsch is closer to the cards, since its loser is found by his Trumpfs:
who holds no Trumpf wins only Stichs in which nobody plays one, and there are no
more of them than any seat has other cards (`TrumpfsAllow`). That is what keeps
the last `panic!` of `payoutinfos` (`rules/rulesramsch.rs` 115) out of reach when
two seats were dealt no Trumpf at all, which `SDealCards` may do. `CardsValidForSie`
says that a hand of the highest Ober and Unter is the highest part of the list of
Trumpfs. A hint is a pair of sets with at most one bound each; its
`estockaction`, which the code does not compare either, is left out.

### Game loop
`GameLoop` takes the phases from `GamePhases` and adds what run.rs keeps:
`aattable` by seat, which moves up after each game, and `n_stock`. `stakes` is 2
to the number of doublings and Stoss, the only way their number is used. A
finished game may come to any of `Prices`, for either party; that this is what
payouts are made of is `LoserPays` and `RamschSettled` of `Payout`. One seat
against three leaves the stock alone, two against two share it. Rules with a
stock and rules with a Ramsch are checked in one run: `NobodyPlays` has both.

### Suggestion of a card
A *position* (`Games`) is a game as `suggest_card` gets it: rules, hands, Stichs,
stakes and stock, the `SAi` (cheating or simulating, branches, samples), and whether
it may answer at once. `AtOnce` is what it does without a search: the only allowed
card, or the advice of `airufspiel.rs` to who leads a Rufspiel and looks for the
Rufsau. The `panic!` of that advice for too many Ruffarbe cards is unreachable: somebody
else holds the Ass and the player one more of the Farbe, which leaves two cards of a
short deck and four of a long one.

Otherwise an iterator yields hands: the true ones (`PullTrueHands`); every
assignment of the unknown cards, by `next_permutation` of the seats that get them
(`PullNextHands`, or `SkipHands` if `Compatible` refuses them); or samples of them
(`PullSample`, any compatible hands). `par_bridge` guards the iterator by a mutex, so
that taking hands is one step. Each of them becomes a task per allowed card. A
worker begins a task on its own copies (`BeginSearch`), runs the search
(`SearchStep`) and enters the result under the mutex (`EnterResult`); when nothing
is left, `SuggestBest` takes one of the cards with maximal statistics, any of them if
several are as good.

A search is a record with a stack, whose frames are the calls of
`explore_snapshots_internal` that wait for a card: `Explore` plays the next card and
registers the Stich it completes, `Return` takes back what it did and combines the
output with the best so far. The order in which the cards of a frame are tried is
nondeterministic, as is the choice of cards if only some branches are searched.
With one card on every hand the rest of the Stich is played, paid out and taken back
within one call (`PlayedToTheEnd`). `PrunedOutput` is `SPrunerViaHint`.

Averages are compared by multiplying crosswise; the code divides as `f32`, which
agrees for the sums and counts of these games, exactly representable, but could call
two averages equal that differ by less than a rounding.

## 3. What is checked

| Run | Instance | States | Shows |
|---|---|---|---|
| `bidding` | 4 seats, 6 games: Rufspiel, Bettel, two Steigern games, Tout, Sie; step 20 | 115,083 | `TypeOK` (bids of 61 to 120), `QueueShape`, `OfferedIsAccepted`, `BidsRise`, `EveryBiddingEnds`, `AuctionSpec` (refinement), `BidsAsGamePhases` |
| `table` | 3 seats, 4 peers, 2 cards each, doubling, 2 stoss, 1 raise | 845,360 | `TypeOK`, `CommandIsFresh`, `OnePlaceEach`, `OnlyLostPeersPoison`, `SeatsRotate` |
| `table_live` | 2 seats, 3 peers, 1 card each | 45,608 | `EveryGameEnds`, `WaitersAreSeated` |
| `stich_order` | all 32 cards, 3 in a Stich, 10 orders | 159,040 | `TrumpfsListedOnce`, `BestIsHighest` |
| `card_play` | 3 seats, 9 cards; every Rufspiel on every deal, 5 other games with 2 stoss on some | 884,667 | `TypeOK`, `AllowedNonempty`, `RufsauIsFound`, `RufsauIsKept`, `SuitIsFollowed`, `StichGoesToHighest`, `SearchRestores`, `PlaysAsGamePhase` |
| `payout` | 3 deals of the short deck with 6 Stichs, 1 of the long with 8; 9 contracts, price 20, extra 10, Laufende from 3 | 670,920 | `CacheIsRecount`, `PayoutKeepsHints`, `HintsNarrow`, `LoserPays`, `RamschSettled` |
| `game_loop` | 4 seats, 3 games of 1 card each, doubling, 1 stoss, 1 raise, stock of 1 and Ramsch | 2,427,162 | `AccountsBalance`, `StockCanBeShared`, `StockTakenWhole`, `OnePartyIsPaid` |
| `suggest` | short deck, 2 workers, 14 positions of Rufspiele, Solos, Wenze, Bettel and Ramsch, 2 to 6 cards on hand | 11,578 | `SearchKeepsPosition`, `SearchFindsValue`, `PossibleHandsOnce`, `HandsFitWhatWasSeen`, `EveryHandCounts`, `SureWinIsTaken` |
| `price_zero` | as `payout`, price 0 | | *violated*: `NobodyGetsNothing` |
| `table_timers` | as `table`, no answer refused | | *violated*: `OneTimerPerQuestion` |
| `table_poison` | as `table` | | *violated*: `NeverPoisoned` |
| `suggest_last_card` | one card left, asked by the subcommand | | *violated*: `SomebodyHasACard` |

Each property of a passing run has a mutant under `mutants`: a change of one
definition, as a slip in the code would make it, that TLC refutes with the same
configuration.

Why the bounds are enough. *bidding*: the program's four seats, every class of
priority, and raises by 20 from 61, so that the cap of 120 is met and missed.
Steps of another size change only how often a bid can be raised. *table*: with
one peer more than seats somebody always waits; three seats tell the first, the
last and a middle seat apart; two cards give a game more than one Stich.
*stich_order*: the loop compares the best card with the next, so three cards show every comparison it
makes after a first replacement. *card_play*: four cards of the called Farbe,
Trumpf cards and a third Farbe, with `RunAway` 2 instead of 4, so that running
away happens with hands of three. `StossBound` doubles the stakes in the other games
only, which play by the same code. Everything the run shows is proved for decks,
tables and deals of any size. *payout*: among the sums of the Stichs are 29, 30,
31, 60, 61, 75, 76, 89, 90, 91 and 120, so that every bound is met and missed by
one; a Stich without points tells Schwarz from Schneider; one deal has many
Laufende, one too few, one a seat that holds a Sie and another without a Trumpf; in
the deal of the long deck two seats share the 14 Trumpfs and two have none, and its
first Stich is worth as much as the next two, so that seats with and without a
Trumpf tie for the most points (and, if `RegisterStich` did not mind the Trumpfs, two
seats without any, which `RamschSettled` refutes).
*game_loop*: after two games the stock can be empty, filled once or twice or
doubled, and the third takes it, adds to it or leaves it; odd prices would show a
stock that cannot be halved. The loop does not look at cards, so one each is
enough. Its properties are proved for every price and number of games. *suggest*: the
program searches all hands with up to four cards and prunes above three; hands of
the short deck have six cards, and `AllHandsUpTo` 3 and `NoPruningUpTo` 1 bring both
limits into the range where game trees are small. The positions are taken from
games that were dealt and played by the rules, most of them in the fifth of six
Stichs, chosen so that something can go wrong: in some the four values differ, in
some hands are impossible because of a card played earlier, in two Bettel the hints
prune, in two a sure win competes with a better average. A search touches nothing
but its own copies, so `OneSearchAtATime` completes one before the next begins;
finished results still wait for each other and for further hands (`TasksAhead` 0:
hands are taken when no task waits).

Fairness. `Bidding` assumes that somebody always moves on: the loop waits for the
player it asks, the server answers by timeout. `Table` assumes only that timers
end (`STimerFuture` starts a thread that sleeps two seconds) and that a task whose
connection ended removes its peer. No fairness is assumed of players. A refused
answer restarts the timer of its own question, and nothing stops a player from
repeating it for ever; the liveness run therefore has no refused answers
(`MayBeRefused = FALSE`), and the safety runs have them. Its conclusions also
allow that the table is poisoned.

### Findings
1. **Timers of replaced commands** (`websocket.rs` 471-481): the comment says
   "only one active timeout cmd", and that is true of the command but not of the
   timers. A message that answers nothing (from a seat that is not asked, or of
   another kind), or somebody else's confirmation of a result, asks the same seat
   again; its command is replaced (477) without aborting the timer, which runs on and
   takes the *new* command before that one's two seconds are over. A timer that was
   aborted too late does the same. TLC needs three peers who sit down and one such
   message. `CommandIsFresh` shows that nothing worse happens: the answer always fits
   the question.
2. **A lost peer poisons the table** (`websocket.rs` 253, 813-815): between the
   end of a connection and the removal of its peer any message or timer makes
   `unbounded_send` fail, its `unwrap!` panic and the mutex unusable.
   Of the panics that `Table` has, the other being the assertion on the commands,
   `OnlyLostPeersPoison` shows this to be the only one reached. It does not look into
   the games: a failing assertion of theirs (finding 3) loses the table as well.
3. **A price of 0** (`rules/rulesrufspiel.rs` 102): `payoutinfos` asserts that
   nobody gets nothing, but a file of rules may name the price 0
   (`rules/ruleset.rs` 75). A Rufspiel without Schneider, Schwarz and Laufende then
   panics when it is paid.
4. **The last card** (`rules/mod.rs` 323): `suggest_card` of the AI answers at once
   when one card is allowed, but the subcommand `suggest-card` searches even then
   (`subcommands/suggest_card.rs` 31: "we are interested in payout =>
   single-card-optimization useless"). Asked for the very last card of a game, the
   search plays it, finds empty hands and an empty Stich, asks a seat for its allowed
   cards and runs into the assertion that its hand is not empty. The branch meant for
   the end of a game (`ai/suspicion.rs` 213) waits for a current Stich of full size,
   which `SStichSequence` never has.

## 4. What is proved

The theorems hold for any number of seats, peers, games, prices and cards - for the
four seats of the program where payouts are concerned - under the named assumptions
of the modules. Every invariant and every action property that a run checks of the
bidding, the table, the game loop, the card play, the order of the cards and the payouts
is one of them, and so are the two step-by-step refinements of `GamePhases` and the one
of `Auction`.

*Bidding* (`BiddingProofs`, from `ConstantsAssumption` and `SeveralSeats`). `TypeOK` is
inductive once `PricesOf` is part of it: `HigherPrio` shows that an offered price is one
the rule set can yield and beats the standing bid. `QueueShape` is inductive relative to
`TypeOK`; it is what makes `EBid` mean the right thing, and from it follow
`OffersAccepted`, `BidsAlwaysRise` and the refinement `ImplementsAuction`: the last
entry of the queue is the highest remaining contender, because everybody below the
challenger waits in seat order. For the same reason the contenders without the leader
are the seats in the queue, so that a table that computes the next question from them
alone asks whom the queue asks, and sees the bidding end where it ends
(`BiddingIsGamePhases`).

*Phases* (`GamePhasesProofs`, from `PhasesAssumption`). A phase that `finish` or an
answer leads to has one of a few shapes (`Outcomes`, `Questions`), among them that
only `GameResult` asks several seats. Settling ends in a question or between two games
(`SettledIsQuestion`), an answer is the outcome of a phase again (`AnswerOutcome`). The
server and the loop both rest on this.

*Table* (`TableProofs`, from `PhasesAssumption` and `TableAssumption`). The inductive
invariant `IInv` says that the phase is a question or none, that the commands are
exactly those of the question, and that a poisoned table has a lost peer. Where
`GameResult` asks several seats, whoever answers leaves the other commands
valid. From `Compatible` commands (each belongs to a seat that will be asked, in a
phase of the same kind) asking again yields fresh ones and the assertion of
`ask_with_timeout` holds. `PInv` adds the places: no peer on two seats, twice in line or
both, those on a seat or in line are the connected ones, and between two games nobody
waits and a seat is free - the last of which `insert` relies on, as it never looks at the
line. `OnePlace` says it of seats and a line given as parameters, because `next_game`
goes through several: everybody moves up (`RotationKeepsPlaces`), then the line fills the
free seats, which are numbered one to one with its first places (`RanksOfSeats`,
`FillingKeepsPlaces`). From it follow `EverybodyHasOnePlace`, `TypeCorrect` and
`SeatsAlwaysRotate`: whichever step ends a game, everybody moves up by one and nobody
is overtaken in line. The latter needs that what an answer leads to within a game never looks
like the first question of the next one (`NoSecondBeginning`).

*Game loop* (`GameLoopProofs`, from `GameLoopAssumption`). Of
any payout the total is 0, the whole stock, or minus it (`PayoutsMoveStock`):
`InternalPayout` adds up to 0 for one seat against three (`Payout13`) and two
against two (`Payout22`), stakes multiply it (`RaisedStakes`), and two seats take or
give half of an even stock each (`SharingTheStock`); that a seat's own partner is
another seat is what makes it two. Refused games put in four equal payments
(`StockPayoutTotal`). So every step keeps the accounts (`ApplyKeepsAccounts`):
money and stock add up to 0, and the stock is even and not negative, which is
inductive together. From it follow `AccountsAlwaysBalance`,
`StockCanAlwaysBeShared` and `StockIsTakenWhole`. `LoopInv` adds that the loop is always
at a question or at its end (`LoopIsAsking`), never at a phase that nobody can answer:
`TypeCorrect`. `OnePartyAlwaysPaid`: after every game those who have more money than before are one
of its parties, or one or three seats if nobody played. Stakes and stock keep the sign of what a seat gets (`StakesKeepSign`);
and as the money moves along with the players, it takes that no two places belong to
one player (`SeatsInv`).

*Card play* (`CardPlayProofs`, from `CardPlayAssumption`: the seats are dealt disjoint
hands of the same size, which are the deck; the called Farbe is not the one that is Trumpf
and its Ass is in the deck - the `assert_ne!` of `rules/rulesrufspiel.rs` 27). The module
has four parts, as the invariant grows.
- `IInv`. The order of the cards is transitive for every decider
  (`LessIsTransitive`), although cards that are neither Trumpf nor of one Farbe do not
  compare. So the loop of `preliminary_winner_index`, which compares the best card so far
  only with the next one, holds a card that no other one of the Stich beats
  (`LoopFindsBest`); the induction over the Stich is made by looking at the first card
  at which it would fail. `IInv` says that the Stichs are complete but for the last, that
  winners lead and that a hand holds what is left of the equal shares: only then is the
  hand of who is asked not empty (`SomethingIsAlwaysAllowed`). `HighestAlwaysWins`.
- `FInv` adds, for every card in a Stich, that its player followed or had
  nothing to follow with (`Followed`) and when the Rufsau may have been given (`Kept`).
  Both speak of the place of a card in its Stich, which does not change any more, instead
  of hands, which do; what the hands were is the cards given later and those still held.
  `NobodyRevokes`, `RufsauWaits`; and a card taken back leaves the game as it was
  (`SearchComesBack`).
- `DInv` adds that what a seat holds and what it gave make up the hand it was
  dealt (`NoCardLost`). With it come `TypeCorrect` and `GameIsGamePhase`, that a game is
  the `Game` of `GamePhases`: the number of cards given there is the size of a Stich times
  the Stichs completed plus the current one.
- `RInv`. `RufsauIsFound` is not inductive: while its Stich goes round, the
  holder of the Rufsau may not have had the turn. `Found` adds this third case, and that
  the holder then gives it: `TheRufsauIsFound`.

*Order of the cards* (`StichOrderProofs`, from `StichOrderAssumption`, for every decider).
`compare_cards` and `trumpfs_in_descending_order` are two descriptions of an order. They
are joined by the `Place` of a Trumpf, a number computed from the card alone: the list has
the card there (`ListedAtPlace`) and is no longer than the places (`ListByPlace`), which
gives `EveryTrumpfListed`; and of two Trumpf cards the one with the lesser place is the
higher (`LessByPlace`). Other cards compare by their Farbe alone (`LessOfOthers`). Each
turn of the loop of `preliminary_winner_index` then keeps `BestOf`, that the best card is
the first of the list among the cards seen or the highest of the Farbe that was led
(`OneCardMore`): `HighestCardWins`, for a Stich of any size.

*Payouts* (`PayoutProofs`, from `PayoutAssumption`). The sums of the model are folds
over sets, which take out their elements in an order of their own; `SumWithout` shows that
any element may be taken out first, `SumOfUnion` that parties add up. `PInv` says that the
cache is what a recount of the Stichs yields and that every `SUnregisterStich` on the
stack holds the winner of its Stich and the points that this seat had before. The second
part is what makes the first inductive, as `unregister_stich` does not recount:
`CountsAgree`. From it and the 120 points of a deal
come the totals of the parties (`PartyTotals`). They only grow (`RegisterOnlyAdds`), so
that hints only narrow (`HintsOnlyNarrow`), and of a finished game they are what its payout
is computed from, so that the last hints contain it (`HintsAreKept`). `LosersPayTheirLevel` counts Schneider and Schwarz from the side
of who lost, `RamschIsSettled` finds one loser, or one seat that made them all, for every
tie of a Ramsch and every deal. The case in which `payoutinfos` would panic, two seats
without a Trumpf that tie for the most points, needs an invariant of its own, `RamschInv`:
the deal has all Trumpfs of a Ramsch, and the Stichs of the seats without one are no more
than any seat has other cards. If two seats have no Trumpf, the other two hold all of them,
so that one of these has at most one other card (`TwoHoldAllTrumpfs`); then there is at
most one such Stich, while whoever has most points has won one (`MostPointsWonStich`), and
the two would have won two (`OneWithoutTrumpf`).
`EverybodyGetsSomething` is the assertion at the end of `payoutinfos`. It and the three
theorems on payouts before it assume `0 \notin PricesInFile`: with a price of 0 the
assertion fails, which is finding 3, and the code gets no further.

*Suggestion of a card* (`SuggestProofs`, from `SuggestAssumption`: four seats, a finite
deck, positions with rules and contracts that exist). Four invariants build on each other.
- `PulledInv`: what the iterators give is always a distribution of the cards that were not
  played, with the right number for every seat. It holds for the first order of the seats
  and is kept by `next_permutation` (`NextPermutationIs`), holds for every shuffle
  (`DealingsAreGood`) and for the true hands. The filter adds that every card was allowed
  when it was played, and a card that was allowed with these hands says what hands can be:
  `NoHandContradicts`.
- `OrderInv`: where all hands are searched, those that were pulled are the ones that were
  tried and passed the filter, each once (`TriedHands`). An order of the seats is tried
  before another if it is less where they first differ (`Lex`); `next_permutation` leads to
  a greater one (`NextPermutationIs`), leaves none out (`NoneBetween`), begins with the least
  (`FirstArrangement`) and ends with the greatest (`LastPermutation`). Different orders deal
  different hands (`HandsOfDiffer`), and every hand of the right size is dealt by one
  (`EveryDealIsArranged`): `PossibleHandsAreSearchedOnce`.
- `SearchInv`: `explore_snapshots` plays and takes back on one set of hands, Stichs and
  cache, and keeps no history. The proof gives it one: the positions from the one where it
  began to the one where it is (`OnLine`), each one card after the one before (`Moves`), and
  in each waiting call the card, and the points that the winner had before, that lead from
  its position to the next (`Leads`). Playing a card makes the line longer by a position that
  keeps what `PositionKept` says (`MoveKeeps`), and what a call takes back leads to the
  position before, also across the end of a Stich, where the winner's cards and points have
  to come back (`TakenBack`): `SearchesKeepPosition`. The same line carries the values: every
  output that a call holds or returns is ordered for the player that is searched for, whether
  it was played to the end, pruned by the hints, or combined (`ValuesAreOrdered`, the first
  part of `SearchFindsValue`).
- `CountInv`: which hands are done for a card is not in the state either. The proof keeps
  for every worker the place of its hands among those that were pulled (`at`) and for every
  card the values found so far (`found`). The hands that are done for a card are those for
  which neither a task waits nor a worker searches (`Done`), and the statistics count exactly
  these (`Counted`). Pulling hands, taking a task and a step of a search leave `Done` as it
  is, entering a result adds one hand and its value (`DoneWithResultEntered`,
  `CountedOnceMore`); so however the workers take turns, when a card is suggested every card
  counts all hands once (`EveryHandIsCounted`). That the statistics are also those of the
  *right* values is proved on the condition that every search finds its value
  (`FoundValuesCount`: `[]SearchFindsValue` implies `[]EveryHandCounts`); that it does is
  model-checked.

*Values and statistics* (`SuggestProofs`, for all payouts and counts). One step of
`combine_outputs` takes for `t_min` and `t_max` the lesser
and the greater value where another seat plays, and the greater of all where the
player does (`CombineIsMinimax`); so the four values of a search stay ordered however
they are combined, `t_min` lowest and `t_max` highest (`NewFinalOrdered`,
`CombineKeepsOrder`) - the two selfish values are not ordered between themselves, and
the theorem does not say so. `accumulate` is commutative and associative, so the order
in which workers get the mutex is irrelevant (`OrderOfWorkersIsIrrelevant`); the average
lies between the worst and the best case (`AverageIsBounded`). The comparison of cards
is a weak order (`StatsLessIsWeakOrder`), as `max_set_by_key` needs it, and no card that
may lose beats one that wins with every hand (`SureWinBeatsAll`) - both for statistics
of the same number of hands (`SameHands`), which the workers' statistics are
(`EveryHandIsCounted`).

Only model-checked: liveness, which is out of reach of the prover (`EveryBiddingEnds`,
`EveryGameEnds`, `WaitersAreSeated`), and of `Suggest` two properties:
`SearchFindsValue`, whose value is a recursion over the whole game tree, and
`SureWinIsTaken`, which follows from it.

## 5. Not modelled

Parsing (cards, rule sets, hand constraints), the text and web interfaces, logging,
analysis of recorded games: they read, print and draw. Of the AI: `rank_rules`, which
averages the same search over random hands; the pages that visualise a search; the
constraints on hands and the options of the subcommands. Of the server: money, names
and the text of messages. The players' own choices, which the models leave open.

## 6. Plan

Done: the bidding, the phases, the table of the server, the order of the cards, the
card play, the payouts with their cache, the game loop, and the suggestion of a card
with its search; theorems about every safety and action property of these modules but
two of the search.

Left:

1. A theorem about `Suggest`: the value of the game tree (`SearchFindsValue`), with which
   `FoundValuesCount` loses its condition and `SureWinIsTaken` follows.
2. The money of the server: payouts to occupied seats and the stock (`websocket.rs`
   445), which `Table` leaves out.
