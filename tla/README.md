# PokaiEngine: a TLA+ model

PokaiEngine is a server on which bots play no-limit Texas Hold'em against each
other. This directory holds TLA+ modules translated from its source, the TLC
configurations that check them on small instances, and proofs, checked by
TLAPS, of what holds for every instance. `PROJECT.json` maps every definition
to the lines it models, and lists runs, mutants, findings, hazards and theorems.

## 1. Inventory

| component | state | operations | interacts with |
|---|---|---|---|
| `PotManager` | array of pots | `addBet`, `createSidePots`, `simulateDistribution`, `reset` | called by GameState and GameEngine |
| `GameState`, `Player` | seats, button, phase, turn, minimum raise; stack, bets and flags of each player | `startNewHand`, `advancePhase`, `setNextPlayerToAct`, `processBet`, `processBlind`, completion tests | called by ActionValidator and GameEngine |
| `ActionValidator` | none | `getPossibleActions`, `validateAction`, `processAction`, `processBlindPosting`, `getForceAction` | reads and changes a GameState |
| `GameEngine` | a GameState, `isGameRunning` | `addPlayer`, `removePlayer`, `startHand`, `processAction`, `forcePlayerAction` | events to the GameController, synchronously |
| `Deck`, `Card`, `HandEvaluator` | cards left, cards dealt | shuffle, deal, burn, evaluate | GameEngine |
| `GameController` | games, player directory, unseat requests, hand start and cleanup timers | create, join, leave, unseat, start, remove, timer callbacks | engines, SocketHandler, server, ReplayManager |
| `SocketHandler`, `BotInterface` | connections, turn timers, subscriptions, games watched | identify, join, act, leave, disconnect, time out; watch, stop watching | GameController, BotAuthService |
| `BotAuthService`, model `Bot` | cache of bots with expiry | register, validate, revoke, suspend, reactivate, new key | MongoDB |
| `GameReplayRecorder`, `ReplayManager`, `ReplayAnalyzer` | recordings | start, record, end, analyse | ReplayStorage |
| `ReplayStorage`, `ReplayService`, `ReplayRepository`, `DatabaseConnection` | files, documents, connection | save, load, connect with retries | file system, MongoDB |
| `ReplaySystem` | a loaded replay | load, analyse | GameController |
| server, dashboard | the replay player of the dashboard | HTTP routes; open, play, pause, seek, close | all of the above |

What is hard here:

* **Long sequences of legal calls.** A hand is a sequence of calls on one mutable
  table, and the table is reused for the next hand. What one hand leaves behind
  (turn pointer, last raise, broke players) is read by the next.
* **Side pots and odd chips**: rebuilt after every round from the bets of the
  whole hand, while new bets are added to the first of them.
* **The same rule written twice**: what is offered and what is accepted; nine
  checks that rank a hand and the rules of poker.
* **Interleaving on one thread**: requests, two kinds of timers per game, turn
  timers, events delivered inside engine calls, and `await` points: `removeGame`
  waits for the replay to be saved, a login for the database, a save for up to
  five requests of which each may fail or lose its answer.
* **Copies that go out of date**: the cache of bots, the clone of a recording
  that is being saved, the screen of a spectator, the handler a connection
  remembers.
* **Progress**: a hand ends only if each turn passes to somebody who can act,
  or the rest of the hand is dealt when nobody can; a game is gone only when its
  save answers; a revoked bot is refused only when the cache forgets it.

Correctness, component by component: pots keep the money and pay everybody what
he is due; a table conserves chips, never passes a street with an unmatched
bet, gives the turn to somebody who owes an answer, offers only what it
accepts, and ends every hand; no card is in two places and hands are ordered by
the rules; the controller's directory agrees with the seats, nothing is kept for
a game that is gone, and requests to leave are honoured; the player on turn is
timed, and nobody is forced to act by a timer of another turn; a spectator hears
what he watches, sees the present state, and leaves nothing behind; the cache of
bots holds what is stored, and a bot that stays revoked is refused; a game going
on is recorded, a removed one can be read, and what is stored stays stored; a
replay that plays comes to its end.

## 2. The modules

```
PotManager ── GameState ── ActionValidator ── GameEngine ── MCGameEngine
     │                                            │  implements
     ├── PotSettlement (pots against a reference) └─ ChipLedger (abstract)
     └── PotManager_proofs ── GameEngine_proofs, Showdown_proofs
HandEvaluator ── Dealing ── MCDealing, Showdown_proofs
GameController ── GameController_proofs
SocketHandler ── MCSocketHandler, SocketHandler_proofs
Spectators ── MCSpectators, Spectators_proofs
BotAuthService ── BotAuthService_proofs
ReplayPipeline ── ReplayPipeline_proofs
ReplayViewer ── MCReplayViewer, ReplayPipeline_proofs
```

`Showdown_proofs` and `ReplayPipeline_proofs` extend two components each, so the
definitions of `Dealing` and `ReplayViewer` have names of their own
(`DealingSpec`, `ViewerSpec`).

**PotManager** (`PotManager.ts`). Pots are a set of records with the bet level
they were built for, in place of an array sorted by that level. `createSidePots`,
`addBet`, `rebuildMainPotWithCorrectEligibility` are operators from pots to
pots; `Recipients`, `Share` and `Winnings` are the three parts of
`simulateDistribution`, and `HasOrphanPot` is the condition of its `throw`.
`distributePots` and the variants that take positions have no caller in the
engine. Sums are cardinalities of sets of chips (`Total`), which the theorems
on finite sets can reason about; no operator is recursive.

**GameState** (`GameState.ts`, `Player.ts`). A table is a record, a method that
changes it an operator from tables to tables. Abstracted: cards, names,
statistics, last aggressors, labels of positions other than the blinds (these
are recomputed after each change in the code, so they are operators here).

**ActionValidator**. `getPossibleActions` gives the offered actions with every
amount of the offered ranges; `validateAction` is TRUE where the code returns
and FALSE where it throws. Amounts are whole chips.

**GameEngine**. Variables: `game`, the table with the flags `gameRunning` and
`thrown` (the last accepted call ended in an exception after it had changed the
table), and `bankroll`, a history of the chips brought and taken away. Actions:

| action | code |
|---|---|
| `AddPlayer`, `RemovePlayer`, `StartHand` | `addPlayer`, `removePlayer`, `startHand` with dealing and blinds |
| `ProcessAction` | `processAction`: validate, apply, next player; then `completeBettingRound` with its run-out loop, the showdown, the payment and `completeHand` when the round or hand is over |
| `ForcePlayerAction` | `forcePlayerAction`, called by the turn timer of the SocketHandler |

Each is one step because the code has no `await` in it. Calls that are refused
before anything changed are no steps. At a showdown the hands are ordered in
every way, ties included; which cards make which order is the matter of
`Dealing`. The constant `Liberties` says what callers do: send actions they were
not offered (`unoffered`), cash out between hands (`cashout`), leave during a
hand (`leave`), start a hand over a running one (`restart`). The code guards
against none of them. The proofs cover all.

**ChipLedger** is the promise about money without cards, streets or turns:
stacks and stakes, and a settlement that pays out what was staked, nobody more
than his own stake matches of every other. `GameEngine` implements it with
`stack <- chipStack`, `stake <- totalBetThisHand` during a hand, `playing <-
gameRunning`. (The refinement mapping drops stakes after the hand, where the
code keeps the counters until the next hand resets them.)

**PotSettlement** drives the operators of PotManager by bets in any order,
folds and rebuilds, and compares the payment with a definition that knows no
pots: chip `u` of every stake goes to the best hand among those whose stake
reaches `u`, divided into equal parts. So that the division leaves nothing, a chip
counts as `Parts` parts, a number that every possible number of winners divides
(`PartsAssumption`; 6 for the three players of the run).

**HandEvaluator** has each of the ten checks of `HandEvaluator.ts` as an operator
on a set of cards, whose value is the number `calculateHandValue` computes or
`NoHand` where the code returns null. The base of that number is the constant
`Radix`: 100 in the code and 15 in the run, since TLC's integers have 32 bits. That
any base above the ranks gives the same order (`RadixAssumption`) is proved. The
deck has ranks 2 to 14 in at most four suits (`DeckAssumption`), as the types of
`types/index.ts` say. **Dealing** has the
deck as the array of the code and the actions that deal from it (`StartHand`,
`DealFlop`, `DealTurn`, `DealRiver`), `FoldCards`, and `Showdown` with
`evaluateHands`. Its reference, `RuleStrength`, ranks a hand by the shape of its
groups and shares no check with the evaluator.

**GameController**. Variables are the maps of the class; an engine is reduced to
who is seated, who has no chips, whether a hand runs and whether the phase is
HandComplete. `removeGame` is two actions, `RemoveGame`/`CleanupTimerFires` up
to the `await` and `ReplaySaved` after it; up to `MaxRemovals` calls for each
game and origin are in flight. `HandCompletes` is the delivery of
`hand_complete` with the removal of broke players that follows it in the engine.
An exception in a timer callback is not caught anywhere
(`HandStartTimerThrows`): Node ends the process, and the next one starts empty.
The seat limit and invalid buy-ins are refused by the engine like a running hand
and have the same effect on the controller, so the running hand stands for them.

**SocketHandler**. Variables are the connections, the number of handlers of each
connection that a game calls, the turn timers, and of GameController and
GameEngine what decides who is told what: seats, who can act, whose turn it is,
the directory and the unseat requests. The value of a timer says what it was
started for: `current` for the present turn of its player, `stale` for anything
else, `refused` if a refused submission cleared it. The turn goes to any player
who can act, so every order of play of GameEngine is among the behaviours. Events
are delivered inside the engine calls that emit them: `TurnEvent` is the
delivery of `hand_started`, `action_taken` and the streets, `EndEvent` of the end
of a hand.

| action | code |
|---|---|
| `Connect`, `Login`, `Reconnect` | `handleConnection`, `handleAuthentication` (its answer may come after the socket closed), `handleReconnection` |
| `JoinGame` | `handleBotIdentification`: return of a known player, or a seat, with the hand that the join may start before the subscription |
| `SubmitAccepted`, `SubmitRefused`, `TurnTimeout` | `handleBotAction`, `handleTurnTimeout` with the events of the action |
| `LeaveGame`, `UnseatRequest`, `Disconnect` | `handleLeaveGame`, `handleUnseatRequest`, `handleDisconnection` |
| `StartHand` | `startHand` from the hand start timer or the dashboard, also over a running hand |

A socket never comes back after `disconnect`: Socket.IO gives the bot a new
identifier, and identifiers are the players, so the `system.reconnect` message
only ever comes from a socket that is connected.

**Spectators** composes the spectator half of SocketHandler with the
subscriptions and removals of GameController and what decides which hole cards
are shown. A handler is a pair of a client and a number; a connection remembers
at most one, `handleStopSpectating` unsubscribes it with the last game watched,
and `removeGame` drops all handlers of a game while connections go on watching
its name. A view is the last state a client received: the events of a hand are
followed by one (`HandEvent`), `player_joined` and `player_left` are not
(`SeatEvent`). Clients in `OneAtATime` watch as the dashboard is written to;
the others send what they like.

**BotAuthService**. Every operation is cut at its awaits: `Request`, `Validate`
or `GetBot` sends, `Find` and `Save` are the database, `LookedUp`, `Edit` and
`Saved` resume. A document is a copy; `save()` writes the fields that were
changed (`Stored`), the unique index on `botId` refuses a second registration
(`Duplicate`), a request may fail (`Fail`) or be executed and lose its answer
(`LoseAnswer`). Keys stand for their hashes; `Expire` is the passing of
`CACHE_TTL`. The history variable `excused` marks entries that were out of date
when they were cached or whose update lost its answer.

**ReplayPipeline** composes recorder, ReplayManager, ReplayStorage, ReplayService,
repository and connection with the calls of GameController and the server.
The recorder is synchronous (`startRecording`, `recordEvent`, `endRecording`,
`manageMemory`); a save writes the file and then makes its requests one at a time
(`GetReplay`, then `CreateReplay`, or `AddEvents`, `Push`, `FindAgain`,
`UpdateAnalytics`). Faults: the file cannot be written, the database never
connects (ReplayStorage then gives it up for good), breaks off and comes back, a
request fails or loses its answer. An event is its `sequenceId`.

**ReplayViewer** is the replay player of the dashboard: clicks, the fetches they
start, and the callbacks of `setInterval`. An interval is kept nowhere and reads
`this.replayPlayer` when it fires, so intervals are only counted; a click runs
its handler once for each time `setupReplayEventListeners()` has run.

The `MC` modules add symmetry sets and values of constants only.

## 3. Runs

Engine runs have blinds 1 and 2.

| run | instance | checks | distinct states |
|---|---|---|---|
| `EngineAccepted` | 3 players, 3 chips each, any accepted action | `TypeOK`, `ChipConservation`, `PotsHoldTheBets`, `BetsMatched`, `EvenStakes` | 68,093 |
| `EngineOffered` | 3 players, 3 or 4 chips, 10 in all, offered actions | `TurnOwed`, `OffersAccepted`, `NeverThrown`, `StuckOnlyFromBlinds`, `LedgerSpec` | 113,915 |
| `EngineLiveness` | 3 players, 2 chips each, turn timer fair | `HandEnds` | 40,408 |
| `PotSettlement` | 3 players, up to 4 chips each | `PotsKeepTheMoney`, `PaysWhatIsDue`, `FailsOnlyOnUncoveredFold` | 10,099 |
| `Dealing` | 3 players, 52 cards, 180 shuffles | `RankedByTheRules`, `EveryCardOnce` | 5,940 |
| `ControllerSafety` | 2 games, 2 players, fair timers | `TypeOK`, `SeatedIsMapped`, `NothingOutlivesItsGame`, `TimerThrowsOnlyMidHand`, `UnseatHonoured` | 205,385 |
| `SocketSafety` | 2 games, 2 bots, 2 handlers per bot and game | `TypeOK`, `TurnIsTimed`, `NoEarlyTimeout`, `ClosedIsSilent` | 1,518,501 |
| `Spectators` | 2 games, 2 players, 2 clients, 2 handlers per client and game | `TypeOK`, `ViewIsCurrent`, `NothingLeftBehind`, `HeardWhileWatched` | 1,461,691 |
| `BotAuth` | 1 bot, 3 keys, 2 calls at a time | `CacheIsCurrent`, `KeysAreKept`, `RevocationTakesEffect` | 1,174,050 |
| `Replay` | 2 games, 1 replay in memory, 2 saves at a time, 4 events, 1 save by the route, 1 attempt to connect | `GoingOnIsRecorded`, `RemovedIsReadable`, `ReportedIsStored`, `StoredIsKept`, `RemovalEnds` | 978,808 |
| `Viewer` | an empty replay and one of 3 events, 9 clicks | `ViewerTypeOK`, `PlayingHasInterval`, `PlaybackEnds` | 34,696 |
| `ControllerCleanupRace` | 1 game, 2 players | `CleanupEvictsNobody`, violated | |

The longest take one to two minutes. Each property has a mutant in
`PROJECT.json`: a change of a modelled definition that makes TLC find it violated.

**Bounds.** Three players are the least with side pots, multiway turn order, a
button that skips and a table that shrinks to heads-up. Stacks of three chips
are one and a half big blinds at the start, but winners go on with up to nine
against short stacks, so complete and incomplete raises, short blinds, two side
pots and odd chips all occur. `MaxBankroll` bounds the chips at the table at any
time; the number of hands is not bounded. Symmetry over players is sound because
only the seats order them.

The shuffles of `Dealing` take every n-th card of the sorted deck after a cut;
the steps and cuts were chosen so that all nine categories are shown down,
straights with the ace at both ends, ties and kickers among them. This is a
sample of the 52! orders; every one is used for any hand.

With two games a player can be in the directory of one and the removal of the
other be in flight, and a bot play in one and have left a handler in the other
(`MaxHandlers` 2 lets one be forgotten while another is unsubscribed); that a
hand ends there while the bot is on turn here takes three bots, which only the
proof covers. Two spectators, one well-behaved and one not, with two handlers
each reach the handler that stays behind and is called again.

Bots share nothing in `BotAuthService`, so one suffices, and two calls at a time
race in every pair; three keys leave a fresh one while two are in use. In
`Replay` two games against a limit of one make `manageMemory` evict, and two calls
are a removal against a removal, a save by the route, or a save of another game;
four events are two games created and ended, or one that is recorded, saved and
created again. One attempt to connect is as good as three, since nothing but the
last failure is seen. Nine clicks open a replay three times, start and stop
several intervals and close the viewer on them.

Deadlock is checked in `ControllerSafety`, `Spectators`, `Dealing` and `BotAuth`.
It is not where the system may stop: the engine, where a hand that nobody can act
in waits for ever (below) and an empty table whose players brought all that
`MaxBankroll` allows is at rest; `PotSettlement`, where a settled hand is the
end; the connections, whose sockets are used once; the replays and the viewer,
whose events and clicks are bounded.

**Fairness.** `HandEnds` assumes that the turn timer of whoever is to act fires
(`startTurnTimer` arms one on each turn): the fairness of the action
`TurnTimer`, with its enabling condition written out. It thus speaks of bots that
stay connected and whose submissions are accepted, for which `TurnIsTimed` shows
the timer to be there: a disconnection and a refused submission clear it.
`UnseatHonoured` assumes that timers fire, that a running hand ends, which is
`HandEnds`, and that saving a replay ends, which is `RemovalEnds`. `RemovalEnds`
assumes that a request is executed or fails (`RequestFails` is always possible:
the driver has time-outs) and that the event loop resumes the call; nothing is
assumed of the connection. `RevocationTakesEffect` assumes the same of requests,
and that time passes, so entries of the cache expire. `PlaybackEnds` assumes that
intervals fire and fetches answer or fail.

### A disagreement with a run

`ControllerCleanupRace`: a player who joins while the cleanup waits for the replay
is removed with the game, although the callback is to "Double-check game is still
empty before removing" (`GameController.ts:735`).

### Other disagreements met

Each of these follows from the modelled actions and is recorded here without a
run of its own.

* Both blinds of a heads-up hand all-in: nobody can act, no street is dealt, the
  hand stays open, against the test "should auto-complete all streets when
  everyone is all-in" (`GameEngine.test.ts:693`). `StuckOnlyFromBlinds` has it as
  its only exception.
* Folding when a check is free is accepted though not offered; if the player had
  put in most, his top layer is a pot without winner and the showdown throws
  (`PotManager.ts:364`). `FailsOnlyOnUncoveredFold` characterises it.
* A refused submission has already cleared the turn timer, and nothing starts it
  again (`SocketHandler.ts:315`): an exception of `TurnIsTimed`.
* A hand start timer that fires into a running hand purges its all-in players and
  may throw out of the callback. `TimerThrowsOnlyMidHand` says it throws only then.
* The turn pointer is not cleared between hands, so from the second hand on the
  big blind may open a heads-up hand, against `GameEngine.ts:100`; leaving during a
  hand (liberty `leave`) loses the chips already bet when the pots are rebuilt, and
  with four players or more it can make the showdown throw: who raised leaves after
  another has folded to the raise, and those still in, all-in for less, cover
  neither.
* A hand that ends at a table a bot was unseated from clears its timer at the next
  table; `requestUnseat` tells "no hand is running" by the phase, which is not
  HandComplete before the first hand or after a hand won by folds, so such a
  request waits for the end of the next hand; and a table that `completeHand`
  empties after the last unseat request is never scheduled for the cleanup.
* A revoked bot can be suspended and then reactivated, since `suspendBot` does not
  look at the status; `reactivateBot` refuses a revoked one ("Cannot reactivate a
  revoked bot", `BotAuthService.ts:214`).
* A second save of a game pushes every event again ("Update existing replay with
  new events", `ReplayStorage.ts:521`), so stored replays hold duplicates, and the
  stored count may be that of an earlier save.
* What happens at a table while its removal waits is not in the saved replay.
* A spectator of two games leaves a handler behind when it stops watching, and is
  sent events twice when it watches that game again; a game created again under
  the name of a removed one is watched and not heard.
* A hand won by a fold on the river ends in the phase Showdown, so the cards of the
  winner are shown.
* The dashboard emits `spectatorAuth` and `spectate`; the server listens for
  `spectator.auth` and `spectator.watch`
  (`docs/SOCKET_EVENT_NAMING_CONVENTION.md:113`).
* The listeners of the replay viewer are added on every opening ("Set up event
  listeners if not already done", `dashboard.js:1539`), so a click on play may
  toggle twice; a late answer opens its replay over the one shown; and intervals
  left by a closed viewer throw until another is opened.

## 4. Proofs

| theorem | statement |
|---|---|
| `GameEngine_proofs!TypeCorrect` | `Spec => []TypeOK` |
| `GameEngine_proofs!BetsAreMatched` | `Spec => []BetsMatched` |
| `GameEngine_proofs!StakesAreEven` | `Spec => []EvenStakes` |
| `GameEngine_proofs!PotsAreFunded` | `Spec => []PotsHoldTheBets`, if `"leave" \notin Liberties` |
| `GameEngine_proofs!ChipsAreConserved` | `Spec => []ChipConservation`, if `Liberties` has neither `leave` nor `restart` |
| `GameEngine_proofs!OffersAreAccepted` | `Spec => []OffersAccepted`, if not `leave` |
| `GameEngine_proofs!NoCallThrows` | `Spec => []NeverThrown`, if neither `unoffered` nor `leave` |
| `GameEngine_proofs!TurnIsOwed` | `Spec => []TurnOwed`, if neither `unoffered` nor `leave` |
| `GameEngine_proofs!OnlyBlindsGetStuck` | `Spec => []StuckOnlyFromBlinds`, if `Liberties \subseteq {"cashout"}` |
| `GameEngine_proofs!ImplementsLedger` | `Spec => LedgerSpec`, if `Liberties \subseteq {"cashout"}` |
| `Showdown_proofs!MoneyStaysInPots` | `Spec => []PotsKeepTheMoney` |
| `Showdown_proofs!FailsForUncoveredFolds` | `Spec => []FailsOnlyOnUncoveredFold` |
| `Showdown_proofs!EverythingIsPaid` | `Spec => [](stage = "paid" => Total(paid) = Total(totalBet))` |
| `Showdown_proofs!EverybodyIsPaidHisDue` | `Spec => []PaysWhatIsDue` |
| `Showdown_proofs!CardsAreDealtOnce` | `DealingSpec => []EveryCardOnce` |
| `Showdown_proofs!EvaluatorFollowsTheRules` | `DealingSpec => []RankedByTheRules` |
| `GameController_proofs!TypeCorrect` | `Spec => []TypeOK` |
| `GameController_proofs!SeatsAreMapped` | `Spec => []SeatedIsMapped` |
| `GameController_proofs!NothingOutlives` | `Spec => []NothingOutlivesItsGame` |
| `GameController_proofs!TimerThrowsMidHand` | `Spec => []TimerThrowsOnlyMidHand` |
| `SocketHandler_proofs!TypeCorrect` | `Spec => []TypeOK` |
| `SocketHandler_proofs!TurnsAreTimed` | `Spec => []TurnIsTimed` |
| `SocketHandler_proofs!NobodyIsForcedEarly` | `Spec => []NoEarlyTimeout` |
| `SocketHandler_proofs!ClosedStaysSilent` | `Spec => []ClosedIsSilent` |
| `Spectators_proofs!TypeCorrect` | `Spec => []TypeOK` |
| `Spectators_proofs!NothingIsLeftBehind` | `Spec => []NothingLeftBehind` |
| `Spectators_proofs!WatchedIsHeard` | `Spec => HeardWhileWatched` |
| `Spectators_proofs!ViewsAreCurrent` | `Spec => []ViewIsCurrent` |
| `BotAuthService_proofs!TypeCorrect` | `Spec => []TypeOK` |
| `BotAuthService_proofs!CacheStaysCurrent` | `Spec => []CacheIsCurrent` |
| `BotAuthService_proofs!KeysStay` | `Spec => KeysAreKept` |
| `ReplayPipeline_proofs!GoingOnStaysRecorded` | `Spec => []GoingOnIsRecorded` |
| `ReplayPipeline_proofs!RemovedStaysReadable` | `Spec => []RemovedIsReadable` |
| `ReplayPipeline_proofs!ReportsAreTrue` | `Spec => []ReportedIsStored` |
| `ReplayPipeline_proofs!StoredStays` | `Spec => StoredIsKept` |
| `ReplayPipeline_proofs!ViewerTypeCorrect` | `ViewerSpec => []ViewerTypeOK` |
| `ReplayPipeline_proofs!PlayingIsDriven` | `ViewerSpec => []PlayingHasInterval` |

They hold for any finite set of players, positive blinds with the small one no
larger than the big one and any buy-ins; for the controller, for any games,
finite set of players and number of removals in flight; for the connections and
the spectators, for any games, clients and bound on handlers; for the service of
the bots, for any bots, keys and calls at a time (a document is never the value
that stands for none); for the replays, for any games, memory limit, retries,
saves and events; for the viewer, for any replays of any lengths and any number of
clicks; for the pots alone, for any finite set of seats, size of bets and `Parts`
as above; for the cards, for any finite set of players, any deck of ranks 2 to 14
in at most four suits that has enough cards for them, any shuffles of it and any
radix above the ranks. These are the `ASSUME`s of the modules. The first three theorems on the
engine hold for every set of liberties. The others name the liberties they
exclude, and every exclusion is needed: with any one of the excluded liberties
TLC finds the property violated (`NeverThrown` with `leave` in a simulation
of five players). `removePlayer` during a hand drops the counter
of the leaver's bets, from which the pots are rebuilt and which cover the bets
of a player who has folded; `startHand` over a running hand discards its pots;
and a player who folds without being offered it may be one whom nobody covers,
so the showdown throws and the table stays as it was in the middle of it. The
runs have no more liberties than the theorems of their properties allow.

*The engine.* `BetsMatched` and `EvenStakes` are not inductive. `IInv` says of
the table that it is well-typed (`TableOK`), that a complete hand is not
running, and that the betting of a running hand is `Fair`: who has acted and can
act has matched the highest bet (`Matched`), and who can act has paid on the
closed streets at least as much as anyone in the hand (`Even`). The two need
each other: when a round closes, `Matched` and the completion test give equal
bets of all who can act that are no lower than those of the all-in players
(`Closed`), and adding them to even stakes gives even stakes for the next
street. Every method of the table has a lemma on what it keeps of these, and
these are composed along the calls of `startHand` and `processAction`. That
`setNextPlayerToAct` always finds a seat is a fact on remainders
(`RoundTheTable`). `PotManager_proofs` has what the pots need: `Min` and `Max`
of finite sets, sums and payments are natural numbers.

*The money.* `Total(f)` is the number of pairs of a key and a chip, so that sums are
cardinalities and no induction is needed: splitting a sum, exchanging the order of
summation and comparing sums are bijections and inclusions (`TotalSplit`,
`WinningsTotal`). The layers of `createSidePots` add up because each chip lies
between one level and the one below (`CreateSidePotsTotal`). A pot is shared out
without rest since the odd chips go to the first of its winners in seat order, and
seats differ. With that `Books` is inductive: the pots of a running hand hold the
sum of the bets at distinct levels (`Funded`), and only players at the table have
chips. Its step also gives the change of `Value`, the chips in stacks and bets,
hence `ChipConservation`.

*The turn and the end of a hand.* `TurnInv` has the turn with somebody who can act,
if there is one. `Playing` adds that every player's bets are covered by somebody in
the hand (`Covered`): who is offered a fold owes chips to somebody in the hand, who
covers him, so the highest layer keeps a contender and no pot is left over. That the
one he owes covers him in the whole hand and not only in the round takes
`Bettors`, which says that whoever has a bet in the round has paid for the closed
streets. `SInv` adds that players who wait for a hand have chips (`Solvent`), so a
street on which nobody can act is followed by another or by the showdown, and only
the blinds, after which the code does not look, leave a hand that waits for nobody.
`TurnOwed` needs the order of the seats (`Ordered`): clockwise from the turn,
nobody who has acted comes before somebody who has not. It survives a bet, a
raise, a fold and the move of the turn because distances along the table are
remainders (`Dist`).

*The ledger.* A hand that starts is `Deal` of the ledger, an action is `Put`, and
one that ends the hand, with all streets and the showdown it may bring on, is
`Settle`. `Settled` says for any distribution that what was put in is paid out and
that nobody is paid more than the sum of what everybody put in up to his own amount
(`UpTo`): each of his pots is a layer below it (`WinningsInReach`). The blinds of a
hand are more than nothing because of `Solvent`, and `Committed` says that who is in
the hand and cannot act has put something in.

*The pots alone.* `PotSettlement` has no table, so its theorems hold for all ways
to bet and fold with two players left, those of callers who are not careful
included. The invariant remembers that the pots of the stage "built" were made of
pots with the same money; `FailsOrPays` then shows that the layer above everybody
who is still in exists exactly if a fold is uncovered.

*What is due.* The reference pays chip by chip, the code pot by pot. Each pot
stands for a set of layers that as many have paid and the same may win, and no layer
that somebody may win is left out or counted twice (`StandsFor`): the pot that is
alone for all of them (`MainPotStands`), a side pot for those above the next lower
level and up to its own (`SidePotsStand`). So what is due by layers is due by pots
(`DueByPots`), and since a pot of `n` winners pays each of them an `n`th of it,
rounded down or up to whole chips, a player's winnings differ from his due by less
than a chip for each pot (`FairByPots`), which is the bound of `PaysWhatIsDue`.

*The cards.* `CardsInv` says that the array of the deck repeats nothing (`IsDeck`),
that the dealt cards are those not in it, that hole cards and board are disjoint
parts of these, and how many are still to come (`ToCome`), so the deck does not run
out. Its steps rest on what taking cards from the end of an array leaves
(`TakeFrom`), once for a street and twice for the hole cards (`TwoRounds`).
`BoardInv` adds the size of the board on each street and that hands are compared
with five cards on it.

*The hands.* Five cards listed by the size of their group and then by rank have one
of six shapes (`HandShape`). For each the first of the ten checks that does not
fail is the category the rules give, and the cards it puts into the value are those
the rules compare (`Judged`, `HandJudged`). The value is a number with these as
digits, so comparing values is comparing categories and then cards (`ValueOrder`,
`Outranks`), which is what the reference does, where a royal flush is no more than
the best straight flush (`ValuesCompare`, `BeatsOrder`). Of seven cards the code
takes the five of highest value among all (`kSubset`), so by the rules no five of
them are better (`BestHand`).

*The controller.* `TypeOK` and the two invariants are inductive together; the
reason nobody sits at two tables is that the directory refuses a player who is in
it, and that busted players stay in it. `TimerThrowsOnlyMidHand` rests on an
invariant of its own: at a table without a running hand nobody is without chips
(`NobodyBroke`), because `completeHand` drops whom the hand broke and nobody sits
down without a buy-in; if nobody is broke, as many can play as are seated
(`ThrowsNeedsBroke`).

*The connections.* A turn is timed because the player hears of it, and that takes
three facts about seats: whoever is seated is in the directory with that game
only (`SeatsAreMapped`), a connected player's connection names the game he sits
in (`SitsInItsGame`), and a connection with a game has a handler there
(`HearsItsGame`), although handlers come and go by counts. With them
(`Seats`), and with no timers for sockets not connected, `TurnIsTimed` and
`NoEarlyTimeout` are inductive bot by bot (`BotTimed`): an event of one game
leaves the timers of players on turn in another alone, but for `EndEvent`, which
is the second exception of `TurnIsTimed`. It rests on bounds only through
`MaxHandlers \in Nat`.

*The spectators.* `NothingLeftBehind` needs more about a client that watches one
game at a time (`Tidy`): every handler a game calls for it is the remembered
one, a remembered handler is of the one game it watches, as a spectator, and
with none remembered nothing is watched. Then the handler that
`handleStopSpectating` unsubscribes is the only one there is.
`HeardWhileWatched` is proved action by action from `TypeOK`: the steps that
unsubscribe either stop watching as well or end the game. For `ViewIsCurrent`
(`Screens`) no hand is running in the phase of a showdown, and nobody watches
before connecting: after the end of a hand seats change without a state being
sent, and that only takes players away from those whose cards have been shown.

*The service of the bots.* `CacheIsCurrent` needs to know of every call between
two awaits (`Coherent`) that it is about a bot that is stored, if it has a
document, and which step follows: an entry may differ from the database only for
as long as a call with step `saved` is going to clear it, or if it is excused.
`KeysAreKept` needs the unique index and that a save writes the changed fields
only.

*The replays.* The hard part is `manageMemory`, which sorts the ended recordings by
their start. It removes as many as are too many, or all that ended; after it the
memory is `Tight`, and no active recording is lost (`MemoryKeeps`, `MemoryTight`).
A removed game is readable because at each moment it is stored, or a save that has
its events is under way, or it is recorded (`GamesInv`). Of a save that
is under way, `Underway` says what of its work is already in the document, which
other saves of the same game only make longer (`Grows`).

*The viewer.* Every listener and every answer that is awaited stems from a click,
which bounds their number (`ClicksInv`). The index stays within the replay that is
open, and an interval ends only when it finds the player paused or pauses it at the
end, so a replay that plays has one (`PlayerInv`).

Only model-checked: liveness (`HandEnds`, `UnseatHonoured`,
`RevocationTakesEffect`, `RemovalEnds`, `PlaybackEnds`), which is out of the prover's
reach. Every other property of the passing runs is proved as well as checked; TLC
agreed with each before its proof was begun. `TypeOK` of `BotAuthService` is
proved but not among the runs' properties, and that of `ReplayPipeline` tells the
reader what the variables hold.

## 5. Not modelled, and the plan

Not modelled: `Logger` and `GameLogger` (output); `ReplaySystem`, which the server
only loads and reads in one step; `ReplayAnalyzer` and the searches and
statistics of the repository, which change nothing; the rendering of the
dashboard and the routes that only read; the sample bots; `BotInterface`, which is
created and not called. Code without a caller: `destroy` and
`cleanupInactiveGames` of the GameController, `cleanupInactiveConnections` of the
SocketHandler, `updateBotStats` and `clearAllCache` of the BotAuthService, the
deletion of replays. Checkpoints of recordings never occur, since the controller
passes no state after an event. Not composed: connections that both play and
watch (a spectator's disconnection returns before the turn timer is cleared), and
in `SocketHandler` games removed while connections name them. A crash of the
server loses everything but the stored replays and bots; it is modelled in the
controller, and no module restarts the others.

What is left:

1. `ImplementsLedger` for the other liberties, with a ledger that says what is
   lost.
2. `SocketHandler` and `Spectators` in one module, with connections that play and
   watch and games that are removed.
