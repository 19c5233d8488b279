--------------------------- MODULE GameController ---------------------------
(***************************************************************************)
(* The games of the server, who sits where, and the timers that start      *)
(* hands and remove empty games: application/engine/GameController.ts.     *)
(*                                                                         *)
(* The controller runs on one thread; what interleaves are the requests of *)
(* bots and of the dashboard, the two kinds of timers, the events of the   *)
(* engines, and removeGame(), which waits for the replay to be saved       *)
(* between looking the game up and deleting it.                            *)
(*                                                                         *)
(* Of an engine the controller sees who is seated, who of them has no      *)
(* chips, whether a hand is running and whether the phase is HandComplete; *)
(* the module GameEngine is the detailed model of the rest.                *)
(***************************************************************************)
EXTENDS Naturals, FiniteSets

CONSTANTS
  Games, Players,
  NoGame,          \* a player who is in no game
  StartCondition,  \* startSettings.condition of the games
  MinPlayers,      \* startSettings.minPlayers
  MaxRemovals      \* bound: calls of removeGame() in flight for a game

ASSUME ControllerAssumption ==
  /\ NoGame \notin Games
  /\ IsFiniteSet(Players)
  /\ StartCondition \in {"minPlayers", "manual"}
  /\ MinPlayers \in Nat /\ MaxRemovals \in Nat

VARIABLES
  engine,         \* the GameEngine objects, for the games that exist
  games,          \* the keys of the map games
  playerGameMap,
  pendingUnseats,
  handStartTimers,  \* the games with a hand start timer running
  cleanupTimers,    \* the games with a cleanup timer running
  removals          \* calls of removeGame() waiting for the replay

vars == <<engine, games, playerGameMap, pendingUnseats, handStartTimers,
          cleanupTimers, removals>>

(* What happens to a call of removeGame(): who asked for it. *)
Removal == {"dashboard", "cleanup"}

NewEngine == [seated |-> {}, broke |-> {}, running |-> FALSE,
              handComplete |-> FALSE]

Init ==
  /\ engine = [g \in Games |-> NewEngine]
  /\ games = {}
  /\ playerGameMap = [p \in Players |-> NoGame]
  /\ pendingUnseats = [g \in Games |-> {}]
  /\ handStartTimers = {}
  /\ cleanupTimers = {}
  /\ removals = [g \in Games |-> [r \in Removal |-> 0]]

(* startHand() of the controller: players without chips are purged, and    *)
(* the engine starts a hand, whether or not one is running, if two are     *)
(* left.                                                                   *)
HandStarted(e) ==
  LET left == e.seated \ e.broke
      purged == [e EXCEPT !.seated = left, !.broke = {}]
  IN  IF Cardinality(left) < 2 THEN purged
      ELSE [purged EXCEPT !.running = TRUE, !.handComplete = FALSE]

(* checkAutoStart() *)
ShouldAutoStart(e) ==
  /\ ~e.running
  /\ StartCondition = "minPlayers"
  /\ Cardinality(e.seated) >= MinPlayers

-----------------------------------------------------------------------------
(* Requests *)

CreateGame(g) ==
  /\ g \notin games
  /\ games' = games \cup {g}
  /\ engine' = [engine EXCEPT ![g] = NewEngine]
  /\ UNCHANGED <<playerGameMap, pendingUnseats, handStartTimers,
                 cleanupTimers, removals>>

(* Mutant: a player who sits in a game is not refused. *)
AddPlayerAnywhere(g, p) ==
  /\ g \in games
  /\ p \notin engine[g].seated
  /\ ~engine[g].running
  /\ cleanupTimers' = cleanupTimers \ {g}
  /\ playerGameMap' = [playerGameMap EXCEPT ![p] = g]
  /\ engine' = [engine EXCEPT ![g].seated = @ \cup {p}]
  /\ UNCHANGED <<games, pendingUnseats, handStartTimers, removals>>

(* addPlayerToGame(): the cleanup timer is cancelled before the engine     *)
(* gets a chance to refuse the player because a hand is running.           *)
AddPlayerToGame(g, p) ==
  /\ g \in games
  /\ playerGameMap[p] = NoGame
  /\ cleanupTimers' = cleanupTimers \ {g}
  /\ LET joined == [engine[g] EXCEPT !.seated = @ \cup {p}]
     IN  IF engine[g].running
         THEN UNCHANGED <<engine, playerGameMap>>
         ELSE /\ playerGameMap' = [playerGameMap EXCEPT ![p] = g]
              /\ engine' = [engine EXCEPT ![g] =
                   IF ShouldAutoStart(joined) THEN HandStarted(joined)
                   ELSE joined]
  /\ UNCHANGED <<games, pendingUnseats, handStartTimers, removals>>

(* Mutant: the player stays in the list of those without chips. *)
UnseatOnly(g, p) ==
  /\ engine' = [engine EXCEPT ![g].seated = @ \ {p}]
  /\ playerGameMap' = [playerGameMap EXCEPT ![p] = NoGame]
  /\ cleanupTimers' = IF engine[g].seated \ {p} = {}
                      THEN cleanupTimers \cup {g} ELSE cleanupTimers

(* removePlayerFromGame() for a player who is seated. *)
Unseat(g, p) ==
  /\ engine' = [engine EXCEPT ![g].seated = @ \ {p}, ![g].broke = @ \ {p}]
  /\ playerGameMap' = [playerGameMap EXCEPT ![p] = NoGame]
  /\ cleanupTimers' = IF engine[g].seated \ {p} = {}
                      THEN cleanupTimers \cup {g} ELSE cleanupTimers

RemovePlayerFromGame(g, p) ==
  /\ g \in games
  /\ p \in engine[g].seated
  /\ Unseat(g, p)
  /\ UNCHANGED <<games, pendingUnseats, handStartTimers, removals>>

(* requestUnseat(): the phase decides, not whether a hand is running, and  *)
(* nobody looks whether the player is seated before the request is kept.   *)
RequestUnseat(g, p) ==
  /\ g \in games
  /\ IF engine[g].handComplete
     THEN /\ p \in engine[g].seated
          /\ Unseat(g, p)
          /\ UNCHANGED pendingUnseats
     ELSE /\ pendingUnseats' = [pendingUnseats EXCEPT ![g] = @ \cup {p}]
          /\ UNCHANGED <<engine, playerGameMap, cleanupTimers>>
  /\ UNCHANGED <<games, handStartTimers, removals>>

(* startGame(), from the dashboard. *)
StartGame(g) ==
  /\ g \in games
  /\ ~engine[g].running
  /\ Cardinality(engine[g].seated) >= 2
  /\ engine' = [engine EXCEPT ![g] = HandStarted(@)]
  /\ UNCHANGED <<games, playerGameMap, pendingUnseats, handStartTimers,
                 cleanupTimers, removals>>

-----------------------------------------------------------------------------
(* Removal of a game *)

(* removeGame() up to its await: the replay is being saved. *)
CallRemoveGame(g, r) ==
  /\ removals[g][r] < MaxRemovals
  /\ removals' = [removals EXCEPT ![g][r] = @ + 1]

RemoveGame(g) ==
  /\ g \in games
  /\ CallRemoveGame(g, "dashboard")
  /\ UNCHANGED <<engine, games, playerGameMap, pendingUnseats,
                 handStartTimers, cleanupTimers>>

(* The callback of scheduleCleanupIfEmpty(). *)
CleanupTimerFires(g) ==
  /\ g \in cleanupTimers
  /\ cleanupTimers' = cleanupTimers \ {g}
  /\ IF g \in games /\ engine[g].seated = {}
     THEN CallRemoveGame(g, "cleanup") ELSE UNCHANGED removals
  /\ UNCHANGED <<engine, games, playerGameMap, pendingUnseats,
                 handStartTimers>>

(* Mutant: the hand start timer is not cleared. *)
ReplaySavedTimerKept(g, r) ==
  /\ removals[g][r] > 0
  /\ removals' = [removals EXCEPT ![g][r] = @ - 1]
  /\ cleanupTimers' = cleanupTimers \ {g}
  /\ playerGameMap' = [p \in Players |-> IF playerGameMap[p] = g THEN NoGame
                                         ELSE playerGameMap[p]]
  /\ games' = games \ {g}
  /\ engine' = [engine EXCEPT ![g] = NewEngine]
  /\ pendingUnseats' = [pendingUnseats EXCEPT ![g] = {}]
  /\ UNCHANGED handStartTimers

(* removeGame() from its await on: everything under the identifier goes.   *)
ReplaySaved(g, r) ==
  /\ removals[g][r] > 0
  /\ removals' = [removals EXCEPT ![g][r] = @ - 1]
  /\ cleanupTimers' = cleanupTimers \ {g}
  /\ handStartTimers' = handStartTimers \ {g}
  /\ playerGameMap' = [p \in Players |-> IF playerGameMap[p] = g THEN NoGame
                                         ELSE playerGameMap[p]]
  /\ games' = games \ {g}
  /\ engine' = [engine EXCEPT ![g] = NewEngine]
  /\ pendingUnseats' = [pendingUnseats EXCEPT ![g] = {}]

-----------------------------------------------------------------------------
(* The engines *)

(* A player puts his last chips in. *)
GoAllIn(g, p) ==
  /\ g \in games
  /\ engine[g].running
  /\ p \in engine[g].seated \ engine[g].broke
  /\ engine' = [engine EXCEPT ![g].broke = @ \cup {p}]
  /\ UNCHANGED <<games, playerGameMap, pendingUnseats, handStartTimers,
                 cleanupTimers, removals>>

(* Mutant: the unseat requests are cleared before they are read. *)
HandCompletesUnseatingNobody(g, busted, complete) ==
  /\ g \in games
  /\ engine[g].running
  /\ busted \subseteq engine[g].broke /\ busted # engine[g].seated
  /\ engine' = [engine EXCEPT ![g] = [seated |-> @.seated \ busted, broke |-> {},
                                      running |-> FALSE,
                                      handComplete |-> complete]]
  /\ pendingUnseats' = [pendingUnseats EXCEPT ![g] = {}]
  /\ handStartTimers' = handStartTimers \cup {g}
  /\ UNCHANGED <<games, playerGameMap, cleanupTimers, removals>>

(* Mutant: the engine keeps the players the hand left without chips. *)
HandCompletesKeepingBroke(g, busted, complete) ==
  LET e == engine[g]
      leaving == pendingUnseats[g] \cap e.seated
      stay == e.seated \ leaving
  IN  /\ g \in games
      /\ e.running
      /\ busted \subseteq e.broke /\ busted # e.seated
      /\ engine' = [engine EXCEPT ![g] = [seated |-> stay,
                                          broke |-> stay \cap busted,
                                          running |-> FALSE,
                                          handComplete |-> complete]]
      /\ playerGameMap' = [p \in Players |-> IF p \in leaving THEN NoGame
                                             ELSE playerGameMap[p]]
      /\ cleanupTimers' = IF leaving # {} /\ stay = {}
                          THEN cleanupTimers \cup {g} ELSE cleanupTimers
      /\ pendingUnseats' = [pendingUnseats EXCEPT ![g] = {}]
      /\ handStartTimers' = handStartTimers \cup {g}
      /\ UNCHANGED <<games, removals>>

(* completeHand() of the engine: the event hand_complete makes the         *)
(* controller unseat the players who asked for it and set the timer for    *)
(* the next hand; then the engine drops the players the hand left without  *)
(* chips, and the controller is not told.  The phase reached depends on    *)
(* how the hand was won.                                                   *)
HandCompletes(g, busted, complete) ==
  LET e == engine[g]
      leaving == pendingUnseats[g] \cap e.seated
      stay == e.seated \ leaving
  IN  /\ g \in games
      /\ e.running
      /\ busted \subseteq e.broke /\ busted # e.seated
      /\ engine' = [engine EXCEPT ![g] = [seated |-> stay \ busted,
                                          broke |-> {},
                                          running |-> FALSE,
                                          handComplete |-> complete]]
      /\ playerGameMap' = [p \in Players |-> IF p \in leaving THEN NoGame
                                             ELSE playerGameMap[p]]
      /\ cleanupTimers' = IF leaving # {} /\ stay = {}
                          THEN cleanupTimers \cup {g} ELSE cleanupTimers
      /\ pendingUnseats' = [pendingUnseats EXCEPT ![g] = {}]
      /\ handStartTimers' = handStartTimers \cup {g}
      /\ UNCHANGED <<games, removals>>

(* startHand() throws: too few of the seated players have chips. *)
StartThrows(g) ==
  /\ g \in games
  /\ Cardinality(engine[g].seated) >= 2
  /\ Cardinality(engine[g].seated \ engine[g].broke) < 2

(* The callback of the hand start timer: it looks at the number of seats   *)
(* and not at gameRunning.                                                 *)
HandStartTimerFires(g) ==
  /\ g \in handStartTimers
  /\ ~StartThrows(g)
  /\ handStartTimers' = handStartTimers \ {g}
  /\ IF g \in games /\ Cardinality(engine[g].seated) >= 2
     THEN engine' = [engine EXCEPT ![g] = HandStarted(@)]
     ELSE UNCHANGED engine
  /\ UNCHANGED <<games, playerGameMap, pendingUnseats, cleanupTimers,
                 removals>>

(* Nobody catches an exception of the callback: the process goes down, and *)
(* the next one starts with nothing.                                       *)
HandStartTimerThrows(g) ==
  /\ g \in handStartTimers
  /\ StartThrows(g)
  /\ engine' = [h \in Games |-> NewEngine]
  /\ games' = {}
  /\ playerGameMap' = [p \in Players |-> NoGame]
  /\ pendingUnseats' = [h \in Games |-> {}]
  /\ handStartTimers' = {} /\ cleanupTimers' = {}
  /\ removals' = [h \in Games |-> [r \in Removal |-> 0]]

EndHand(g) ==
  \E busted \in SUBSET engine[g].broke, complete \in BOOLEAN :
    HandCompletes(g, busted, complete)

Next ==
  \E g \in Games :
    \/ CreateGame(g)
    \/ StartGame(g)
    \/ RemoveGame(g)
    \/ CleanupTimerFires(g)
    \/ \E r \in Removal : ReplaySaved(g, r)
    \/ HandStartTimerFires(g)
    \/ HandStartTimerThrows(g)
    \/ EndHand(g)
    \/ \E p \in Players : \/ AddPlayerToGame(g, p)
                          \/ RemovePlayerFromGame(g, p)
                          \/ RequestUnseat(g, p)
                          \/ GoAllIn(g, p)

Spec == Init /\ [][Next]_vars

(* Timers fire, replays get saved and hands end. *)
FairSpec ==
  /\ Spec
  /\ \A g \in Games : /\ WF_vars(CleanupTimerFires(g))
                      /\ WF_vars(\/ HandStartTimerFires(g)
                                 \/ HandStartTimerThrows(g))
                      /\ WF_vars(EndHand(g))
                      /\ \A r \in Removal : WF_vars(ReplaySaved(g, r))

-----------------------------------------------------------------------------
(* Properties *)

(* The type invariant: players without chips are seated ones. *)
TypeOK ==
  /\ engine \in [Games -> [seated : SUBSET Players, broke : SUBSET Players,
                           running : BOOLEAN, handComplete : BOOLEAN]]
  /\ \A g \in Games : engine[g].broke \subseteq engine[g].seated
  /\ games \subseteq Games
  /\ playerGameMap \in [Players -> Games \cup {NoGame}]
  /\ pendingUnseats \in [Games -> SUBSET Players]
  /\ handStartTimers \subseteq Games /\ cleanupTimers \subseteq Games
  /\ removals \in [Games -> [Removal -> 0..MaxRemovals]]

(* The directory of players is right about everybody who has a seat, so    *)
(* nobody sits at two tables, through bust-outs, unseat requests and games *)
(* that are removed and created again while a removal is in flight.        *)
SeatedIsMapped ==
  \A g \in games : \A p \in engine[g].seated : playerGameMap[p] = g

(* Nothing outlives its game: no player is mapped to a game that is gone,  *)
(* no timer is running for it and no unseat request is kept for it.        *)
NothingOutlivesItsGame ==
  /\ \A p \in Players : playerGameMap[p] \in games \cup {NoGame}
  /\ handStartTimers \subseteq games
  /\ cleanupTimers \subseteq games
  /\ \A g \in Games : pendingUnseats[g] # {} => g \in games

(* A player who asks to leave during a hand is away from the table after   *)
(* it, or the game is gone.                                                *)
UnseatHonoured ==
  \A g \in Games, p \in Players :
    (g \in games /\ engine[g].running /\ p \in pendingUnseats[g])
      ~> (g \notin games \/ p \notin engine[g].seated)

(* "Double-check game is still empty before removing": the cleanup takes   *)
(* no seat away from anybody.                                              *)
CleanupEvictsNobody ==
  [][\A g \in Games : ReplaySaved(g, "cleanup") => engine[g].seated = {}]_vars

(* "Check if game still exists and has enough players to continue": the    *)
(* hand start timer counts seats and startHand() players with chips, so    *)
(* the callback may throw and end the process, but only when another       *)
(* request has started a hand meanwhile, in which players are all-in.      *)
TimerThrowsOnlyMidHand ==
  \A g \in handStartTimers : StartThrows(g) => engine[g].running

=============================================================================
