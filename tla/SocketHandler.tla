---------------------------- MODULE SocketHandler ----------------------------
(***************************************************************************)
(* The connections of the bots, their subscriptions to game events and the *)
(* turn timers: infrastructure/communication/SocketHandler.ts.             *)
(*                                                                         *)
(* A player is identified by the socket, so a bot that comes back on a new *)
(* socket is another player.  Events are delivered inside the calls of the *)
(* engine that emit them, to the handlers subscribed at that moment; a     *)
(* handler that is replaced without being unsubscribed goes on listening.  *)
(*                                                                         *)
(* Of a table this module keeps who is seated, who of them can act, whose  *)
(* turn it is and whether a hand is running; the turn goes to any player   *)
(* who can act.  GameEngine and GameController are the detailed models.    *)
(* Warning timers run and are cleared with the turn timers.  Spectators,   *)
(* the removal of games and calls of the engine that throw half-way (see   *)
(* GameEngine, GameController) are left out.                               *)
(***************************************************************************)
EXTENDS Integers, FiniteSets

CONSTANTS
  Games, Bots,
  NoGame,        \* connection.gameId = undefined
  NoBot,         \* currentPlayerToAct = undefined
  MaxHandlers    \* bound: handlers of a connection subscribed to a game

ASSUME SocketAssumption == /\ NoGame \notin Games
                           /\ NoBot \notin Bots
                           /\ MaxHandlers \in Nat

VARIABLES
  connection,     \* the BotConnection objects, by socket
  handlers,       \* how many handlers of a connection a game will call
  turnTimers,     \* the timers, by player
  table,          \* the engines
  playerGameMap,
  pendingUnseats

vars == <<connection, handlers, turnTimers, table, playerGameMap,
          pendingUnseats>>

(* A socket that is connected and has not logged in is "open"; one that    *)
(* was closed never comes back.                                            *)
Status == {"unknown", "open", "loggedIn", "closed"}

(* A timer runs for the present turn of its player, or is left over from   *)
(* something else; "refused" is one that a refused submission cleared.     *)
Timer == {"off", "refused", "current", "stale"}

Init ==
  /\ connection = [b \in Bots |-> [status |-> "unknown", gameId |-> NoGame]]
  /\ handlers = [g \in Games |-> [b \in Bots |-> 0]]
  /\ turnTimers = [b \in Bots |-> "off"]
  /\ table = [g \in Games |-> [seated |-> {}, able |-> {}, turn |-> NoBot,
                               running |-> FALSE]]
  /\ playerGameMap = [b \in Bots |-> NoGame]
  /\ pendingUnseats = [g \in Games |-> {}]

IsConnected(b) == connection[b].status \in {"open", "loggedIn"}

-----------------------------------------------------------------------------
(* Events *)

(* Mutant: the handler does not look whether its socket is connected. *)
HearsAnyway(g, b) == handlers[g][b] > 0

(* handleGameEvent() is called for b and does not return at once. *)
Hears(g, b) == handlers[g][b] > 0 /\ IsConnected(b)

(* Mutant: a timer that runs is left alone. *)
startTurnTimerOnce(tm, b) == IF tm[b] \in {"current", "stale"} THEN tm[b]
                             ELSE "current"

(* startTurnTimer() clears the timer of the player before it starts one. *)
startTurnTimer(tm, b) == "current"

(* The timer of a turn that is over, if it still runs. *)
LeftOver(timer) == IF timer = "current" THEN "stale" ELSE timer

(* The events that carry the turn: hand_started, action_taken and the      *)
(* streets.  The player whose turn it is gets a timer if he hears of it;   *)
(* the one whose turn it was before keeps what he has.                     *)
TurnEvent(tm, g, before, turn) ==
  [b \in Bots |->
     IF b = turn /\ Hears(g, b) /\ connection[b].gameId # NoGame
     THEN startTurnTimer(tm, b)
     ELSE IF b = before /\ b \in table[g].seated THEN LeftOver(tm[b])
     ELSE tm[b]]

(* showdown_complete and hand_complete: everybody who hears of it clears   *)
(* his timer, also the timer of a turn in another game.                    *)
EndEvent(tm, g, before) ==
  [b \in Bots |->
     IF Hears(g, b) THEN "off"
     ELSE IF b = before /\ b \in table[g].seated THEN LeftOver(tm[b])
     ELSE tm[b]]

-----------------------------------------------------------------------------
(* The tables *)

(* After the blinds at most two players are all-in; the first turn goes to *)
(* somebody who can act.                                                   *)
AbleAfterBlinds(t) == {S \in SUBSET t.seated : Cardinality(t.seated \ S) <= 2}

Turns(able) == IF able = {} THEN {NoBot} ELSE able

Started(t, able, turn) ==
  [t EXCEPT !.able = able, !.turn = turn, !.running = TRUE]

CanStart(t) == Cardinality(t.seated) >= 2

(* startHand(), from the timer of the next hand or the dashboard: the      *)
(* timer does not look whether a hand is running, whose all-in players     *)
(* are then purged.                                                        *)
StartHand(g) ==
  /\ \E purged \in SUBSET (IF table[g].running
                          THEN table[g].seated \ table[g].able ELSE {}) :
     LET left == [table[g] EXCEPT !.seated = @ \ purged]
     IN  /\ CanStart(left)
         /\ \E able \in AbleAfterBlinds(left) : \E turn \in Turns(able) :
              /\ table' = [table EXCEPT ![g] = Started(left, able, turn)]
              /\ turnTimers' = TurnEvent(turnTimers, g, table[g].turn, turn)
  /\ UNCHANGED <<connection, handlers, playerGameMap, pendingUnseats>>

(* The engine accepts an action of b in game g. *)
Accepts(g, b) == table[g].running /\ table[g].turn = b /\ b \in table[g].able

(* The next player is announced with action_taken; then the round goes on, *)
(* or a street is dealt and announced, while somebody can act.  tm are the *)
(* timers when the action is processed.                                    *)
RoundGoesOn(g, b, tm) ==
  \E able \in {table[g].able, table[g].able \ {b}} :
    \E announced, turn \in able :
      LET told == TurnEvent(tm, g, b, announced)
      IN  /\ table' = [table EXCEPT ![g].able = able, ![g].turn = turn]
          /\ turnTimers' \in {TurnEvent(told, g, announced, turn)}
                             \cup (IF announced = turn THEN {told} ELSE {})
          /\ UNCHANGED <<playerGameMap, pendingUnseats>>

(* Or the hand ends: the players who asked for it are unseated after the   *)
(* event, and those without chips lose their seats and stay in the map.    *)
HandEnds(g, b, tm) ==
  \E able \in {table[g].able, table[g].able \ {b}},
     busted \in SUBSET table[g].seated :
    \E announced, turn \in Turns(able) :
      LET leaving == pendingUnseats[g] \cap table[g].seated
          told == TurnEvent(tm, g, b, announced)
      IN  /\ busted # table[g].seated
          /\ turnTimers' = EndEvent(told, g, announced)
          /\ table' = [table EXCEPT ![g] =
               [seated |-> @.seated \ (leaving \cup busted), able |-> {},
                turn |-> turn, running |-> FALSE]]
          /\ playerGameMap' = [p \in Bots |-> IF p \in leaving THEN NoGame
                                              ELSE playerGameMap[p]]
          /\ pendingUnseats' = [pendingUnseats EXCEPT ![g] = {}]

Processed(g, b, tm) == RoundGoesOn(g, b, tm) \/ HandEnds(g, b, tm)

-----------------------------------------------------------------------------
(* The messages of a bot *)

Connect(b) ==
  /\ connection[b].status = "unknown"
  /\ connection' = [connection EXCEPT ![b].status = "open"]
  /\ UNCHANGED <<handlers, turnTimers, table, playerGameMap, pendingUnseats>>

(* subscribeToGameEvents(): the handler stored in the connection is        *)
(* replaced and not unsubscribed.                                          *)
Subscribe(b, g) ==
  /\ g # NoGame => handlers[g][b] < MaxHandlers
  /\ handlers' = IF g = NoGame THEN handlers
                 ELSE [handlers EXCEPT ![g][b] = @ + 1]

(* handleAuthentication() with the right credentials.  It may be repeated, *)
(* and the answer of the authentication service may come after the socket  *)
(* was closed.                                                             *)
Login(b) ==
  /\ connection[b].status # "unknown"
  /\ Subscribe(b, connection[b].gameId)
  /\ connection' = [connection EXCEPT ![b].status =
                      IF @ = "closed" THEN @ ELSE "loggedIn"]
  /\ UNCHANGED <<turnTimers, table, playerGameMap, pendingUnseats>>

(* handleReconnection(), on a socket that is connected: no timer is        *)
(* started.                                                                *)
Reconnect(b) ==
  /\ IsConnected(b)
  /\ Subscribe(b, connection[b].gameId)
  /\ UNCHANGED <<connection, turnTimers, table, playerGameMap,
                 pendingUnseats>>

(* Mutant: only events start timers. *)
UntimedOnJoin(tm, b, turn) == tm

(* The end of handleBotIdentification(): who joins when it is his turn,    *)
(* because his joining started the hand, gets a timer.                     *)
TimedOnJoin(tm, b, turn) ==
  [tm EXCEPT ![b] = IF turn = b THEN startTurnTimer(tm, b) ELSE @]

(* handleBotIdentification(), game.join: a player in the map is taken for  *)
(* one who comes back; another one gets a seat, and the hand may start     *)
(* before the new handler is subscribed.                                   *)
JoinGame(b, g) ==
  /\ connection[b].status = "loggedIn"
  /\ connection' = [connection EXCEPT ![b].gameId = g]
  /\ Subscribe(b, g)
  /\ \/ /\ playerGameMap[b] = g
        /\ turnTimers' = TimedOnJoin(turnTimers, b, table[g].turn)
        /\ UNCHANGED <<table, playerGameMap>>
     \/ LET joined == [table[g] EXCEPT !.seated = @ \cup {b}]
        IN  /\ playerGameMap[b] = NoGame
            /\ ~table[g].running
            /\ playerGameMap' = [playerGameMap EXCEPT ![b] = g]
            /\ \/ /\ table' = [table EXCEPT ![g] = joined]
                  /\ turnTimers' = TimedOnJoin(turnTimers, b, joined.turn)
               \/ /\ CanStart(joined)
                  /\ \E able \in AbleAfterBlinds(joined) :
                     \E turn \in Turns(able) :
                       /\ table' = [table EXCEPT ![g] =
                                     Started(joined, able, turn)]
                       /\ turnTimers' = TimedOnJoin(
                            TurnEvent(turnTimers, g, joined.turn, turn),
                            b, turn)
  /\ UNCHANGED pendingUnseats

(* handleBotAction(): the timer is cleared before the action is validated. *)
SubmitAccepted(b) ==
  LET g == connection[b].gameId
  IN  /\ connection[b].status = "loggedIn"
      /\ g # NoGame
      /\ Accepts(g, b)
      /\ Processed(g, b, [turnTimers EXCEPT ![b] = "off"])
      /\ UNCHANGED <<connection, handlers>>

SubmitRefused(b) ==
  /\ connection[b].status = "loggedIn"
  /\ connection[b].gameId # NoGame
  /\ turnTimers' = [turnTimers EXCEPT ![b] =
       IF Accepts(connection[b].gameId, b) THEN "refused" ELSE "off"]
  /\ UNCHANGED <<connection, handlers, table, playerGameMap, pendingUnseats>>

(* handleTurnTimeout() *)
TurnTimeout(b) ==
  LET g == connection[b].gameId
  IN  /\ turnTimers[b] \in {"current", "stale"}
      /\ IF g # NoGame /\ Accepts(g, b)
         THEN Processed(g, b, [turnTimers EXCEPT ![b] = "off"])
         ELSE /\ turnTimers' = [turnTimers EXCEPT ![b] = "off"]
              /\ UNCHANGED <<table, playerGameMap, pendingUnseats>>
      /\ UNCHANGED <<connection, handlers>>

(* unsubscribeFromGame() with the stored handler, the last one subscribed  *)
(* to the game of the connection.                                          *)
Unsubscribed(b) ==
  [g \in Games |-> [handlers[g] EXCEPT ![b] =
     IF connection[b].gameId = g THEN @ - 1 ELSE @]]

(* Mutant: the player who left can still act. *)
UnseatedOnly(t, b) == [t EXCEPT !.seated = @ \ {b}]

(* removePlayerFromGame(): the turn stays where it is. *)
Unseated(t, b) == [t EXCEPT !.seated = @ \ {b}, !.able = @ \ {b}]

(* handleLeaveGame(): the timer is not cleared. *)
LeaveGame(b) ==
  LET g == connection[b].gameId
  IN  /\ connection[b].status = "loggedIn"
      /\ g # NoGame
      /\ b \in table[g].seated
      /\ table' = [table EXCEPT ![g] = Unseated(@, b)]
      /\ playerGameMap' = [playerGameMap EXCEPT ![b] = NoGame]
      /\ handlers' = Unsubscribed(b)
      /\ connection' = [connection EXCEPT ![b].gameId = NoGame]
      /\ turnTimers' = [turnTimers EXCEPT ![b] = LeftOver(@)]
      /\ UNCHANGED pendingUnseats

(* handleUnseatRequest(): at once when the phase is HandComplete, after    *)
(* the hand otherwise; the connection keeps its game and its handler.      *)
UnseatRequest(b) ==
  LET g == connection[b].gameId
  IN  /\ connection[b].status = "loggedIn"
      /\ g # NoGame
      /\ \/ /\ ~table[g].running
            /\ b \in table[g].seated
            /\ table' = [table EXCEPT ![g] = Unseated(@, b)]
            /\ playerGameMap' = [playerGameMap EXCEPT ![b] = NoGame]
            /\ turnTimers' = [turnTimers EXCEPT ![b] = LeftOver(@)]
            /\ UNCHANGED pendingUnseats
         \/ /\ pendingUnseats' = [pendingUnseats EXCEPT ![g] = @ \cup {b}]
            /\ UNCHANGED <<table, playerGameMap, turnTimers>>
      /\ UNCHANGED <<connection, handlers>>

(* handleDisconnection(): the seat stays taken. *)
Disconnect(b) ==
  /\ IsConnected(b)
  /\ connection' = [connection EXCEPT ![b].status = "closed"]
  /\ handlers' = Unsubscribed(b)
  /\ turnTimers' = [turnTimers EXCEPT ![b] = "off"]
  /\ UNCHANGED <<table, playerGameMap, pendingUnseats>>

Next ==
  \/ \E g \in Games : StartHand(g)
  \/ \E b \in Bots : \/ Connect(b)
                     \/ Login(b)
                     \/ Reconnect(b)
                     \/ \E g \in Games : JoinGame(b, g)
                     \/ SubmitAccepted(b)
                     \/ SubmitRefused(b)
                     \/ TurnTimeout(b)
                     \/ LeaveGame(b)
                     \/ UnseatRequest(b)
                     \/ Disconnect(b)

Spec == Init /\ [][Next]_vars

-----------------------------------------------------------------------------
(* Properties *)

TypeOK ==
  /\ connection \in [Bots -> [status : Status, gameId : Games \cup {NoGame}]]
  /\ handlers \in [Games -> [Bots -> 0..MaxHandlers]]
  /\ turnTimers \in [Bots -> Timer]
  /\ table \in [Games -> [seated : SUBSET Bots, able : SUBSET Bots,
                          turn : Bots \cup {NoBot}, running : BOOLEAN]]
  /\ \A g \in Games : table[g].able \subseteq table[g].seated
  /\ playerGameMap \in [Bots -> Games \cup {NoGame}]
  /\ pendingUnseats \in [Games -> SUBSET Bots]

(* The turn of a connected player who can act. *)
OnTurn(g, b) == Accepts(g, b) /\ IsConnected(b)

(* A connected player on turn has a timer that was started for this turn:  *)
(* through joins that start the hand, streets that take the turn from the  *)
(* player just announced, repeated joins and logins.  Two holes remain: he *)
(* has submitted something that was refused, or a handler he left behind   *)
(* in another game clears his timer when a hand ends there.                *)
TurnIsTimed ==
  \A g \in Games, b \in Bots :
    OnTurn(g, b) => \/ turnTimers[b] \in {"current", "refused"}
                    \/ \E h \in Games \ {g} : handlers[h][b] > 0

(* Nobody is forced to act before his time: a timer left over from another *)
(* turn, hand or game never runs while the player is on turn.              *)
NoEarlyTimeout ==
  \A g \in Games, b \in Bots : Accepts(g, b) => turnTimers[b] # "stale"

(* A connection that is closed has no timer, although handlers it left     *)
(* behind are still called.                                                *)
ClosedIsSilent ==
  \A b \in Bots : connection[b].status = "closed" => turnTimers[b] = "off"

=============================================================================
