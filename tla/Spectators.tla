----------------------------- MODULE Spectators -----------------------------
(***************************************************************************)
(* The spectators of the games: the spectator messages, subscriptions and  *)
(* views of infrastructure/communication/SocketHandler.ts.                 *)
(*                                                                         *)
(* A connection remembers the games it watches and one event handler; each *)
(* message spectator.watch subscribes a new handler, and only the          *)
(* remembered one can be unsubscribed.  A handler that stays behind goes   *)
(* on being called, and sends when its connection watches its game again.  *)
(*                                                                         *)
(* Clients in OneAtATime behave like the dashboard: they authenticate once *)
(* and stop watching a game before they watch another one.  The others     *)
(* send what they like.  Connections that also play are left out; of a     *)
(* table the module keeps what decides whose hole cards are shown.         *)
(***************************************************************************)
EXTENDS Integers, FiniteSets

CONSTANTS
  Games, Players,
  Clients,
  OneAtATime,     \* the clients that watch one game at a time
  MaxHandlers,    \* bound: handlers of a client for a game
  NoHandler,      \* connection.eventHandler = undefined
  NoView          \* nothing received for this game

ASSUME SpectatorsAssumption == /\ OneAtATime \subseteq Clients
                               /\ MaxHandlers \in Nat \ {0}
                               /\ NoHandler \notin Games \X Nat

VARIABLES
  status,           \* of the connection of a client
  spectatingGames,  \* by client
  eventHandler,     \* the handler a connection remembers
  callbacks,        \* the handlers the controller calls, by game
  games,            \* the games that exist
  table,            \* their engines
  view              \* the last state a client received of a game it watches

vars == <<status, spectatingGames, eventHandler, callbacks, games, table,
          view>>

(* A handler belongs to a client and a game; n tells apart those of one    *)
(* client for one game.                                                    *)
Handler == Clients \X (1..MaxHandlers)

(* inHand: who was dealt cards and has not folded.  The phase is "betting" *)
(* from PreFlop to River and "showdown" in Showdown and HandComplete.      *)
EmptyTable == [players |-> {}, inHand |-> {}, phase |-> "betting",
               running |-> FALSE]

Init ==
  /\ status = [c \in Clients |-> "unknown"]
  /\ spectatingGames = [c \in Clients |-> {}]
  /\ eventHandler = [c \in Clients |-> NoHandler]
  /\ callbacks = [g \in Games |-> {}]
  /\ games = {}
  /\ table = [g \in Games |-> EmptyTable]
  /\ view = [c \in Clients |-> [g \in Games |-> NoView]]

IsConnected(c) == status[c] \in {"open", "spectator"}

-----------------------------------------------------------------------------
(* What a spectator sees *)

(* shouldShowHoleCards() for somebody who does not play. *)
shouldShowHoleCards(t, p) == t.phase = "showdown" /\ p \in t.inHand

(* getStateWithVisibility("spectator") *)
getStateWithVisibility(t) ==
  [phase |-> t.phase,
   shown |-> {p \in t.players : shouldShowHoleCards(t, p)}]

(* A handler of c that game g will call. *)
Subscribed(c, g) == \E n \in 1..MaxHandlers : <<c, n>> \in callbacks[g]

(* handleSpectatorGameEvent() is called for c and does not return at once. *)
Hears(c, g) == /\ Subscribed(c, g)
               /\ IsConnected(c)
               /\ g \in spectatingGames[c]

(* The events of a hand, each followed by the state of the table when it   *)
(* is sent.                                                                *)
HandEvent(g, t) ==
  view' = [c \in Clients |->
    IF Hears(c, g) THEN [view[c] EXCEPT ![g] = getStateWithVisibility(t)]
    ELSE view[c]]

(* player_joined and player_left are sent without the state. *)
SeatEvent == UNCHANGED view

(* Who is gone has no seat and no cards. *)
Without(t, ps) == [t EXCEPT !.players = @ \ ps, !.inHand = @ \ ps]

-----------------------------------------------------------------------------
(* The games *)

CreateGame(g) ==
  /\ g \notin games
  /\ games' = games \cup {g}
  /\ table' = [table EXCEPT ![g] = EmptyTable]
  /\ UNCHANGED <<status, spectatingGames, eventHandler, callbacks, view>>

(* Mutant: the subscriptions outlive the game. *)
RemoveGameOnly(g) ==
  /\ g \in games
  /\ games' = games \ {g}
  /\ UNCHANGED <<status, spectatingGames, eventHandler, callbacks, table, view>>

(* The connections go on watching a game that is removed. *)
RemoveGame(g) ==
  /\ g \in games
  /\ games' = games \ {g}
  /\ callbacks' = [callbacks EXCEPT ![g] = {}]
  /\ table' = [table EXCEPT ![g] = EmptyTable]
  /\ UNCHANGED <<status, spectatingGames, eventHandler, view>>

PlayerJoins(g, p) ==
  /\ g \in games /\ ~table[g].running /\ p \notin table[g].players
  /\ table' = [table EXCEPT ![g].players = @ \cup {p}]
  /\ SeatEvent
  /\ UNCHANGED <<status, spectatingGames, eventHandler, callbacks, games>>

PlayerLeaves(g, p) ==
  /\ g \in games /\ p \in table[g].players
  /\ table' = [table EXCEPT ![g] = Without(@, {p})]
  /\ SeatEvent
  /\ UNCHANGED <<status, spectatingGames, eventHandler, callbacks, games>>

Dealt(t) == [t EXCEPT !.inHand = t.players, !.phase = "betting",
                      !.running = TRUE]

(* Mutant: the start of a hand is announced without its state. *)
StartHandUnseen(g) ==
  /\ g \in games /\ Cardinality(table[g].players) >= 2
  /\ table' = [table EXCEPT ![g] = Dealt(@)]
  /\ SeatEvent
  /\ UNCHANGED <<status, spectatingGames, eventHandler, callbacks, games>>

(* startHand(), which announces hand_started. *)
StartHand(g) ==
  /\ g \in games /\ Cardinality(table[g].players) >= 2
  /\ table' = [table EXCEPT ![g] = Dealt(@)]
  /\ HandEvent(g, Dealt(table[g]))
  /\ UNCHANGED <<status, spectatingGames, eventHandler, callbacks, games>>

(* An action, a fold or another one, and the betting goes on. *)
Folds(g) == {{}} \cup {{p} : p \in table[g].inHand}

Act(g) ==
  /\ g \in games /\ table[g].running
  /\ \E folded \in Folds(g) :
       LET left == [table[g] EXCEPT !.inHand = @ \ folded]
       IN  /\ Cardinality(left.inHand) > 1
           /\ table' = [table EXCEPT ![g] = left]
           /\ HandEvent(g, left)
  /\ UNCHANGED <<status, spectatingGames, eventHandler, callbacks, games>>

(* The action that ends the hand: a hand that is won by default ends in    *)
(* the phase after the present one, Showdown on the river.  The last event *)
(* with a state is hand_complete; then the players without chips go.       *)
EndHand(g) ==
  /\ g \in games /\ table[g].running
  /\ \E folded \in Folds(g), phase \in {"betting", "showdown"},
        busted \in SUBSET table[g].players :
       LET over == [table[g] EXCEPT !.inHand = @ \ folded, !.phase = phase,
                                    !.running = FALSE]
       IN  /\ over.inHand # {}
           /\ phase = "betting" => Cardinality(over.inHand) = 1
           /\ busted # table[g].players
           /\ HandEvent(g, over)
           /\ table' = [table EXCEPT ![g] = Without(over, busted)]
  /\ UNCHANGED <<status, spectatingGames, eventHandler, callbacks, games>>

-----------------------------------------------------------------------------
(* The messages of a spectator *)

Connect(c) ==
  /\ status[c] = "unknown"
  /\ status' = [status EXCEPT ![c] = "open"]
  /\ UNCHANGED <<spectatingGames, eventHandler, callbacks, games, table, view>>

(* handleSpectatorAuth() with the right key: it forgets what is watched,   *)
(* and unsubscribes nothing.                                               *)
SpectatorAuth(c) ==
  /\ IsConnected(c)
  /\ c \in OneAtATime => status[c] = "open"
  /\ status' = [status EXCEPT ![c] = "spectator"]
  /\ spectatingGames' = [spectatingGames EXCEPT ![c] = {}]
  /\ view' = [view EXCEPT ![c] = [g \in Games |-> NoView]]
  /\ UNCHANGED <<eventHandler, callbacks, games, table>>

(* The number of a handler that is neither subscribed nor remembered. *)
Fresh(c, g, n) == /\ <<c, n>> \notin callbacks[g]
                  /\ eventHandler[c] # <<g, n>>
                  /\ \A k \in 1..(n - 1) : \/ <<c, k>> \in callbacks[g]
                                           \/ eventHandler[c] = <<g, k>>

(* Mutant: the handler is subscribed where it is remembered. *)
WatchSubscribingOnce(c, g) ==
  /\ status[c] = "spectator"
  /\ c \in OneAtATime => spectatingGames[c] = {}
  /\ g \in games
  /\ IF eventHandler[c] = NoHandler
     THEN /\ eventHandler' = [eventHandler EXCEPT ![c] = <<g, 1>>]
          /\ callbacks' = [callbacks EXCEPT ![g] = @ \cup {<<c, 1>>}]
     ELSE UNCHANGED <<eventHandler, callbacks>>
  /\ spectatingGames' = [spectatingGames EXCEPT ![c] = @ \cup {g}]
  /\ view' = [view EXCEPT ![c][g] = getStateWithVisibility(table[g])]
  /\ UNCHANGED <<status, games, table>>

(* handleSpectateGame(): a new handler each time, remembered if none is. *)
Watch(c, g) ==
  /\ status[c] = "spectator"
  /\ c \in OneAtATime => spectatingGames[c] = {}
  /\ g \in games
  /\ \E n \in 1..MaxHandlers :
       /\ Fresh(c, g, n)
       /\ eventHandler' = [eventHandler EXCEPT ![c] =
                             IF @ = NoHandler THEN <<g, n>> ELSE @]
       /\ callbacks' = [callbacks EXCEPT ![g] = @ \cup {<<c, n>>}]
  /\ spectatingGames' = [spectatingGames EXCEPT ![c] = @ \cup {g}]
  /\ view' = [view EXCEPT ![c][g] = getStateWithVisibility(table[g])]
  /\ UNCHANGED <<status, games, table>>

(* unsubscribeFromGame() with the remembered handler, which is not found   *)
(* when it was subscribed to another game.                                 *)
UnsubscribedFrom(c, gs) ==
  [g \in Games |-> callbacks[g] \
     {<<c, n>> : n \in {k \in 1..MaxHandlers : /\ g \in gs
                                              /\ eventHandler[c] = <<g, k>>}}]

(* Mutant: the handler is unsubscribed and not forgotten. *)
UnwatchRemembering(c, g) ==
  /\ status[c] = "spectator"
  /\ g \in spectatingGames[c]
  /\ spectatingGames' = [spectatingGames EXCEPT ![c] = @ \ {g}]
  /\ callbacks' = IF spectatingGames[c] = {g} THEN UnsubscribedFrom(c, {g})
                  ELSE callbacks
  /\ view' = [view EXCEPT ![c][g] = NoView]
  /\ UNCHANGED <<status, eventHandler, games, table>>

(* handleStopSpectating(): only with the last game watched is a handler    *)
(* unsubscribed and forgotten.                                             *)
Unwatch(c, g) ==
  LET last == spectatingGames[c] = {g}
  IN  /\ status[c] = "spectator"
      /\ g \in spectatingGames[c]
      /\ spectatingGames' = [spectatingGames EXCEPT ![c] = @ \ {g}]
      /\ callbacks' = IF last THEN UnsubscribedFrom(c, {g}) ELSE callbacks
      /\ eventHandler' = [eventHandler EXCEPT ![c] =
                            IF last THEN NoHandler ELSE @]
      /\ view' = [view EXCEPT ![c][g] = NoView]
      /\ UNCHANGED <<status, games, table>>

(* handleDisconnection() of a spectator *)
Disconnect(c) ==
  /\ IsConnected(c)
  /\ status' = [status EXCEPT ![c] = "closed"]
  /\ callbacks' = UnsubscribedFrom(c, spectatingGames[c])
  /\ spectatingGames' = [spectatingGames EXCEPT ![c] =
                           IF eventHandler[c] = NoHandler THEN @ ELSE {}]
  /\ eventHandler' = [eventHandler EXCEPT ![c] = NoHandler]
  /\ view' = [view EXCEPT ![c] = [g \in Games |-> NoView]]
  /\ UNCHANGED <<games, table>>

Next ==
  \/ \E g \in Games : \/ CreateGame(g)
                      \/ RemoveGame(g)
                      \/ StartHand(g)
                      \/ Act(g)
                      \/ EndHand(g)
                      \/ \E p \in Players : PlayerJoins(g, p) \/ PlayerLeaves(g, p)
  \/ \E c \in Clients : \/ Connect(c)
                        \/ SpectatorAuth(c)
                        \/ Disconnect(c)
                        \/ \E g \in Games : Watch(c, g) \/ Unwatch(c, g)

Spec == Init /\ [][Next]_vars

-----------------------------------------------------------------------------
(* Properties *)

(* The type invariant: only games that exist have subscribers and seats. *)
TypeOK ==
  /\ status \in [Clients -> {"unknown", "open", "spectator", "closed"}]
  /\ spectatingGames \in [Clients -> SUBSET Games]
  /\ eventHandler \in [Clients -> (Games \X (1..MaxHandlers)) \cup {NoHandler}]
  /\ callbacks \in [Games -> SUBSET Handler]
  /\ games \subseteq Games
  /\ \A g \in Games \ games : callbacks[g] = {} /\ table[g] = EmptyTable
  /\ table \in [Games -> [players : SUBSET Players, inHand : SUBSET Players,
                          phase : {"betting", "showdown"}, running : BOOLEAN]]
  /\ \A g \in Games : table[g].inHand \subseteq table[g].players
  /\ view \in [Clients -> [Games -> {NoView} \cup
       [phase : {"betting", "showdown"}, shown : SUBSET Players]]]

(* What a spectator has on the screen is never out of date, although the   *)
(* state is sent only after some events and by whatever handlers are left: *)
(* the phase is the present one, no hole card is seen while a hand is      *)
(* played, and after a showdown the cards of everybody who did not fold    *)
(* and is still there have been shown.                                     *)
ViewIsCurrent ==
  \A c \in Clients, g \in Games : Hears(c, g) =>
    /\ view[c][g].phase = table[g].phase
    /\ table[g].running => view[c][g].shown = {}
    /\ table[g].phase = "showdown" => table[g].inHand \subseteq view[c][g].shown

(* Whoever asks to watch a game hears of it from then on, whatever other   *)
(* games he begins or stops to watch, as long as he watches it and the     *)
(* game exists.  (One that is created again under the name of a removed    *)
(* game is watched and not heard.)                                         *)
HeardWhileWatched ==
  [][\A c \in Clients, g \in Games :
       /\ status'[c] = "spectator"
       /\ g \in spectatingGames'[c] \cap games'
       /\ g \notin spectatingGames[c] \/ Hears(c, g)
       => Hears(c, g)']_vars

(* A client that watches one game at a time has no other handler than the  *)
(* remembered one of the game it watches, so that events come once and     *)
(* nothing is left when it stops or disconnects.  (Clients that watch two  *)
(* games, or one twice, leave handlers behind.)                            *)
NothingLeftBehind ==
  \A c \in OneAtATime, g \in Games, n \in 1..MaxHandlers :
    <<c, n>> \in callbacks[g] => /\ Hears(c, g)
                                /\ eventHandler[c] = <<g, n>>

=============================================================================
