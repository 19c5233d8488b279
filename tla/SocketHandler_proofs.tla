------------------------ MODULE SocketHandler_proofs ------------------------
(***************************************************************************)
(* For any number of games, bots and handlers: turns are timed, no timer   *)
(* of another turn runs on turn, closed connections have no timer.         *)
(***************************************************************************)
EXTENDS SocketHandler, TLAPS

-----------------------------------------------------------------------------
(* The inductive invariant *)

(* Whoever has a seat is in the map, with one game. *)
SeatsAreMapped ==
  \A g \in Games, b \in Bots : b \in table[g].seated => playerGameMap[b] = g

(* Who is connected and seated has that game in the connection. *)
SitsInItsGame ==
  \A g \in Games, b \in Bots :
    b \in table[g].seated /\ IsConnected(b) => connection[b].gameId = g

(* A connection with a game hears that game. *)
HearsItsGame ==
  \A b \in Bots : IsConnected(b) /\ connection[b].gameId # NoGame
                    => handlers[connection[b].gameId][b] > 0

(* A socket that never was connected is unknown everywhere. *)
UnknownIsAway ==
  \A b \in Bots : connection[b].status = "unknown"
                    => /\ turnTimers[b] = "off"
                       /\ playerGameMap[b] = NoGame
                       /\ connection[b].gameId = NoGame

Seats == SeatsAreMapped /\ SitsInItsGame /\ HearsItsGame

Timers == UnknownIsAway /\ ClosedIsSilent /\ NoEarlyTimeout /\ TurnIsTimed

Inv == TypeOK /\ Seats /\ Timers

(* What is known of one bot's timer after a step, given the tables. *)
BotTimed(g, b) ==
  Accepts(g, b) =>
    /\ turnTimers[b] # "stale"
    /\ IsConnected(b) => \/ turnTimers[b] \in {"current", "refused"}
                         \/ \E h \in Games \ {g} : handlers[h][b] > 0

(* A turn that is timed is what TurnIsTimed and NoEarlyTimeout say. *)
LEMMA TimedBotByBot ==
  (NoEarlyTimeout /\ TurnIsTimed) <=> \A g \in Games, b \in Bots : BotTimed(g, b)
BY DEF NoEarlyTimeout, TurnIsTimed, BotTimed, OnTurn

(* The specification starts in the invariant. *)
LEMMA InitInv == Init => Inv
BY SocketAssumption DEF Init, Inv, TypeOK, Seats, Timers, SeatsAreMapped, SitsInItsGame,
   HearsItsGame, UnknownIsAway, ClosedIsSilent, NoEarlyTimeout, TurnIsTimed,
   Accepts, OnTurn, IsConnected, Status, Timer

-----------------------------------------------------------------------------
(* Events *)

(* Events keep the timers timers. *)
LEMMA EventTypes ==
  ASSUME NEW tm \in [Bots -> Timer], NEW g, NEW before, NEW turn
  PROVE  /\ TurnEvent(tm, g, before, turn) \in [Bots -> Timer]
         /\ EndEvent(tm, g, before) \in [Bots -> Timer]
BY DEF TurnEvent, EndEvent, LeftOver, startTurnTimer, Timer

(* An event of a game leaves the timer of a bot alone that is neither the  *)
(* next player nor a seated player whose turn is over.                     *)
LEMMA TurnEventElsewhere ==
  ASSUME NEW tm, NEW g, NEW before, NEW turn, NEW b \in Bots,
         b # turn, b \notin table[g].seated
  PROVE  TurnEvent(tm, g, before, turn)[b] = tm[b]
BY DEF TurnEvent

(* A bot that is not connected gets no timer from an event. *)
LEMMA EventsAreSilent ==
  ASSUME NEW tm, NEW g, NEW before, NEW turn, NEW b \in Bots,
         ~IsConnected(b), tm[b] = "off"
  PROVE  /\ TurnEvent(tm, g, before, turn)[b] = "off"
         /\ EndEvent(tm, g, before)[b] = "off"
BY DEF TurnEvent, EndEvent, LeftOver, Hears

(* A seated, connected bot whose turn is announced gets a timer. *)
LEMMA AnnouncedIsTimed ==
  ASSUME Inv, NEW tm, NEW g \in Games, NEW before, NEW b \in Bots,
         b \in table[g].seated, IsConnected(b)
  PROVE  TurnEvent(tm, g, before, b)[b] = "current"
<1>1. connection[b].gameId = g BY DEF Inv, Seats, SitsInItsGame
<1>2. g # NoGame BY SocketAssumption
<1>3. Hears(g, b) BY <1>1, <1>2 DEF Inv, Seats, HearsItsGame, Hears
<1> QED BY <1>1, <1>2, <1>3 DEF TurnEvent, startTurnTimer

-----------------------------------------------------------------------------
(* The messages that touch neither tables nor the timers of others *)

(* The socket connects. *)
LEMMA ConnectInv == ASSUME Inv, NEW b \in Bots, Connect(b) PROVE Inv'
<1>1. TypeOK' BY DEF Inv, TypeOK, Connect, Status
<1>2. Seats' BY DEF Inv, TypeOK, Connect, Seats, Timers, SeatsAreMapped, SitsInItsGame,
        HearsItsGame, UnknownIsAway, IsConnected
<1>3. (UnknownIsAway /\ ClosedIsSilent)'
      BY DEF Inv, TypeOK, Timers, UnknownIsAway, ClosedIsSilent, Connect
<1>4. ASSUME NEW g \in Games, NEW c \in Bots PROVE BotTimed(g, c)'
  <2>0. BotTimed(g, c) BY TimedBotByBot DEF Inv, Timers
  <2>1. CASE c # b BY <2>0, <2>1 DEF Inv, TypeOK, BotTimed, Accepts, IsConnected, Connect
  <2>2. CASE c = b
    <3>1. b \notin table[g].seated
          BY SocketAssumption DEF Inv, Seats, SeatsAreMapped, Timers, UnknownIsAway, Connect
    <3> QED BY <2>2, <3>1 DEF Inv, TypeOK, BotTimed, Accepts, Connect
  <2> QED BY <2>1, <2>2
<1>5. (NoEarlyTimeout /\ TurnIsTimed)' BY <1>4 DEF NoEarlyTimeout, TurnIsTimed, BotTimed, OnTurn
<1> QED BY <1>1, <1>2, <1>3, <1>5 DEF Inv, Timers

(* A subscription takes no handler away. *)
LEMMA SubscribeType ==
  ASSUME TypeOK, NEW b \in Bots, NEW g \in Games \cup {NoGame}, Subscribe(b, g)
  PROVE  /\ handlers' \in [Games -> [Bots -> 0..MaxHandlers]]
         /\ \A h \in Games, c \in Bots : handlers'[h][c] >= handlers[h][c]
         /\ g # NoGame => handlers'[g][b] > 0
BY SocketAssumption DEF TypeOK, Subscribe

(* The bot logs in, perhaps again, perhaps too late. *)
LEMMA LoginInv == ASSUME Inv, NEW b \in Bots, Login(b) PROVE Inv'
<1>0. connection[b].gameId \in Games \cup {NoGame} /\ Subscribe(b, connection[b].gameId)
      BY DEF Inv, TypeOK, Login
<1>a. /\ handlers' \in [Games -> [Bots -> 0..MaxHandlers]]
      /\ \A h \in Games, c \in Bots : handlers'[h][c] >= handlers[h][c]
      BY <1>0, SubscribeType DEF Inv
<1>1. TypeOK' BY <1>a DEF Inv, TypeOK, Login, Status
<1>b. \A c \in Bots : /\ connection'[c].gameId = connection[c].gameId
                      /\ IsConnected(c)' = IsConnected(c)
                      /\ (connection'[c].status = "unknown") = (connection[c].status = "unknown")
                      /\ (connection'[c].status = "closed") = (connection[c].status = "closed")
      BY DEF Inv, TypeOK, Login, Status, IsConnected
<1>c. \A h \in Games, c \in Bots : handlers[h][c] > 0 => handlers'[h][c] > 0
      BY <1>a, SocketAssumption DEF Inv, TypeOK
<1>d. UNCHANGED <<turnTimers, table, playerGameMap, pendingUnseats>> BY DEF Login
<1>e. \A c \in Bots : connection[c].gameId \in Games \cup {NoGame} BY DEF Inv, TypeOK
<1>2. Seats' BY <1>b, <1>c, <1>d, <1>e DEF Inv, Seats, SeatsAreMapped, SitsInItsGame, HearsItsGame
<1>3. Timers' BY <1>b, <1>c, <1>d DEF Inv, Timers, UnknownIsAway,
        ClosedIsSilent, NoEarlyTimeout, TurnIsTimed, OnTurn, Accepts
<1> QED BY <1>1, <1>2, <1>3 DEF Inv

(* The bot asks to be subscribed again. *)
LEMMA ReconnectInv == ASSUME Inv, NEW b \in Bots, Reconnect(b) PROVE Inv'
<1>0. connection[b].gameId \in Games \cup {NoGame} /\ Subscribe(b, connection[b].gameId)
      BY DEF Inv, TypeOK, Reconnect
<1>a. /\ handlers' \in [Games -> [Bots -> 0..MaxHandlers]]
      /\ \A h \in Games, c \in Bots : handlers'[h][c] >= handlers[h][c]
      BY <1>0, SubscribeType DEF Inv
<1>1. TypeOK' BY <1>a DEF Inv, TypeOK, Reconnect
<1>c. \A h \in Games, c \in Bots : handlers[h][c] > 0 => handlers'[h][c] > 0
      BY <1>a, SocketAssumption DEF Inv, TypeOK
<1>d. UNCHANGED <<connection, turnTimers, table, playerGameMap, pendingUnseats>> BY DEF Reconnect
<1>e. \A c \in Bots : connection[c].gameId \in Games \cup {NoGame} BY DEF Inv, TypeOK
<1>2. Seats' BY <1>c, <1>d, <1>e DEF Inv, Seats, SeatsAreMapped, SitsInItsGame, HearsItsGame, IsConnected
<1>3. Timers' BY <1>c, <1>d DEF Inv, Timers, UnknownIsAway,
        ClosedIsSilent, NoEarlyTimeout, TurnIsTimed, OnTurn, Accepts, IsConnected
<1> QED BY <1>1, <1>2, <1>3 DEF Inv

(* A refused submission changes the timer of the bot. *)
LEMMA SubmitRefusedInv == ASSUME Inv, NEW b \in Bots, SubmitRefused(b) PROVE Inv'
<1>1. TypeOK' BY DEF Inv, TypeOK, SubmitRefused, Timer
<1>2. Seats' BY DEF Inv, Seats, SeatsAreMapped, SitsInItsGame, HearsItsGame,
        IsConnected, SubmitRefused
<1>3. (UnknownIsAway /\ ClosedIsSilent)'
      BY DEF Inv, TypeOK, Timers, UnknownIsAway, ClosedIsSilent, SubmitRefused
<1>4. ASSUME NEW g \in Games, NEW c \in Bots PROVE BotTimed(g, c)'
  <2>0. BotTimed(g, c) BY TimedBotByBot DEF Inv, Timers
  <2>1. CASE c # b BY <2>0, <2>1 DEF Inv, TypeOK, BotTimed, Accepts, IsConnected, SubmitRefused
  <2>2. CASE c = b
    <3>1. Accepts(g, b) => connection[b].gameId = g
          BY DEF Inv, TypeOK, Seats, SitsInItsGame, Accepts, IsConnected, SubmitRefused
    <3> QED BY <2>2, <3>1 DEF Inv, TypeOK, BotTimed, Accepts, IsConnected, SubmitRefused
  <2> QED BY <2>1, <2>2
<1>5. (NoEarlyTimeout /\ TurnIsTimed)' BY <1>4 DEF NoEarlyTimeout, TurnIsTimed, BotTimed, OnTurn
<1> QED BY <1>1, <1>2, <1>3, <1>5 DEF Inv, Timers

-----------------------------------------------------------------------------
(* Leaving *)

(* The only handler that goes away is one of the bot, in its game. *)
LEMMA UnsubscribedType ==
  ASSUME Inv, NEW b \in Bots, IsConnected(b)
  PROVE  /\ Unsubscribed(b) \in [Games -> [Bots -> 0..MaxHandlers]]
         /\ \A h \in Games, c \in Bots :
              c # b \/ h # connection[b].gameId => Unsubscribed(b)[h][c] = handlers[h][c]
<1>1. connection[b].gameId # NoGame => handlers[connection[b].gameId][b] > 0
      BY DEF Inv, Seats, HearsItsGame
<1> QED BY <1>1, SocketAssumption DEF Inv, TypeOK, Unsubscribed

(* The socket is closed. *)
LEMMA DisconnectInv == ASSUME Inv, NEW b \in Bots, Disconnect(b) PROVE Inv'
<1>0. IsConnected(b) BY DEF Disconnect
<1>t. handlers' \in [Games -> [Bots -> 0..MaxHandlers]] BY <1>0, UnsubscribedType DEF Disconnect
<1>s. connection' \in [Bots -> [status : Status, gameId : Games \cup {NoGame}]]
      BY DEF Inv, TypeOK, Disconnect, Status
<1>r. turnTimers' \in [Bots -> Timer] BY DEF Inv, TypeOK, Disconnect, Timer
<1>1. TypeOK' BY <1>r, <1>s, <1>t DEF Inv, TypeOK, Disconnect
<1>a. \A c \in Bots : c # b => connection'[c] = connection[c]
      BY DEF Inv, TypeOK, Disconnect
<1>b. ~IsConnected(b)' /\ connection'[b].status = "closed"
      BY DEF Inv, TypeOK, Disconnect, IsConnected
<1>c. \A c \in Bots, h \in Games : c # b => handlers'[h][c] = handlers[h][c]
      BY <1>0, UnsubscribedType DEF Disconnect
<1>d. UNCHANGED <<table, playerGameMap>> BY DEF Disconnect
<1>e. \A c \in Bots : turnTimers'[c] = IF c = b THEN "off" ELSE turnTimers[c]
      BY DEF Inv, TypeOK, Disconnect
<1>f. \A c \in Bots : c # b => IsConnected(c)' = IsConnected(c) BY <1>a DEF IsConnected
<1>g. \A c \in Bots : connection[c].gameId \in Games \cup {NoGame} BY DEF Inv, TypeOK
<1>2. Seats' BY <1>a, <1>b, <1>c, <1>d, <1>f, <1>g
      DEF Inv, Seats, SeatsAreMapped, SitsInItsGame, HearsItsGame
<1>3. (UnknownIsAway /\ ClosedIsSilent)'
      BY <1>a, <1>b, <1>d, <1>e DEF Inv, Timers, UnknownIsAway, ClosedIsSilent
<1>4. ASSUME NEW g \in Games, NEW c \in Bots PROVE BotTimed(g, c)'
  <2>0. BotTimed(g, c) BY TimedBotByBot DEF Inv, Timers
  <2> QED BY <2>0, <1>b, <1>c, <1>d, <1>e, <1>f DEF BotTimed, Accepts
<1>5. (NoEarlyTimeout /\ TurnIsTimed)' BY <1>4 DEF NoEarlyTimeout, TurnIsTimed, BotTimed, OnTurn
<1> QED BY <1>1, <1>2, <1>3, <1>5 DEF Inv, Timers

(* Unseating keeps the tables tables. *)
LEMMA UnseatedType ==
  ASSUME TypeOK, NEW b \in Bots, NEW g \in Games
  PROVE  LET t == [table EXCEPT ![g] = Unseated(@, b)]
         IN  /\ t \in [Games -> [seated : SUBSET Bots, able : SUBSET Bots,
                                 turn : Bots \cup {NoBot}, running : BOOLEAN]]
             /\ \A h \in Games : t[h].able \subseteq t[h].seated
<1>1. Unseated(table[g], b) \in [seated : SUBSET Bots, able : SUBSET Bots,
                                 turn : Bots \cup {NoBot}, running : BOOLEAN]
      BY DEF TypeOK, Unseated
<1>2. Unseated(table[g], b).able \subseteq Unseated(table[g], b).seated
      BY DEF TypeOK, Unseated
<1> QED BY <1>1, <1>2 DEF TypeOK

(* One player loses the seat and the place in the map; the others keep     *)
(* everything.                                                             *)
LEMMA UnseatedInv ==
  ASSUME Inv, NEW b \in Bots, NEW g \in Games, IsConnected(b), b \in table[g].seated,
         table' = [table EXCEPT ![g] = Unseated(@, b)],
         playerGameMap' = [playerGameMap EXCEPT ![b] = NoGame],
         turnTimers' = [turnTimers EXCEPT ![b] = LeftOver(@)],
         IsConnected(b)',
         \A c \in Bots : c # b => connection'[c] = connection[c],
         \A c \in Bots, h \in Games : c # b => handlers'[h][c] = handlers[h][c]
  PROVE  SeatsAreMapped' /\ SitsInItsGame' /\ Timers'
<1>1. \A h \in Games : /\ b \notin table'[h].seated
                       /\ b \notin table'[h].able
                       /\ table'[h].seated \subseteq table[h].seated
                       /\ table'[h].turn = table[h].turn
                       /\ table'[h].running = table[h].running
                       /\ \A c \in Bots : c # b => (c \in table'[h].able <=> c \in table[h].able)
      BY SocketAssumption DEF Inv, TypeOK, Seats, SeatsAreMapped, Unseated
<1>2. SeatsAreMapped' BY <1>1 DEF Inv, TypeOK, Seats, SeatsAreMapped
<1>a. \A c \in Bots : c # b => IsConnected(c)' = IsConnected(c) BY DEF IsConnected
<1>3. SitsInItsGame' BY <1>1, <1>a DEF Inv, TypeOK, Seats, SitsInItsGame
<1>b. connection'[b].status \notin {"unknown", "closed"} BY DEF IsConnected
<1>c. \A c \in Bots : c # b => turnTimers'[c] = turnTimers[c] /\ playerGameMap'[c] = playerGameMap[c]
      BY DEF Inv, TypeOK
<1>4. (UnknownIsAway /\ ClosedIsSilent)'
      BY <1>b, <1>c DEF Inv, Timers, UnknownIsAway, ClosedIsSilent
<1>5. ASSUME NEW h \in Games, NEW c \in Bots PROVE BotTimed(h, c)'
  <2>0. BotTimed(h, c) BY TimedBotByBot DEF Inv, Timers
  <2>1. CASE c = b BY <1>1, <2>1 DEF BotTimed, Accepts
  <2>2. CASE c # b
    <3>1. Accepts(h, c)' = Accepts(h, c) BY <1>1, <2>2 DEF Accepts
    <3> QED BY <2>0, <2>2, <3>1, <1>a, <1>c DEF BotTimed
  <2> QED BY <2>1, <2>2
<1>6. (NoEarlyTimeout /\ TurnIsTimed)' BY <1>5 DEF NoEarlyTimeout, TurnIsTimed, BotTimed, OnTurn
<1> QED BY <1>2, <1>3, <1>4, <1>6 DEF Timers

(* The bot leaves. *)
LEMMA LeaveGameInv == ASSUME Inv, NEW b \in Bots, LeaveGame(b) PROVE Inv'
<1>0. PICK g \in Games : g = connection[b].gameId
      BY DEF Inv, TypeOK, LeaveGame
<1>1. IsConnected(b) BY DEF LeaveGame, IsConnected
<1>a. \A c \in Bots : c # b => connection'[c] = connection[c]
      BY DEF Inv, TypeOK, LeaveGame
<1>b. IsConnected(b)' /\ connection'[b].gameId = NoGame
      BY DEF Inv, TypeOK, LeaveGame, IsConnected
<1>c. \A c \in Bots, h \in Games : c # b => handlers'[h][c] = handlers[h][c]
      BY <1>1, UnsubscribedType DEF LeaveGame
<1>2. TypeOK'
  <2>1. handlers' \in [Games -> [Bots -> 0..MaxHandlers]] BY <1>1, UnsubscribedType DEF LeaveGame
  <2>2. table' = [table EXCEPT ![g] = Unseated(@, b)] BY <1>0 DEF LeaveGame
  <2>3. /\ connection' \in [Bots -> [status : Status, gameId : Games \cup {NoGame}]]
        /\ turnTimers' \in [Bots -> Timer]
        /\ playerGameMap' \in [Bots -> Games \cup {NoGame}]
        /\ pendingUnseats' \in [Games -> SUBSET Bots]
        BY DEF Inv, TypeOK, LeaveGame, LeftOver, Timer
  <2> QED BY <2>1, <2>2, <2>3, UnseatedType DEF Inv, TypeOK
<1>3. SeatsAreMapped' /\ SitsInItsGame' /\ Timers'
      BY <1>0, <1>1, <1>a, <1>b, <1>c, UnseatedInv DEF LeaveGame
<1>f. \A c \in Bots : c # b => IsConnected(c)' = IsConnected(c) BY <1>a DEF IsConnected
<1>g. \A c \in Bots : connection[c].gameId \in Games \cup {NoGame} BY DEF Inv, TypeOK
<1>4. HearsItsGame' BY <1>a, <1>b, <1>c, <1>f, <1>g DEF Inv, Seats, HearsItsGame
<1> QED BY <1>2, <1>3, <1>4 DEF Inv, Seats

(* The bot asks to leave. *)
LEMMA UnseatRequestInv == ASSUME Inv, NEW b \in Bots, UnseatRequest(b) PROVE Inv'
<1>0. PICK g \in Games : g = connection[b].gameId
      BY DEF Inv, TypeOK, UnseatRequest
<1>1. IsConnected(b) BY DEF UnseatRequest, IsConnected
<1>u. UNCHANGED <<connection, handlers>> BY DEF UnseatRequest
<1>2. TypeOK'
  <2>1. table' = table \/ table' = [table EXCEPT ![g] = Unseated(@, b)]
        BY <1>0 DEF UnseatRequest
  <2>2. turnTimers' \in [Bots -> Timer]
        BY DEF Inv, TypeOK, UnseatRequest, LeftOver, Timer
  <2>3. playerGameMap' \in [Bots -> Games \cup {NoGame}]
        BY DEF Inv, TypeOK, UnseatRequest
  <2>4. pendingUnseats' \in [Games -> SUBSET Bots]
    <3>1. \/ pendingUnseats' = pendingUnseats
          \/ pendingUnseats' = [pendingUnseats EXCEPT ![g] = @ \cup {b}]
          BY <1>0 DEF UnseatRequest
    <3>2. pendingUnseats \in [Games -> SUBSET Bots] BY DEF Inv, TypeOK
    <3> QED BY <3>1, <3>2
  <2>5. CASE table' = table BY <1>u, <2>2, <2>3, <2>4, <2>5 DEF Inv, TypeOK
  <2>6. CASE table' = [table EXCEPT ![g] = Unseated(@, b)]
        BY <1>u, <2>2, <2>3, <2>4, <2>6, UnseatedType DEF Inv, TypeOK
  <2> QED BY <2>1, <2>5, <2>6
<1>4. HearsItsGame' BY <1>u DEF Inv, Seats, HearsItsGame, IsConnected
<1>5. CASE UNCHANGED <<table, playerGameMap, turnTimers>>
  <2>1. SeatsAreMapped' /\ SitsInItsGame'
        BY <1>5, <1>u DEF Inv, Seats, SeatsAreMapped, SitsInItsGame, IsConnected
  <2>2. Timers' BY <1>5, <1>u DEF Inv, Timers, UnknownIsAway, ClosedIsSilent,
          NoEarlyTimeout, TurnIsTimed, OnTurn, Accepts, IsConnected
  <2> QED BY <2>1, <2>2, <1>2, <1>4 DEF Inv, Seats
<1>6. CASE ~UNCHANGED <<table, playerGameMap, turnTimers>>
  <2>1. IsConnected(b)' BY <1>1, <1>u DEF IsConnected
  <2>2. SeatsAreMapped' /\ SitsInItsGame' /\ Timers'
        BY <1>0, <1>1, <1>u, <1>6, <2>1, UnseatedInv DEF UnseatRequest
  <2> QED BY <2>2, <1>2, <1>4 DEF Inv, Seats
<1> QED BY <1>5, <1>6

-----------------------------------------------------------------------------
(* Hands *)

(* Who is not connected has no timer. *)
LEMMA AwayIsOff ==
  ASSUME Inv, NEW b \in Bots, ~IsConnected(b)
  PROVE  turnTimers[b] = "off"
BY DEF Inv, TypeOK, Timers, UnknownIsAway, ClosedIsSilent, IsConnected, Status

(* Nobody sits at two tables. *)
LEMMA OneSeat ==
  ASSUME Inv, NEW g \in Games, NEW h \in Games, NEW b \in Bots,
         b \in table[g].seated, b \in table[h].seated
  PROVE  g = h
BY DEF Inv, Seats, SeatsAreMapped

(* The seated player a turn event announces is timed, or away. *)
LEMMA AnnouncedIsTimedOrAway ==
  ASSUME Inv, NEW tm, NEW g \in Games, NEW before, NEW b \in Bots,
         b \in table[g].seated, ~IsConnected(b) => tm[b] = "off"
  PROVE  LET timer == TurnEvent(tm, g, before, b)[b]
         IN  timer # "stale" /\ (IsConnected(b) => timer = "current")
<1>1. CASE IsConnected(b) BY <1>1, AnnouncedIsTimed
<1>2. CASE ~IsConnected(b) BY <1>2, EventsAreSilent
<1> QED BY <1>1, <1>2

(* What a hand that starts does to the table. *)
LEMMA StartedTable ==
  ASSUME NEW t \in [seated : SUBSET Bots, able : SUBSET Bots,
                    turn : Bots \cup {NoBot}, running : BOOLEAN],
         NEW able \in AbleAfterBlinds(t), NEW turn \in Turns(able)
  PROVE  LET u == Started(t, able, turn)
         IN  /\ u \in [seated : SUBSET Bots, able : SUBSET Bots,
                       turn : Bots \cup {NoBot}, running : BOOLEAN]
             /\ u.seated = t.seated
             /\ u.able \subseteq t.seated
             /\ u.running
             /\ u.turn = turn
             /\ turn \in t.seated \cup {NoBot}
<1>1. able \in SUBSET t.seated BY DEF AbleAfterBlinds
<1>2. turn \in t.seated \cup {NoBot} BY <1>1 DEF Turns
<1> QED BY <1>1, <1>2 DEF Started

(* A hand starts. *)
LEMMA StartHandInv == ASSUME Inv, NEW g \in Games, StartHand(g) PROVE Inv'
<1>1. PICK purged \in SUBSET (IF table[g].running
                             THEN table[g].seated \ table[g].able ELSE {}) :
        LET left == [table[g] EXCEPT !.seated = @ \ purged]
        IN  \E able \in AbleAfterBlinds(left) : \E turn \in Turns(able) :
              /\ table' = [table EXCEPT ![g] = Started(left, able, turn)]
              /\ turnTimers' = TurnEvent(turnTimers, g, table[g].turn, turn)
      BY DEF StartHand
<1> DEFINE left == [table[g] EXCEPT !.seated = @ \ purged]
<1>2a. PICK able \in AbleAfterBlinds(left) : \E turn \in Turns(able) :
        /\ table' = [table EXCEPT ![g] = Started(left, able, turn)]
        /\ turnTimers' = TurnEvent(turnTimers, g, table[g].turn, turn)
      BY <1>1
<1>2. PICK turn \in Turns(able) :
        /\ table' = [table EXCEPT ![g] = Started(left, able, turn)]
        /\ turnTimers' = TurnEvent(turnTimers, g, table[g].turn, turn)
      BY <1>2a
<1>3. /\ left \in [seated : SUBSET Bots, able : SUBSET Bots,
                   turn : Bots \cup {NoBot}, running : BOOLEAN]
      /\ left.seated \subseteq table[g].seated
      BY DEF Inv, TypeOK
<1> HIDE DEF left
<1> DEFINE t == Started(left, able, turn)
<1>4. /\ t \in [seated : SUBSET Bots, able : SUBSET Bots,
                turn : Bots \cup {NoBot}, running : BOOLEAN]
      /\ t.seated \subseteq table[g].seated
      /\ t.able \subseteq t.seated
      /\ t.turn = turn
      /\ turn \in table[g].seated \cup {NoBot}
      BY <1>2, <1>3, StartedTable
<1> HIDE DEF t
<1>u. UNCHANGED <<connection, handlers, playerGameMap, pendingUnseats>> BY DEF StartHand
<1>5. turnTimers' \in [Bots -> Timer] BY <1>2, EventTypes DEF Inv, TypeOK
<1>t. table' = [table EXCEPT ![g] = t] BY <1>2 DEF t
<1>6. TypeOK' BY <1>t, <1>4, <1>5, <1>u DEF Inv, TypeOK
<1>7. \A h \in Games : table'[h] = IF h = g THEN t ELSE table[h]
      BY <1>t DEF Inv, TypeOK
<1>8. Seats' BY <1>4, <1>7, <1>u DEF Inv, Seats, SeatsAreMapped, SitsInItsGame,
        HearsItsGame, IsConnected
<1>9. \A b \in Bots : ~IsConnected(b) => turnTimers'[b] = "off"
      BY <1>2, AwayIsOff, EventsAreSilent
<1>10. (UnknownIsAway /\ ClosedIsSilent)'
       BY <1>9, <1>u DEF Inv, Timers, UnknownIsAway, ClosedIsSilent, IsConnected
<1>11. ASSUME NEW h \in Games, NEW c \in Bots, Accepts(h, c)' PROVE BotTimed(h, c)'
  <2>0. BotTimed(h, c) BY TimedBotByBot DEF Inv, Timers
  <2>1. CASE h = g
    <3>1. c = turn /\ c \in table[g].seated BY <1>4, <1>7, <1>11, <2>1 DEF Accepts
    <3>2. turnTimers'[c] # "stale" /\ (IsConnected(c) => turnTimers'[c] = "current")
          BY <1>2, <3>1, AwayIsOff, AnnouncedIsTimedOrAway
    <3> QED BY <3>2, <1>u DEF BotTimed, IsConnected
  <2>2. CASE h # g
    <3>1. Accepts(h, c) BY <1>7, <1>11, <2>2 DEF Accepts
    <3>2. c \in table[h].seated BY <3>1 DEF Accepts, Inv, TypeOK
    <3>3. c \notin table[g].seated BY <3>2, <2>2, OneSeat
    <3>4. c # turn BY <3>3, <1>4, SocketAssumption
    <3>5. turnTimers'[c] = turnTimers[c] BY <3>3, <3>4, <1>2, TurnEventElsewhere
    <3> QED BY <2>0, <3>1, <3>5, <1>u DEF BotTimed, IsConnected
  <2> QED BY <2>1, <2>2
<1>12. (NoEarlyTimeout /\ TurnIsTimed)' BY <1>11 DEF NoEarlyTimeout, TurnIsTimed, BotTimed, OnTurn
<1> QED BY <1>6, <1>8, <1>10, <1>12 DEF Inv, Timers

(* The timers when an action of b is processed. *)
Cleared(b) == [turnTimers EXCEPT ![b] = "off"]

(* The turn passes on. *)
LEMMA RoundGoesOnInv ==
  ASSUME Inv, NEW g \in Games, NEW b \in Bots, Accepts(g, b),
         RoundGoesOn(g, b, Cleared(b)), UNCHANGED <<connection, handlers>>
  PROVE  Inv'
<1>1. PICK able \in {table[g].able, table[g].able \ {b}} :
        \E announced, turn \in able :
          LET told == TurnEvent(Cleared(b), g, b, announced)
          IN  /\ table' = [table EXCEPT ![g].able = able, ![g].turn = turn]
              /\ turnTimers' \in {TurnEvent(told, g, announced, turn)}
                                 \cup (IF announced = turn THEN {told} ELSE {})
              /\ UNCHANGED <<playerGameMap, pendingUnseats>>
      BY DEF RoundGoesOn
<1>2. PICK announced \in able, turn \in able :
        LET told == TurnEvent(Cleared(b), g, b, announced)
        IN  /\ table' = [table EXCEPT ![g].able = able, ![g].turn = turn]
            /\ turnTimers' \in {TurnEvent(told, g, announced, turn)}
                               \cup (IF announced = turn THEN {told} ELSE {})
            /\ UNCHANGED <<playerGameMap, pendingUnseats>>
      BY <1>1
<1> DEFINE told == TurnEvent(Cleared(b), g, b, announced)
<1>3. /\ b \in table[g].seated
      /\ able \subseteq table[g].seated
      /\ able \subseteq Bots
      /\ announced \in table[g].seated \cap Bots
      /\ turn \in table[g].seated \cap Bots
      BY <1>1, <1>2 DEF Inv, TypeOK, Accepts
<1>4. Cleared(b) \in [Bots -> Timer] BY DEF Cleared, Inv, TypeOK, Timer
<1>5. told \in [Bots -> Timer] BY <1>4, EventTypes
<1>6. \/ turnTimers' = TurnEvent(told, g, announced, turn)
      \/ announced = turn /\ turnTimers' = told
      BY <1>2
<1>7. \A c \in Bots : ~IsConnected(c) => Cleared(b)[c] = "off"
      BY AwayIsOff DEF Cleared, Inv, TypeOK
<1>8. \A c \in Bots : ~IsConnected(c) => told[c] = "off"
      BY <1>7, EventsAreSilent
<1>9. ASSUME NEW c \in Bots, c \notin table[g].seated
      PROVE  turnTimers'[c] = turnTimers[c]
  <2>1. Cleared(b)[c] = turnTimers[c] BY <1>3, <1>9 DEF Cleared, Inv, TypeOK
  <2>2. told[c] = Cleared(b)[c] BY <1>3, <1>9, TurnEventElsewhere
  <2>3. TurnEvent(told, g, announced, turn)[c] = told[c] BY <1>3, <1>9, TurnEventElsewhere
  <2> QED BY <2>1, <2>2, <2>3, <1>6
<1>10. turnTimers'[turn] # "stale" /\ (IsConnected(turn) => turnTimers'[turn] = "current")
       BY <1>3, <1>6, <1>7, <1>8, AnnouncedIsTimedOrAway
<1>11. \A c \in Bots : ~IsConnected(c) => turnTimers'[c] = "off"
       BY <1>6, <1>8, EventsAreSilent
<1>12. turnTimers' \in [Bots -> Timer] BY <1>5, <1>6, EventTypes
<1> HIDE DEF told
<1>13. \A h \in Games : /\ table'[h].seated = table[h].seated
                        /\ table'[h].running = table[h].running
                        /\ table'[h].able = IF h = g THEN able ELSE table[h].able
                        /\ table'[h].turn = IF h = g THEN turn ELSE table[h].turn
       BY <1>2 DEF Inv, TypeOK
<1>14. TypeOK'
  <2>1. table' \in [Games -> [seated : SUBSET Bots, able : SUBSET Bots,
                             turn : Bots \cup {NoBot}, running : BOOLEAN]]
    <3>1. [[table[g] EXCEPT !.able = able] EXCEPT !.turn = turn]
            \in [seated : SUBSET Bots, able : SUBSET Bots,
                 turn : Bots \cup {NoBot}, running : BOOLEAN]
          BY <1>3 DEF Inv, TypeOK
    <3>2. table' = [table EXCEPT ![g] = [[table[g] EXCEPT !.able = able] EXCEPT !.turn = turn]]
          BY <1>2 DEF Inv, TypeOK
    <3> QED BY <3>1, <3>2 DEF Inv, TypeOK
  <2>2. \A h \in Games : table'[h].able \subseteq table'[h].seated
        BY <1>3, <1>13 DEF Inv, TypeOK
  <2> QED BY <2>1, <2>2, <1>2, <1>12 DEF Inv, TypeOK
<1>15. Seats' BY <1>13, <1>2 DEF Inv, Seats, SeatsAreMapped, SitsInItsGame,
         HearsItsGame, IsConnected
<1>16. (UnknownIsAway /\ ClosedIsSilent)'
       BY <1>11, <1>2 DEF Inv, Timers, UnknownIsAway, ClosedIsSilent, IsConnected
<1>17. ASSUME NEW h \in Games, NEW c \in Bots, Accepts(h, c)' PROVE BotTimed(h, c)'
  <2>1. CASE h = g
    <3>1. c = turn BY <1>13, <1>17, <2>1 DEF Accepts
    <3> QED BY <3>1, <1>10 DEF BotTimed, IsConnected
  <2>2. CASE h # g
    <3>1. Accepts(h, c) BY <1>13, <1>17, <2>2 DEF Accepts
    <3>2. c \in table[h].seated BY <3>1 DEF Accepts, Inv, TypeOK
    <3>3. c \notin table[g].seated BY <3>2, <2>2, OneSeat
    <3>4. turnTimers'[c] = turnTimers[c] BY <3>3, <1>9
    <3>5. BotTimed(h, c) BY TimedBotByBot DEF Inv, Timers
    <3> QED BY <3>1, <3>4, <3>5 DEF BotTimed, IsConnected
  <2> QED BY <2>1, <2>2
<1>18. (NoEarlyTimeout /\ TurnIsTimed)' BY <1>17 DEF NoEarlyTimeout, TurnIsTimed, BotTimed, OnTurn
<1> QED BY <1>14, <1>15, <1>16, <1>18 DEF Inv, Timers

(* The hand ends. *)
LEMMA HandEndsInv ==
  ASSUME Inv, NEW g \in Games, NEW b \in Bots, Accepts(g, b),
         HandEnds(g, b, Cleared(b)), UNCHANGED <<connection, handlers>>
  PROVE  Inv'
<1> DEFINE leaving == pendingUnseats[g] \cap table[g].seated
<1>1. PICK able \in {table[g].able, table[g].able \ {b}},
           busted \in SUBSET table[g].seated :
        \E announced, turn \in Turns(able) :
          /\ turnTimers' = EndEvent(TurnEvent(Cleared(b), g, b, announced), g, announced)
          /\ table' = [table EXCEPT ![g] =
               [seated |-> @.seated \ (leaving \cup busted), able |-> {},
                turn |-> turn, running |-> FALSE]]
          /\ playerGameMap' = [p \in Bots |-> IF p \in leaving THEN NoGame
                                              ELSE playerGameMap[p]]
          /\ pendingUnseats' = [pendingUnseats EXCEPT ![g] = {}]
      BY DEF HandEnds
<1>2. PICK announced \in Turns(able), turn \in Turns(able) :
        /\ turnTimers' = EndEvent(TurnEvent(Cleared(b), g, b, announced), g, announced)
        /\ table' = [table EXCEPT ![g] =
             [seated |-> @.seated \ (leaving \cup busted), able |-> {},
              turn |-> turn, running |-> FALSE]]
        /\ playerGameMap' = [p \in Bots |-> IF p \in leaving THEN NoGame
                                            ELSE playerGameMap[p]]
        /\ pendingUnseats' = [pendingUnseats EXCEPT ![g] = {}]
      BY <1>1
<1> DEFINE told == TurnEvent(Cleared(b), g, b, announced)
<1>3. /\ b \in table[g].seated
      /\ announced \in table[g].seated \cup {NoBot}
      /\ turn \in Bots \cup {NoBot}
      BY <1>1, <1>2 DEF Inv, TypeOK, Accepts, Turns
<1>4. Cleared(b) \in [Bots -> Timer] BY DEF Cleared, Inv, TypeOK, Timer
<1>5. told \in [Bots -> Timer] BY <1>4, EventTypes
<1>7. \A c \in Bots : ~IsConnected(c) => Cleared(b)[c] = "off"
      BY AwayIsOff DEF Cleared, Inv, TypeOK
<1>8. \A c \in Bots : ~IsConnected(c) => told[c] = "off"
      BY <1>7, EventsAreSilent
<1>9. ASSUME NEW c \in Bots, c \notin table[g].seated
      PROVE  turnTimers'[c] = IF Hears(g, c) THEN "off" ELSE turnTimers[c]
  <2>1. Cleared(b)[c] = turnTimers[c] BY <1>3, <1>9 DEF Cleared, Inv, TypeOK
  <2>2. c # announced BY <1>3, <1>9, SocketAssumption
  <2>3. told[c] = Cleared(b)[c] BY <2>2, <1>9, TurnEventElsewhere
  <2> QED BY <2>1, <2>2, <2>3, <1>2, <1>9 DEF EndEvent
<1>11. \A c \in Bots : ~IsConnected(c) => turnTimers'[c] = "off"
       BY <1>2, <1>8, EventsAreSilent
<1>12. turnTimers' \in [Bots -> Timer] BY <1>2, <1>5, EventTypes
<1> HIDE DEF told
<1>13. \A h \in Games : /\ table'[h].seated \subseteq table[h].seated
                        /\ h # g => table'[h] = table[h]
       BY <1>2 DEF Inv, TypeOK
<1>a. /\ ~table'[g].running
      /\ \A c \in leaving : c \notin table'[g].seated
      BY <1>2 DEF Inv, TypeOK
<1>14. TypeOK'
  <2>0. [seated |-> table[g].seated \ (leaving \cup busted), able |-> {},
         turn |-> turn, running |-> FALSE]
          \in [seated : SUBSET Bots, able : SUBSET Bots,
               turn : Bots \cup {NoBot}, running : BOOLEAN]
        BY <1>3 DEF Inv, TypeOK
  <2>1. table' \in [Games -> [seated : SUBSET Bots, able : SUBSET Bots,
                             turn : Bots \cup {NoBot}, running : BOOLEAN]]
        BY <1>2, <2>0 DEF Inv, TypeOK
  <2>2. \A h \in Games : table'[h].able \subseteq table'[h].seated
        BY <1>2 DEF Inv, TypeOK
  <2>3. playerGameMap' \in [Bots -> Games \cup {NoGame}]
        BY <1>2 DEF Inv, TypeOK
  <2>4. pendingUnseats' \in [Games -> SUBSET Bots] BY <1>2 DEF Inv, TypeOK
  <2> QED BY <2>1, <2>2, <2>3, <2>4, <1>12 DEF Inv, TypeOK
<1>15. Seats'
  <2>1. SeatsAreMapped'
    <3> SUFFICES ASSUME NEW h \in Games, NEW c \in Bots, c \in table'[h].seated
                 PROVE  playerGameMap'[c] = h
        BY DEF SeatsAreMapped
    <3>1. c \in table[h].seated BY <1>13
    <3>2. c \notin leaving
      <4>1. CASE h = g BY <4>1, <1>a
      <4>2. CASE h # g BY <4>2, <3>1, OneSeat
      <4> QED BY <4>1, <4>2
    <3> QED BY <3>1, <3>2, <1>2 DEF Inv, Seats, SeatsAreMapped
  <2>2. SitsInItsGame' BY <1>13 DEF Inv, Seats, SitsInItsGame, IsConnected
  <2>3. HearsItsGame' BY DEF Inv, Seats, HearsItsGame, IsConnected
  <2> QED BY <2>1, <2>2, <2>3 DEF Seats
<1>16. (UnknownIsAway /\ ClosedIsSilent)'
  <2>1. \A c \in Bots : playerGameMap'[c] \in {NoGame, playerGameMap[c]} BY <1>2
  <2> QED BY <2>1, <1>11 DEF Inv, Timers, UnknownIsAway, ClosedIsSilent, IsConnected
<1>17. ASSUME NEW h \in Games, NEW c \in Bots, Accepts(h, c)' PROVE BotTimed(h, c)'
  <2>1. h # g BY <1>a, <1>17 DEF Accepts
  <2>2. Accepts(h, c) BY <1>13, <1>17, <2>1 DEF Accepts
  <2>3. c \in table[h].seated BY <2>2 DEF Accepts, Inv, TypeOK
  <2>4. c \notin table[g].seated BY <2>3, <2>1, OneSeat
  <2>5. BotTimed(h, c) BY TimedBotByBot DEF Inv, Timers
  <2> QED BY <2>1, <2>2, <2>4, <2>5, <1>9 DEF BotTimed, IsConnected, Hears
<1>18. (NoEarlyTimeout /\ TurnIsTimed)' BY <1>17 DEF NoEarlyTimeout, TurnIsTimed, BotTimed, OnTurn
<1> QED BY <1>14, <1>15, <1>16, <1>18 DEF Inv, Timers

(* An action of the bot is processed. *)
LEMMA SubmitAcceptedInv == ASSUME Inv, NEW b \in Bots, SubmitAccepted(b) PROVE Inv'
<1>1. PICK g \in Games : g = connection[b].gameId BY DEF Inv, TypeOK, SubmitAccepted
<1>2. /\ Accepts(g, b)
      /\ RoundGoesOn(g, b, Cleared(b)) \/ HandEnds(g, b, Cleared(b))
      /\ UNCHANGED <<connection, handlers>>
      BY <1>1 DEF SubmitAccepted, Processed, Cleared
<1> QED BY <1>2, RoundGoesOnInv, HandEndsInv

(* A timer goes off. *)
LEMMA TurnTimeoutInv == ASSUME Inv, NEW b \in Bots, TurnTimeout(b) PROVE Inv'
<1> DEFINE g == connection[b].gameId
<1>u. UNCHANGED <<connection, handlers>> BY DEF TurnTimeout
<1>1. CASE g # NoGame /\ Accepts(g, b)
  <2>1. g \in Games BY <1>1 DEF Inv, TypeOK
  <2>2. RoundGoesOn(g, b, Cleared(b)) \/ HandEnds(g, b, Cleared(b))
        BY <1>1 DEF TurnTimeout, Processed, Cleared
  <2> QED BY <1>1, <1>u, <2>1, <2>2, RoundGoesOnInv, HandEndsInv
<1>2. CASE ~(g # NoGame /\ Accepts(g, b))
  <2>1. /\ turnTimers' = [turnTimers EXCEPT ![b] = "off"]
        /\ UNCHANGED <<table, playerGameMap, pendingUnseats>>
        BY <1>2 DEF TurnTimeout
  <2>2. TypeOK' BY <2>1, <1>u DEF Inv, TypeOK, Timer
  <2>3. Seats' BY <2>1, <1>u DEF Inv, Seats, SeatsAreMapped, SitsInItsGame,
          HearsItsGame, IsConnected
  <2>4. (UnknownIsAway /\ ClosedIsSilent)'
        BY <2>1, <1>u DEF Inv, TypeOK, Timers, UnknownIsAway, ClosedIsSilent
  <2>5. IsConnected(b)
        BY AwayIsOff DEF TurnTimeout
  <2>6. \A h \in Games : ~Accepts(h, b)
    <3> SUFFICES ASSUME NEW h \in Games, Accepts(h, b) PROVE FALSE
        OBVIOUS
    <3>1. b \in table[h].seated BY DEF Accepts, Inv, TypeOK
    <3>2. g = h BY <3>1, <2>5 DEF Inv, Seats, SitsInItsGame
    <3> QED BY <3>2, <1>2, SocketAssumption
  <2>7. ASSUME NEW h \in Games, NEW c \in Bots, Accepts(h, c)' PROVE BotTimed(h, c)'
    <3>1. Accepts(h, c) BY <2>1, <2>7 DEF Accepts
    <3>2. c # b BY <3>1, <2>6
    <3>3. turnTimers'[c] = turnTimers[c] BY <3>2, <2>1 DEF Inv, TypeOK
    <3>4. BotTimed(h, c) BY TimedBotByBot DEF Inv, Timers
    <3> QED BY <3>1, <3>3, <3>4, <1>u DEF BotTimed, IsConnected
  <2>8. (NoEarlyTimeout /\ TurnIsTimed)'
        BY <2>7 DEF NoEarlyTimeout, TurnIsTimed, BotTimed, OnTurn
  <2> QED BY <2>2, <2>3, <2>4, <2>8 DEF Inv, Timers
<1> QED BY <1>1, <1>2

-----------------------------------------------------------------------------
(* Joining *)

(* What a join does to the connection and the handlers. *)
LEMMA JoinedConnection ==
  ASSUME Inv, NEW b \in Bots, NEW g \in Games, JoinGame(b, g)
  PROVE  /\ connection' \in [Bots -> [status : Status, gameId : Games \cup {NoGame}]]
         /\ handlers' \in [Games -> [Bots -> 0..MaxHandlers]]
         /\ connection[b].status = "loggedIn" /\ connection'[b].status = "loggedIn"
         /\ connection'[b].gameId = g
         /\ \A c \in Bots : c # b => connection'[c] = connection[c]
         /\ \A c \in Bots : IsConnected(c)' = IsConnected(c)
         /\ \A h \in Games, c \in Bots : handlers[h][c] > 0 => handlers'[h][c] > 0
         /\ HearsItsGame'
<1>1. /\ connection' = [connection EXCEPT ![b].gameId = g]
      /\ connection[b].status = "loggedIn"
      /\ Subscribe(b, g)
      BY DEF JoinGame
<1>2. /\ handlers' \in [Games -> [Bots -> 0..MaxHandlers]]
      /\ \A h \in Games, c \in Bots : handlers'[h][c] >= handlers[h][c]
      /\ handlers'[g][b] > 0
      BY <1>1, SubscribeType, SocketAssumption DEF Inv
<1>3. \A h \in Games, c \in Bots : handlers[h][c] > 0 => handlers'[h][c] > 0
      BY <1>2, SocketAssumption DEF Inv, TypeOK
<1>4. /\ connection' \in [Bots -> [status : Status, gameId : Games \cup {NoGame}]]
      /\ connection'[b].status = "loggedIn"
      /\ connection'[b].gameId = g
      /\ \A c \in Bots : c # b => connection'[c] = connection[c]
      BY <1>1 DEF Inv, TypeOK
<1>5. \A c \in Bots : IsConnected(c)' = IsConnected(c) BY <1>1, <1>4 DEF IsConnected
<1>6. HearsItsGame'
  <2> SUFFICES ASSUME NEW c \in Bots, IsConnected(c)', connection'[c].gameId # NoGame
               PROVE  handlers'[connection'[c].gameId][c] > 0
      BY DEF HearsItsGame
  <2>1. CASE c = b BY <2>1, <1>2, <1>4
  <2>2. CASE c # b
    <3>1. connection[c].gameId \in Games /\ connection'[c] = connection[c]
          BY <2>2, <1>4 DEF Inv, TypeOK
    <3> QED BY <3>1, <1>3, <1>5 DEF Inv, Seats, HearsItsGame
  <2> QED BY <2>1, <2>2
<1> QED BY <1>1, <1>2, <1>3, <1>4, <1>5, <1>6

(* What all the ways to join have in common: the table of the game becomes *)
(* t, where the bot may be seated, and timers tm follow from the events.   *)
Joins(b, g, tm, t, turn) ==
  /\ tm \in [Bots -> Timer]
  /\ turnTimers' = TimedOnJoin(tm, b, turn)
  /\ table' = [table EXCEPT ![g] = t]
  /\ t \in [seated : SUBSET Bots, able : SUBSET Bots,
            turn : Bots \cup {NoBot}, running : BOOLEAN]
  /\ t.able \subseteq t.seated
  /\ t.turn = turn
  /\ t.seated \subseteq table[g].seated \cup {b}
  /\ \A h \in Games : b \in table[h].seated => h = g
  /\ playerGameMap' = [playerGameMap EXCEPT ![b] = g]
  /\ UNCHANGED pendingUnseats
  /\ \A c \in Bots : ~IsConnected(c) => tm[c] = "off"
  /\ \A c \in Bots : c # b /\ c \notin table[g].seated => tm[c] = turnTimers[c]
  /\ \A c \in Bots : c # b /\ t.running /\ c = turn /\ c \in t.able =>
       /\ tm[c] # "stale"
       /\ IsConnected(c) => \/ tm[c] \in {"current", "refused"}
                           \/ \E h \in Games \ {g} : handlers[h][c] > 0

(* Every way to join keeps the invariant. *)
LEMMA JoinInv ==
  ASSUME Inv, NEW b \in Bots, NEW g \in Games, JoinGame(b, g),
         NEW tm, NEW t, NEW turn, Joins(b, g, tm, t, turn)
  PROVE  Inv'
<1> USE DEF Joins
<1>1. /\ connection' \in [Bots -> [status : Status, gameId : Games \cup {NoGame}]]
      /\ handlers' \in [Games -> [Bots -> 0..MaxHandlers]]
      /\ connection[b].status = "loggedIn" /\ connection'[b].status = "loggedIn"
      /\ connection'[b].gameId = g
      /\ \A c \in Bots : c # b => connection'[c] = connection[c]
      /\ \A c \in Bots : IsConnected(c)' = IsConnected(c)
      /\ \A h \in Games, c \in Bots : handlers[h][c] > 0 => handlers'[h][c] > 0
      /\ HearsItsGame'
      BY JoinedConnection
<1>2. /\ turnTimers' \in [Bots -> Timer]
      /\ \A c \in Bots : c # b => turnTimers'[c] = tm[c]
      /\ turn = b => turnTimers'[b] = "current"
      BY DEF TimedOnJoin, startTurnTimer, Timer
<1>3. /\ \A h \in Games : table'[h] = IF h = g THEN t ELSE table[h]
      /\ \A c \in Bots : playerGameMap'[c] = IF c = b THEN g ELSE playerGameMap[c]
      BY DEF Inv, TypeOK
<1>4. TypeOK' BY <1>1, <1>2 DEF Inv, TypeOK
<1>5. SeatsAreMapped'
      BY <1>3 DEF Inv, Seats, SeatsAreMapped
<1>6. SitsInItsGame' BY <1>1, <1>3 DEF Inv, Seats, SitsInItsGame
<1>7. (UnknownIsAway /\ ClosedIsSilent)'
  <2>1. ASSUME NEW c \in Bots, connection'[c].status \in {"unknown", "closed"}
        PROVE  /\ c # b /\ connection'[c] = connection[c]
               /\ turnTimers'[c] = "off"
               /\ playerGameMap'[c] = playerGameMap[c]
    <3>1. c # b /\ connection'[c] = connection[c] BY <1>1, <2>1
    <3>2. ~IsConnected(c) BY <3>1, <2>1 DEF IsConnected
    <3> QED BY <3>1, <3>2, <1>2, <1>3
  <2> QED BY <2>1 DEF Inv, Timers, UnknownIsAway, ClosedIsSilent
<1>8. ASSUME NEW h \in Games, NEW c \in Bots, Accepts(h, c)' PROVE BotTimed(h, c)'
  <2>1. CASE c = b
    <3>1. h = g
      <4>1. CASE h # g
        <5>1. b \in table[h].seated BY <4>1, <2>1, <1>3, <1>8 DEF Accepts, Inv, TypeOK
        <5> QED BY <5>1
      <4> QED BY <4>1
    <3>2. turnTimers'[b] = "current" BY <3>1, <2>1, <1>2, <1>3, <1>8 DEF Accepts
    <3> QED BY <3>2, <2>1 DEF BotTimed
  <2>2. CASE c # b /\ h = g
    <3>1. t.running /\ c = turn /\ c \in t.able BY <2>2, <1>3, <1>8 DEF Accepts
    <3> QED BY <3>1, <2>2, <1>1, <1>2 DEF BotTimed
  <2>3. CASE c # b /\ h # g
    <3>1. Accepts(h, c) BY <2>3, <1>3, <1>8 DEF Accepts
    <3>2. c \in table[h].seated BY <3>1 DEF Accepts, Inv, TypeOK
    <3>3. c \notin table[g].seated BY <3>2, <2>3, OneSeat
    <3>4. turnTimers'[c] = turnTimers[c] BY <3>3, <2>3, <1>2
    <3>5. BotTimed(h, c) BY TimedBotByBot DEF Inv, Timers
    <3> QED BY <3>1, <3>4, <3>5, <1>1 DEF BotTimed
  <2> QED BY <2>1, <2>2, <2>3
<1>9. (NoEarlyTimeout /\ TurnIsTimed)' BY <1>8 DEF NoEarlyTimeout, TurnIsTimed, BotTimed, OnTurn
<1> QED BY <1>1, <1>4, <1>5, <1>6, <1>7, <1>9 DEF Inv, Seats, Timers

(* The bot joins. *)
LEMMA JoinGameInv ==
  ASSUME Inv, NEW b \in Bots, NEW g \in Games, JoinGame(b, g)
  PROVE  Inv'
<1>u. UNCHANGED pendingUnseats BY DEF JoinGame
<1>t. /\ turnTimers \in [Bots -> Timer]
      /\ table[g] \in [seated : SUBSET Bots, able : SUBSET Bots,
                       turn : Bots \cup {NoBot}, running : BOOLEAN]
      /\ table[g].able \subseteq table[g].seated
      /\ \A c \in Bots : ~IsConnected(c) => turnTimers[c] = "off"
      BY AwayIsOff DEF Inv, TypeOK
<1>1. CASE /\ playerGameMap[b] = g
           /\ turnTimers' = TimedOnJoin(turnTimers, b, table[g].turn)
           /\ UNCHANGED <<table, playerGameMap>>
  <2>1. /\ table' = [table EXCEPT ![g] = table[g]]
        /\ playerGameMap' = [playerGameMap EXCEPT ![b] = g]
        BY <1>1 DEF Inv, TypeOK
  <2>2. \A h \in Games : b \in table[h].seated => h = g
        BY <1>1 DEF Inv, Seats, SeatsAreMapped
  <2>3. \A c \in Bots : c # b /\ table[g].running /\ c = table[g].turn /\ c \in table[g].able =>
          /\ turnTimers[c] # "stale"
          /\ IsConnected(c) => \/ turnTimers[c] \in {"current", "refused"}
                              \/ \E h \in Games \ {g} : handlers[h][c] > 0
        BY TimedBotByBot DEF Inv, Timers, BotTimed, Accepts
  <2>4. Joins(b, g, turnTimers, table[g], table[g].turn)
        BY <1>1, <1>t, <1>u, <2>1, <2>2, <2>3 DEF Joins
  <2> QED BY <2>4, JoinInv
<1> DEFINE joined == [table[g] EXCEPT !.seated = @ \cup {b}]
<1>2. /\ joined \in [seated : SUBSET Bots, able : SUBSET Bots,
                     turn : Bots \cup {NoBot}, running : BOOLEAN]
      /\ joined.seated = table[g].seated \cup {b}
      /\ joined.able \subseteq joined.seated
      /\ joined.running = table[g].running
      BY <1>t
<1>3. ASSUME playerGameMap[b] = NoGame
      PROVE  \A h \in Games : b \in table[h].seated => h = g
      BY <1>3, SocketAssumption DEF Inv, Seats, SeatsAreMapped
<1>4. CASE /\ playerGameMap[b] = NoGame
           /\ ~table[g].running
           /\ playerGameMap' = [playerGameMap EXCEPT ![b] = g]
           /\ table' = [table EXCEPT ![g] = joined]
           /\ turnTimers' = TimedOnJoin(turnTimers, b, joined.turn)
  <2> HIDE DEF joined
  <2>1. Joins(b, g, turnTimers, joined, joined.turn)
        BY <1>2, <1>3, <1>4, <1>t, <1>u DEF Joins
  <2> QED BY <2>1, JoinInv
<1>5. CASE /\ playerGameMap[b] = NoGame
           /\ playerGameMap' = [playerGameMap EXCEPT ![b] = g]
           /\ \E able \in AbleAfterBlinds(joined) : \E turn \in Turns(able) :
                /\ table' = [table EXCEPT ![g] = Started(joined, able, turn)]
                /\ turnTimers' = TimedOnJoin(
                     TurnEvent(turnTimers, g, joined.turn, turn), b, turn)
  <2> HIDE DEF joined
  <2>1. PICK able \in AbleAfterBlinds(joined) : \E turn \in Turns(able) :
          /\ table' = [table EXCEPT ![g] = Started(joined, able, turn)]
          /\ turnTimers' = TimedOnJoin(
               TurnEvent(turnTimers, g, joined.turn, turn), b, turn)
        BY <1>5
  <2>2. PICK turn \in Turns(able) :
          /\ table' = [table EXCEPT ![g] = Started(joined, able, turn)]
          /\ turnTimers' = TimedOnJoin(
               TurnEvent(turnTimers, g, joined.turn, turn), b, turn)
        BY <2>1
  <2> DEFINE t == Started(joined, able, turn)
             tm == TurnEvent(turnTimers, g, joined.turn, turn)
  <2>3. /\ t \in [seated : SUBSET Bots, able : SUBSET Bots,
                  turn : Bots \cup {NoBot}, running : BOOLEAN]
        /\ t.seated = table[g].seated \cup {b}
        /\ t.able \subseteq t.seated
        /\ t.turn = turn
        /\ turn \in table[g].seated \cup {b, NoBot}
        BY <1>2, StartedTable
  <2>4. tm \in [Bots -> Timer] BY <1>t, EventTypes
  <2>5. \A c \in Bots : ~IsConnected(c) => tm[c] = "off" BY <1>t, EventsAreSilent
  <2>6. \A c \in Bots : c # b /\ c \notin table[g].seated => tm[c] = turnTimers[c]
        BY <2>3, SocketAssumption, TurnEventElsewhere
  <2>7. \A c \in Bots : c # b /\ c = turn =>
          tm[c] # "stale" /\ (IsConnected(c) => tm[c] = "current")
        BY <1>t, <2>3, SocketAssumption, AnnouncedIsTimedOrAway
  <2>8. /\ table' = [table EXCEPT ![g] = t]
        /\ turnTimers' = TimedOnJoin(tm, b, turn)
        BY <2>2
  <2> HIDE DEF t, tm
  <2>9. Joins(b, g, tm, t, turn)
        BY <1>3, <1>5, <1>u, <2>3, <2>4, <2>5, <2>6, <2>7, <2>8 DEF Joins
  <2> QED BY <2>9, JoinInv
<1> QED BY <1>1, <1>4, <1>5 DEF JoinGame

-----------------------------------------------------------------------------
(* The invariant is kept by every step. *)
LEMMA NextInv == Inv /\ [Next]_vars => Inv'
<1> SUFFICES ASSUME Inv, [Next]_vars PROVE Inv'
    OBVIOUS
<1>1. CASE UNCHANGED vars
  <2>1. TypeOK' BY <1>1 DEF Inv, TypeOK, vars
  <2>2. Seats' BY <1>1 DEF Inv, Seats, SeatsAreMapped, SitsInItsGame, HearsItsGame,
          IsConnected, vars
  <2>3. Timers' BY <1>1 DEF Inv, Timers, UnknownIsAway, ClosedIsSilent, NoEarlyTimeout,
          TurnIsTimed, OnTurn, Accepts, IsConnected, vars
  <2> QED BY <2>1, <2>2, <2>3 DEF Inv
<1>2. CASE \E g \in Games : StartHand(g) BY <1>2, StartHandInv
<1>3. ASSUME NEW b \in Bots,
             \/ Connect(b) \/ Login(b) \/ Reconnect(b)
             \/ \E g \in Games : JoinGame(b, g)
             \/ SubmitAccepted(b) \/ SubmitRefused(b) \/ TurnTimeout(b)
             \/ LeaveGame(b) \/ UnseatRequest(b) \/ Disconnect(b)
      PROVE  Inv'
      BY <1>3, ConnectInv, LoginInv, ReconnectInv, JoinGameInv, SubmitAcceptedInv,
         SubmitRefusedInv, TurnTimeoutInv, LeaveGameInv, UnseatRequestInv, DisconnectInv
<1> QED BY <1>1, <1>2, <1>3 DEF Next

(* The invariant holds in every state. *)
LEMMA InvHolds == Spec => []Inv
BY InitInv, NextInv, PTL DEF Spec

(* The types of connections, handlers, timers and tables; a player able to *)
(* act has a seat.                                                         *)
THEOREM TypeCorrect == Spec => []TypeOK
<1>1. Inv => TypeOK BY DEF Inv
<1> QED BY <1>1, InvHolds, PTL

(* A connected player on turn has a timer started for this turn, unless he *)
(* submitted something refused or left a handler in another game: the      *)
(* timers that handleGameEvent() and handleBotIdentification() start.      *)
THEOREM TurnsAreTimed == Spec => []TurnIsTimed
<1>1. Inv => TurnIsTimed BY DEF Inv, Timers
<1> QED BY <1>1, InvHolds, PTL

(* handleTurnTimeout() never forces an action with the timer of another    *)
(* turn, hand or game.                                                     *)
THEOREM NobodyIsForcedEarly == Spec => []NoEarlyTimeout
<1>1. Inv => NoEarlyTimeout BY DEF Inv, Timers
<1> QED BY <1>1, InvHolds, PTL

(* After handleDisconnection() no timer runs for the player, although      *)
(* handlers that were replaced or subscribed late are still called.        *)
THEOREM ClosedStaysSilent == Spec => []ClosedIsSilent
<1>1. Inv => ClosedIsSilent BY DEF Inv, Timers
<1> QED BY <1>1, InvHolds, PTL

=============================================================================
