-------------------------- MODULE Spectators_proofs --------------------------
(***************************************************************************)
(* Proofs about Spectators: the type invariant, that clients which watch   *)
(* one game at a time leave no handler behind, that a game that is watched *)
(* is heard and that what a spectator sees of it is never out of date, for *)
(* every number of games, players and clients.                             *)
(***************************************************************************)
EXTENDS Spectators, TLAPS

TableType == [players : SUBSET Players, inHand : SUBSET Players,
              phase : {"betting", "showdown"}, running : BOOLEAN]
ViewType == [phase : {"betting", "showdown"}, shown : SUBSET Players]
HandlerRef == (Games \X (1..MaxHandlers)) \cup {NoHandler}

(* What is sent of a well-formed table is well-formed. *)
LEMMA StateType ==
  ASSUME NEW t \in TableType
  PROVE  getStateWithVisibility(t) \in ViewType
  BY DEF getStateWithVisibility, TableType, ViewType

(* The events of a hand keep the types of the views. *)
LEMMA HandEventType ==
  ASSUME TypeOK, NEW g \in Games, NEW t \in TableType, HandEvent(g, t)
  PROVE  view' \in [Clients -> [Games -> {NoView} \cup ViewType]]
  <1>1. view \in [Clients -> [Games -> {NoView} \cup ViewType]]
    BY DEF TypeOK, ViewType
  <1>2. \A c \in Clients :
          [view[c] EXCEPT ![g] = getStateWithVisibility(t)]
            \in [Games -> {NoView} \cup ViewType]
    BY <1>1, StateType
  <1> QED BY <1>1, <1>2 DEF HandEvent

(* A table that exists may be replaced by a well-formed one. *)
LEMMA TableUpdate ==
  ASSUME TypeOK, NEW g \in games, NEW t \in TableType,
         t.inHand \subseteq t.players, table' = [table EXCEPT ![g] = t]
  PROVE  /\ table' \in [Games -> TableType]
         /\ \A h \in Games : table'[h].inHand \subseteq table'[h].players
         /\ \A h \in Games \ games : table'[h] = table[h]
  <1>1. table \in [Games -> TableType] /\ g \in Games
    BY DEF TypeOK, TableType
  <1> QED BY <1>1 DEF TypeOK

(* Players who are gone leave a well-formed table. *)
LEMMA WithoutType ==
  ASSUME NEW t \in TableType, t.inHand \subseteq t.players, NEW ps
  PROVE  /\ Without(t, ps) \in TableType
         /\ Without(t, ps).inHand \subseteq Without(t, ps).players
  BY DEF Without, TableType

(* Unsubscribing takes handlers away. *)
LEMMA UnsubscribedType ==
  ASSUME TypeOK, NEW c \in Clients, NEW gs
  PROVE  /\ UnsubscribedFrom(c, gs) \in [Games -> SUBSET Handler]
         /\ \A g \in Games : UnsubscribedFrom(c, gs)[g] \subseteq callbacks[g]
  BY DEF UnsubscribedFrom, TypeOK

(* The steps of the table of a game that exists keep the type invariant. *)
LEMMA TableStep ==
  ASSUME TypeOK, NEW g \in games, NEW t \in TableType,
         t.inHand \subseteq t.players, table' = [table EXCEPT ![g] = t],
         view' \in [Clients -> [Games -> {NoView} \cup ViewType]],
         UNCHANGED <<status, spectatingGames, eventHandler, callbacks, games>>
  PROVE  TypeOK'
  BY TableUpdate DEF TypeOK, TableType, ViewType

(* The type invariant is inductive by itself: what the games do. *)
LEMMA TypeGames ==
  ASSUME TypeOK, NEW g \in Games,
         \/ CreateGame(g) \/ RemoveGame(g) \/ StartHand(g) \/ Act(g)
         \/ EndHand(g) \/ \E p \in Players : PlayerJoins(g, p) \/ PlayerLeaves(g, p)
  PROVE  TypeOK'
  <1>T. table \in [Games -> TableType] /\ table[g] \in TableType
    BY DEF TypeOK, TableType
  <1>I. table[g].inHand \subseteq table[g].players
    BY DEF TypeOK
  <1>V. view \in [Clients -> [Games -> {NoView} \cup ViewType]]
    BY DEF TypeOK, ViewType
  <1>E. EmptyTable \in TableType /\ EmptyTable.inHand \subseteq EmptyTable.players
    BY DEF EmptyTable, TableType
  <1>1. CASE CreateGame(g)
    <2>1. table' \in [Games -> TableType]
      BY <1>1, <1>T, <1>E DEF CreateGame
    <2>2. \A h \in Games : table'[h] = IF h = g THEN EmptyTable ELSE table[h]
      BY <1>1, <1>T DEF CreateGame
    <2> QED BY <1>1, <2>1, <2>2, <1>E DEF CreateGame, TypeOK, TableType
  <1>2. CASE RemoveGame(g)
    <2>1. table' \in [Games -> TableType]
      BY <1>2, <1>T, <1>E DEF RemoveGame
    <2>2. \A h \in Games : table'[h] = IF h = g THEN EmptyTable ELSE table[h]
      BY <1>2, <1>T DEF RemoveGame
    <2>3. /\ callbacks' \in [Games -> SUBSET Handler]
          /\ \A h \in Games : callbacks'[h] = IF h = g THEN {} ELSE callbacks[h]
      BY <1>2 DEF RemoveGame, TypeOK
    <2> QED BY <1>2, <2>1, <2>2, <2>3, <1>E DEF RemoveGame, TypeOK, TableType
  <1>3. CASE StartHand(g)
    <2>1. Dealt(table[g]) \in TableType
          /\ Dealt(table[g]).inHand \subseteq Dealt(table[g]).players
      BY <1>T DEF Dealt, TableType
    <2> QED BY <1>3, <2>1, HandEventType, TableStep DEF StartHand
  <1>4. CASE Act(g)
    <2>1. PICK folded \in Folds(g) :
            /\ table' = [table EXCEPT ![g] = [table[g] EXCEPT !.inHand = @ \ folded]]
            /\ HandEvent(g, [table[g] EXCEPT !.inHand = @ \ folded])
      BY <1>4 DEF Act
    <2>2. [table[g] EXCEPT !.inHand = @ \ folded] \in TableType
      BY <1>T DEF TableType
    <2>3. [table[g] EXCEPT !.inHand = @ \ folded].inHand \subseteq
            [table[g] EXCEPT !.inHand = @ \ folded].players
      BY <1>T, <1>I DEF TableType
    <2> QED BY <1>4, <2>1, <2>2, <2>3, HandEventType, TableStep DEF Act
  <1>5. CASE EndHand(g)
    <2> DEFINE over(folded, phase) ==
          [table[g] EXCEPT !.inHand = @ \ folded, !.phase = phase,
                           !.running = FALSE]
    <2>1. PICK folded \in Folds(g), phase \in {"betting", "showdown"},
               busted \in SUBSET table[g].players :
            /\ HandEvent(g, over(folded, phase))
            /\ table' = [table EXCEPT ![g] = Without(over(folded, phase), busted)]
      BY <1>5 DEF EndHand
    <2>2. /\ over(folded, phase) \in TableType
          /\ over(folded, phase).inHand \subseteq over(folded, phase).players
      BY <1>T, <1>I DEF TableType
    <2> HIDE DEF over
    <2> QED BY <1>5, <2>1, <2>2, WithoutType, HandEventType, TableStep DEF EndHand
  <1>6. ASSUME NEW p \in Players, PlayerJoins(g, p) PROVE TypeOK'
    <2>1. /\ [table[g] EXCEPT !.players = @ \cup {p}] \in TableType
          /\ [table[g] EXCEPT !.players = @ \cup {p}].inHand \subseteq
               [table[g] EXCEPT !.players = @ \cup {p}].players
      BY <1>T, <1>I DEF TableType
    <2>2. table' = [table EXCEPT ![g] = [table[g] EXCEPT !.players = @ \cup {p}]]
      BY <1>6 DEF PlayerJoins
    <2> QED BY <1>6, <2>1, <2>2, <1>V, TableStep DEF PlayerJoins, SeatEvent
  <1>7. ASSUME NEW p \in Players, PlayerLeaves(g, p) PROVE TypeOK'
    BY <1>7, <1>T, <1>I, <1>V, WithoutType, TableStep DEF PlayerLeaves, SeatEvent
  <1> QED BY <1>1, <1>2, <1>3, <1>4, <1>5, <1>6, <1>7

(* The type invariant is inductive by itself: what the clients do. *)
LEMMA TypeClients ==
  ASSUME TypeOK, NEW c \in Clients,
         \/ Connect(c) \/ SpectatorAuth(c) \/ Disconnect(c)
         \/ \E g \in Games : Watch(c, g) \/ Unwatch(c, g)
  PROVE  TypeOK'
  <1>V. view \in [Clients -> [Games -> {NoView} \cup ViewType]]
    BY DEF TypeOK, ViewType
  <1>W. ASSUME NEW v \in [Games -> {NoView} \cup ViewType],
               view' = [view EXCEPT ![c] = v]
        PROVE  view' \in [Clients -> [Games -> {NoView} \cup ViewType]]
    BY <1>V, <1>W
  <1>1. CASE Connect(c)
    BY <1>1 DEF Connect, TypeOK
  <1>2. CASE SpectatorAuth(c)
    <2>1. view' \in [Clients -> [Games -> {NoView} \cup ViewType]]
      BY <1>2, <1>W DEF SpectatorAuth
    <2> QED BY <1>2, <2>1 DEF SpectatorAuth, TypeOK, ViewType
  <1>3. CASE Disconnect(c)
    <2>1. view' \in [Clients -> [Games -> {NoView} \cup ViewType]]
      BY <1>3, <1>W DEF Disconnect
    <2>2. /\ callbacks' \in [Games -> SUBSET Handler]
          /\ \A g \in Games : callbacks'[g] \subseteq callbacks[g]
      BY <1>3, UnsubscribedType DEF Disconnect
    <2>3. /\ spectatingGames' \in [Clients -> SUBSET Games]
          /\ eventHandler' \in [Clients -> HandlerRef]
          /\ status' \in [Clients -> {"unknown", "open", "spectator", "closed"}]
      BY <1>3 DEF Disconnect, TypeOK, HandlerRef
    <2> QED BY <1>3, <2>1, <2>2, <2>3 DEF Disconnect, TypeOK, ViewType, HandlerRef
  <1>4. ASSUME NEW g \in Games, Watch(c, g) PROVE TypeOK'
    <2>1. PICK n \in 1..MaxHandlers :
            /\ eventHandler' = [eventHandler EXCEPT ![c] =
                                  IF @ = NoHandler THEN <<g, n>> ELSE @]
            /\ callbacks' = [callbacks EXCEPT ![g] = @ \cup {<<c, n>>}]
      BY <1>4 DEF Watch
    <2>2. /\ callbacks' \in [Games -> SUBSET Handler]
          /\ \A h \in Games \ games : callbacks'[h] = callbacks[h]
      BY <1>4, <2>1 DEF Watch, TypeOK, Handler
    <2>3. eventHandler' \in [Clients -> HandlerRef]
      BY <2>1 DEF TypeOK, HandlerRef
    <2>4. table[g] \in TableType
      BY DEF TypeOK, TableType
    <2>5. [view[c] EXCEPT ![g] = getStateWithVisibility(table[g])]
            \in [Games -> {NoView} \cup ViewType]
      BY <1>V, <2>4, StateType
    <2>6. view' \in [Clients -> [Games -> {NoView} \cup ViewType]]
      BY <1>4, <2>5, <1>W DEF Watch
    <2> QED BY <1>4, <2>2, <2>3, <2>6 DEF Watch, TypeOK, ViewType, HandlerRef
  <1>5. ASSUME NEW g \in Games, Unwatch(c, g) PROVE TypeOK'
    <2>1. [view[c] EXCEPT ![g] = NoView] \in [Games -> {NoView} \cup ViewType]
      BY <1>V
    <2>2. view' \in [Clients -> [Games -> {NoView} \cup ViewType]]
      BY <1>5, <2>1, <1>W DEF Unwatch
    <2>3. /\ callbacks' \in [Games -> SUBSET Handler]
          /\ \A h \in Games : callbacks'[h] \subseteq callbacks[h]
      BY <1>5, UnsubscribedType DEF Unwatch, TypeOK
    <2>4. eventHandler' \in [Clients -> HandlerRef]
      BY <1>5 DEF Unwatch, TypeOK, HandlerRef
    <2> QED BY <1>5, <2>2, <2>3, <2>4 DEF Unwatch, TypeOK, ViewType, HandlerRef
  <1> QED BY <1>1, <1>2, <1>3, <1>4, <1>5

(* The type invariant holds in every state. *)
THEOREM TypeCorrect == Spec => []TypeOK
  <1>1. Init => TypeOK
    BY SpectatorsAssumption DEF Init, TypeOK, EmptyTable
  <1>2. TypeOK /\ [Next]_vars => TypeOK'
    <2> SUFFICES ASSUME TypeOK, [Next]_vars PROVE TypeOK'
      OBVIOUS
    <2>1. CASE UNCHANGED vars
      BY <2>1 DEF vars, TypeOK
    <2>2. CASE Next
      BY <2>2, TypeGames, TypeClients DEF Next
    <2> QED BY <2>1, <2>2
  <1> QED BY <1>1, <1>2, PTL DEF Spec

-----------------------------------------------------------------------------
(* Clients that watch one game at a time *)

(* The strengthening of NothingLeftBehind: such a client remembers a       *)
(* handler exactly while it watches a game, and it is a handler of it.     *)
Tidy(c) ==
  /\ \A g \in Games, n \in 1..MaxHandlers :
       <<c, n>> \in callbacks[g] => eventHandler[c] = <<g, n>>
  /\ eventHandler[c] = NoHandler => spectatingGames[c] = {}
  /\ \A g \in Games, n \in 1..MaxHandlers :
       eventHandler[c] = <<g, n>> => /\ status[c] = "spectator"
                                     /\ spectatingGames[c] = {g}

AllTidy == \A c \in OneAtATime : Tidy(c)

(* What other clients do changes nothing for c. *)
LEMMA TidyKept ==
  ASSUME NEW c \in OneAtATime, Tidy(c),
         \A g \in Games, n \in 1..MaxHandlers :
           <<c, n>> \in callbacks'[g] => <<c, n>> \in callbacks[g],
         status'[c] = status[c], eventHandler'[c] = eventHandler[c],
         spectatingGames'[c] = spectatingGames[c]
  PROVE  Tidy(c)'
  BY DEF Tidy

(* Unsubscribing takes nothing from others, and the remembered handler     *)
(* from its game.                                                          *)
LEMMA UnsubscribedHandlers ==
  ASSUME TypeOK, NEW c \in Clients, NEW gs, NEW d \in Clients, NEW g \in Games,
         NEW n \in 1..MaxHandlers
  PROVE  <<d, n>> \in UnsubscribedFrom(c, gs)[g] <=>
           /\ <<d, n>> \in callbacks[g]
           /\ ~(d = c /\ g \in gs /\ eventHandler[c] = <<g, n>>)
  <1>1. UnsubscribedFrom(c, gs)[g] = callbacks[g] \
          {<<c, k>> : k \in {j \in 1..MaxHandlers : /\ g \in gs
                                                   /\ eventHandler[c] = <<g, j>>}}
    BY DEF UnsubscribedFrom
  <1> QED BY <1>1

(* The steps of the games. *)
LEMMA TidyGames ==
  ASSUME TypeOK, AllTidy, NEW g \in Games,
         \/ CreateGame(g) \/ RemoveGame(g) \/ StartHand(g) \/ Act(g)
         \/ EndHand(g) \/ \E p \in Players : PlayerJoins(g, p) \/ PlayerLeaves(g, p)
  PROVE  AllTidy'
  <1>1. UNCHANGED <<status, spectatingGames, eventHandler>>
    BY DEF CreateGame, RemoveGame, StartHand, Act, EndHand, PlayerJoins,
           PlayerLeaves
  <1>2. callbacks' = callbacks \/ callbacks' = [callbacks EXCEPT ![g] = {}]
    BY DEF CreateGame, RemoveGame, StartHand, Act, EndHand, PlayerJoins,
           PlayerLeaves
  <1>3. \A h \in Games : callbacks'[h] \subseteq callbacks[h]
    BY <1>2 DEF TypeOK
  <1> QED BY <1>1, <1>3, TidyKept DEF AllTidy

(* The steps of the clients. *)
LEMMA TidyClients ==
  ASSUME TypeOK, AllTidy, NEW c \in Clients,
         \/ Connect(c) \/ SpectatorAuth(c) \/ Disconnect(c)
         \/ \E g \in Games : Watch(c, g) \/ Unwatch(c, g)
  PROVE  AllTidy'
  <1> USE SpectatorsAssumption
  <1> SUFFICES ASSUME NEW d \in OneAtATime PROVE Tidy(d)'
    BY DEF AllTidy
  <1>A. Tidy(d) /\ d \in Clients
    BY DEF AllTidy
  <1>H. eventHandler[d] = NoHandler
        \/ \E g \in Games, n \in 1..MaxHandlers : eventHandler[d] = <<g, n>>
    BY <1>A DEF TypeOK
  <1>1. CASE Connect(c)
    BY <1>1, <1>A, <1>H DEF Connect, TypeOK, Tidy
  <1>2. CASE SpectatorAuth(c)
    BY <1>2, <1>A, <1>H DEF SpectatorAuth, TypeOK, Tidy
  <1>3. CASE Disconnect(c)
    <2>1. CASE d # c
      <3>1. \A g \in Games, n \in 1..MaxHandlers :
              <<d, n>> \in callbacks'[g] => <<d, n>> \in callbacks[g]
        BY <1>3, UnsubscribedType DEF Disconnect
      <3> QED BY <1>3, <1>A, <2>1, <3>1, TidyKept DEF Disconnect, TypeOK
    <2>2. CASE d = c
      <3>1. \A g \in Games, n \in 1..MaxHandlers : <<d, n>> \notin callbacks'[g]
        BY <1>3, <1>A, <2>2, UnsubscribedHandlers DEF Disconnect, Tidy
      <3>2. eventHandler'[d] = NoHandler /\ spectatingGames'[d] = {}
        BY <1>3, <1>A, <2>2 DEF Disconnect, TypeOK, Tidy
      <3>3. \A g \in Games, n \in 1..MaxHandlers : NoHandler # <<g, n>>
        OBVIOUS
      <3> QED BY <3>1, <3>2, <3>3 DEF Tidy
    <2> QED BY <2>1, <2>2
  <1>4. ASSUME NEW g \in Games, Watch(c, g) PROVE Tidy(d)'
    <2>1. PICK n \in 1..MaxHandlers :
            /\ eventHandler' = [eventHandler EXCEPT ![c] =
                                  IF @ = NoHandler THEN <<g, n>> ELSE @]
            /\ callbacks' = [callbacks EXCEPT ![g] = @ \cup {<<c, n>>}]
      BY <1>4 DEF Watch
    <2>2. CASE d # c
      <3>1. \A h \in Games, k \in 1..MaxHandlers :
              <<d, k>> \in callbacks'[h] => <<d, k>> \in callbacks[h]
        BY <2>1, <2>2 DEF TypeOK
      <3>2. /\ status'[d] = status[d] /\ eventHandler'[d] = eventHandler[d]
            /\ spectatingGames'[d] = spectatingGames[d]
        BY <1>4, <1>A, <2>1, <2>2 DEF Watch, TypeOK
      <3> QED BY <1>A, <3>1, <3>2, TidyKept
    <2>3. CASE d = c
      <3>1. spectatingGames[d] = {} /\ status[d] = "spectator"
        BY <1>4, <2>3 DEF Watch
      <3>2. eventHandler[d] = NoHandler
        BY <3>1, <1>A, <1>H DEF Tidy
      <3>3. \A h \in Games, k \in 1..MaxHandlers : <<d, k>> \notin callbacks[h]
        BY <3>2, <1>A DEF Tidy
      <3>4. /\ eventHandler'[d] = <<g, n>>
            /\ spectatingGames'[d] = {g}
            /\ status'[d] = "spectator"
        BY <1>4, <2>1, <2>3, <1>A, <3>1, <3>2 DEF Watch, TypeOK
      <3>5. \A h \in Games, k \in 1..MaxHandlers :
              <<d, k>> \in callbacks'[h] => h = g /\ k = n
        BY <2>1, <3>3 DEF TypeOK
      <3>6. <<g, n>> # NoHandler
        OBVIOUS
      <3> QED BY <3>4, <3>5, <3>6 DEF Tidy
    <2> QED BY <2>2, <2>3
  <1>5. ASSUME NEW g \in Games, Unwatch(c, g) PROVE Tidy(d)'
    <2>1. CASE d # c
      <3>1. \A h \in Games, k \in 1..MaxHandlers :
              <<d, k>> \in callbacks'[h] => <<d, k>> \in callbacks[h]
        BY <1>5, UnsubscribedType DEF Unwatch
      <3>2. /\ status'[d] = status[d] /\ eventHandler'[d] = eventHandler[d]
            /\ spectatingGames'[d] = spectatingGames[d]
        BY <1>5, <1>A, <2>1 DEF Unwatch, TypeOK
      <3> QED BY <1>A, <3>1, <3>2, TidyKept
    <2>2. CASE d = c
      <3>1. PICK n \in 1..MaxHandlers : eventHandler[d] = <<g, n>>
        BY <1>5, <2>2, <1>A, <1>H DEF Unwatch, Tidy
      <3>2. spectatingGames[d] = {g}
        BY <3>1, <1>A DEF Tidy
      <3>3. \A h \in Games, k \in 1..MaxHandlers : <<d, k>> \notin callbacks'[h]
        <4>1. callbacks' = UnsubscribedFrom(d, {g})
          BY <1>5, <2>2, <3>2 DEF Unwatch
        <4>2. \A h \in Games, k \in 1..MaxHandlers :
                <<d, k>> \in callbacks[h] => h = g /\ k = n
          BY <3>1, <1>A DEF Tidy
        <4> QED BY <4>1, <4>2, <3>1, <1>A, UnsubscribedHandlers
      <3>4. eventHandler'[d] = NoHandler /\ spectatingGames'[d] = {}
        BY <1>5, <2>2, <3>2, <1>A DEF Unwatch, TypeOK
      <3>5. \A h \in Games, k \in 1..MaxHandlers : NoHandler # <<h, k>>
        OBVIOUS
      <3> QED BY <3>3, <3>4, <3>5 DEF Tidy
    <2> QED BY <2>1, <2>2
  <1> QED BY <1>1, <1>2, <1>3, <1>4, <1>5

(* A client that watches one game at a time has no other handler than the  *)
(* remembered one of the game it watches, whatever the others do.          *)
THEOREM NothingIsLeftBehind == Spec => []NothingLeftBehind
  <1>1. Init => AllTidy
    <2> SUFFICES ASSUME Init, NEW c \in OneAtATime PROVE Tidy(c)
      BY DEF AllTidy
    <2>1. c \in Clients
      BY SpectatorsAssumption
    <2>2. /\ eventHandler[c] = NoHandler /\ spectatingGames[c] = {}
          /\ \A g \in Games : callbacks[g] = {}
      BY <2>1 DEF Init
    <2>3. \A g \in Games, n \in 1..MaxHandlers : NoHandler # <<g, n>>
      BY SpectatorsAssumption
    <2> QED BY <2>2, <2>3 DEF Tidy
  <1>2. TypeOK /\ AllTidy /\ [Next]_vars => AllTidy'
    <2> SUFFICES ASSUME TypeOK, AllTidy, [Next]_vars PROVE AllTidy'
      OBVIOUS
    <2>1. CASE UNCHANGED vars
      BY <2>1, TidyKept DEF vars, AllTidy
    <2>2. CASE Next
      BY <2>2, TidyGames, TidyClients DEF Next
    <2> QED BY <2>1, <2>2
  <1>3. TypeOK /\ AllTidy => NothingLeftBehind
    BY DEF AllTidy, Tidy, NothingLeftBehind, Hears, Subscribed, IsConnected
  <1> QED BY <1>1, <1>2, <1>3, TypeCorrect, PTL DEF Spec

-----------------------------------------------------------------------------
(* What is watched is heard *)

(* The step that HeardWhileWatched speaks of. *)
StaysHeard ==
  \A c \in Clients, g \in Games :
    /\ status'[c] = "spectator"
    /\ g \in spectatingGames'[c] \cap games'
    /\ g \notin spectatingGames[c] \/ Hears(c, g)
    => Hears(c, g)'

(* Whoever was heard of a game that exists and is watched before and after *)
(* keeps his handlers, except by his own messages.                         *)
LEMMA HeardStep ==
  TypeOK /\ [Next]_vars => StaysHeard \/ UNCHANGED vars
  <1> SUFFICES ASSUME TypeOK, Next PROVE StaysHeard
    OBVIOUS
  <1> SUFFICES ASSUME NEW d \in Clients, NEW h \in Games,
                      status'[d] = "spectator",
                      h \in spectatingGames'[d], h \in games',
                      h \notin spectatingGames[d] \/ Hears(d, h)
               PROVE  Subscribed(d, h)'
    BY DEF StaysHeard, Hears, IsConnected
  <1>K. ASSUME Subscribed(d, h), callbacks[h] \subseteq callbacks'[h]
        PROVE  Subscribed(d, h)'
    BY <1>K DEF Subscribed
  <1>1. ASSUME NEW g \in Games,
               \/ CreateGame(g) \/ StartHand(g) \/ Act(g) \/ EndHand(g)
               \/ RemoveGame(g)
               \/ \E p \in Players : PlayerJoins(g, p) \/ PlayerLeaves(g, p)
        PROVE  Subscribed(d, h)'
    <2>1. UNCHANGED spectatingGames
      BY <1>1 DEF CreateGame, RemoveGame, StartHand, Act, EndHand, PlayerJoins,
                  PlayerLeaves
    <2>2. UNCHANGED callbacks \/ RemoveGame(g)
      BY <1>1 DEF CreateGame, StartHand, Act, EndHand, PlayerJoins, PlayerLeaves
    <2>3. callbacks'[h] = callbacks[h]
      BY <2>2 DEF RemoveGame, TypeOK
    <2> QED BY <1>K, <2>1, <2>3 DEF Hears
  <1>2. ASSUME NEW c \in Clients,
               \/ Connect(c) \/ SpectatorAuth(c) \/ Disconnect(c)
               \/ \E g \in Games : Watch(c, g) \/ Unwatch(c, g)
        PROVE  Subscribed(d, h)'
    <2>1. CASE Connect(c) \/ SpectatorAuth(c)
      <3>1. UNCHANGED callbacks /\ h \in spectatingGames[d]
        BY <2>1 DEF Connect, SpectatorAuth, TypeOK
      <3> QED BY <3>1, <1>K DEF Hears
    <2>2. CASE Disconnect(c)
      <3>1. d # c /\ h \in spectatingGames[d]
        BY <2>2 DEF Disconnect, TypeOK
      <3>2. PICK n \in 1..MaxHandlers : <<d, n>> \in callbacks[h]
        BY <3>1 DEF Hears, Subscribed
      <3>3. <<d, n>> \in callbacks'[h]
        BY <2>2, <3>1, <3>2, UnsubscribedHandlers DEF Disconnect
      <3> QED BY <3>3 DEF Subscribed
    <2>3. ASSUME NEW g \in Games, Watch(c, g) PROVE Subscribed(d, h)'
      <3>1. PICK n \in 1..MaxHandlers :
              callbacks' = [callbacks EXCEPT ![g] = @ \cup {<<c, n>>}]
        BY <2>3 DEF Watch
      <3>2. CASE d = c /\ h = g
        BY <3>1, <3>2 DEF TypeOK, Subscribed
      <3>3. CASE ~(d = c /\ h = g)
        <4>1. h \in spectatingGames[d]
          BY <2>3, <3>3 DEF Watch, TypeOK
        <4>2. callbacks[h] \subseteq callbacks'[h]
          BY <3>1 DEF TypeOK
        <4> QED BY <4>1, <4>2, <1>K DEF Hears
      <3> QED BY <3>2, <3>3
    <2>4. ASSUME NEW g \in Games, Unwatch(c, g) PROVE Subscribed(d, h)'
      <3>1. h \in spectatingGames[d] /\ ~(d = c /\ h = g)
        BY <2>4 DEF Unwatch, TypeOK
      <3>2. PICK n \in 1..MaxHandlers : <<d, n>> \in callbacks[h]
        BY <3>1 DEF Hears, Subscribed
      <3>3. callbacks' = callbacks \/ callbacks' = UnsubscribedFrom(c, {g})
        BY <2>4 DEF Unwatch
      <3>4. <<d, n>> \in callbacks'[h]
        BY <3>1, <3>2, <3>3, UnsubscribedHandlers
      <3> QED BY <3>4 DEF Subscribed
    <2> QED BY <1>2, <2>1, <2>2, <2>3, <2>4
  <1> QED BY <1>1, <1>2 DEF Next

(* Whoever asks to watch a game hears of it as long as he watches it and   *)
(* the game exists, for every number of clients and games.                 *)
THEOREM WatchedIsHeard == Spec => HeardWhileWatched
  <1>1. TypeOK /\ [Next]_vars => [StaysHeard]_vars
    BY HeardStep
  <1> QED BY <1>1, TypeCorrect, PTL DEF Spec, HeardWhileWatched, StaysHeard

-----------------------------------------------------------------------------
(* What is on the screen *)

(* The view v is up to date with the table t. *)
Fits(t, v) ==
  /\ v.phase = t.phase
  /\ t.running => v.shown = {}
  /\ t.phase = "showdown" => t.inHand \subseteq v.shown

(* The strengthening of ViewIsCurrent: no hand is played in the phase      *)
(* "showdown", and a client watches nothing before it connects.            *)
Screens ==
  /\ \A g \in Games : table[g].running => table[g].phase = "betting"
  /\ \A c \in Clients : status[c] = "unknown" => spectatingGames[c] = {}
  /\ \A c \in Clients, g \in Games : Hears(c, g) => Fits(table[g], view[c][g])

(* A state fits the table it was made of. *)
LEMMA StateFits ==
  ASSUME NEW t \in TableType, t.inHand \subseteq t.players,
         t.running => t.phase = "betting"
  PROVE  Fits(t, getStateWithVisibility(t))
  BY DEF Fits, getStateWithVisibility, shouldShowHoleCards, TableType

(* Nothing becomes outdated when players go. *)
LEMMA WithoutFits ==
  ASSUME NEW t \in TableType, NEW ps, NEW v, Fits(t, v)
  PROVE  Fits(Without(t, ps), v)
  BY DEF Fits, Without, TableType

(* What an event of a hand changes of the views. *)
LEMMA HandEventSeen ==
  ASSUME TypeOK, NEW g \in Games, NEW t, HandEvent(g, t),
         NEW c \in Clients, NEW h \in Games
  PROVE  view'[c][h] = IF h = g /\ Hears(c, g) THEN getStateWithVisibility(t)
                       ELSE view[c][h]
  <1>1. view[c] \in [Games -> {NoView} \cup ViewType]
    BY DEF TypeOK, ViewType
  <1>2. view'[c] = IF Hears(c, g)
                   THEN [view[c] EXCEPT ![g] = getStateWithVisibility(t)]
                   ELSE view[c]
    BY DEF HandEvent
  <1> QED BY <1>1, <1>2

(* The steps of a table that leave the subscriptions alone. *)
LEMMA ScreensTable ==
  ASSUME TypeOK, Screens, NEW g \in Games, NEW t,
         table' = [table EXCEPT ![g] = t], t.running => t.phase = "betting",
         UNCHANGED <<status, spectatingGames, callbacks>>,
         \A c \in Clients : Hears(c, g) => Fits(t, view'[c][g]),
         \A c \in Clients, h \in Games \ {g} : view'[c][h] = view[c][h]
  PROVE  Screens'
  <1>1. \A h \in Games : table'[h] = IF h = g THEN t ELSE table[h]
    BY DEF TypeOK
  <1>2. \A c \in Clients, h \in Games : Hears(c, h)' <=> Hears(c, h)
    BY DEF Hears, Subscribed, IsConnected
  <1>3. \A c \in Clients, h \in Games :
          Hears(c, h) => Fits(table'[h], view'[c][h])
    BY <1>1 DEF Screens
  <1> QED BY <1>1, <1>2, <1>3 DEF Screens

(* The same with an event that shows the table as it was at u. *)
LEMMA ScreensEvent ==
  ASSUME TypeOK, Screens, NEW g \in Games, NEW t, NEW u, HandEvent(g, u),
         Fits(t, getStateWithVisibility(u)),
         table' = [table EXCEPT ![g] = t], t.running => t.phase = "betting",
         UNCHANGED <<status, spectatingGames, callbacks>>
  PROVE  Screens'
  <1>1. \A c \in Clients : Hears(c, g) => Fits(t, view'[c][g])
    BY HandEventSeen
  <1>2. \A c \in Clients, h \in Games \ {g} : view'[c][h] = view[c][h]
    BY HandEventSeen
  <1> QED BY <1>1, <1>2, ScreensTable

(* The steps of the subscriptions: nobody begins to hear a game but by     *)
(* asking to watch it.                                                     *)
LEMMA ScreensKept ==
  ASSUME Screens, UNCHANGED table,
         \A c \in Clients : status'[c] = "unknown" => spectatingGames'[c] = {},
         \A c \in Clients, h \in Games :
           Hears(c, h)' => \/ Hears(c, h) /\ view'[c][h] = view[c][h]
                           \/ Fits(table[h], view'[c][h])
  PROVE  Screens'
  BY DEF Screens

(* What the games do. *)
LEMMA ScreensGames ==
  ASSUME TypeOK, Screens, NEW g \in Games,
         \/ CreateGame(g) \/ RemoveGame(g) \/ StartHand(g) \/ Act(g)
         \/ EndHand(g) \/ \E p \in Players : PlayerJoins(g, p) \/ PlayerLeaves(g, p)
  PROVE  Screens'
  <1>T. table[g] \in TableType /\ table[g].inHand \subseteq table[g].players
    BY DEF TypeOK, TableType
  <1>B. table[g].running => table[g].phase = "betting"
    BY DEF Screens
  <1>S. \A c \in Clients : Hears(c, g) => Fits(table[g], view[c][g])
    BY DEF Screens
  <1>0. ~EmptyTable.running
    BY DEF EmptyTable
  <1>1. CASE CreateGame(g)
    <2>1. \A c \in Clients : ~Hears(c, g)
      BY <1>1 DEF CreateGame, TypeOK, Hears, Subscribed
    <2> QED BY <1>0, <1>1, <2>1, ScreensTable DEF CreateGame
  <1>2. CASE RemoveGame(g)
    <2>1. \A h \in Games : /\ table'[h] = IF h = g THEN EmptyTable ELSE table[h]
                           /\ callbacks'[h] = IF h = g THEN {} ELSE callbacks[h]
      BY <1>2 DEF RemoveGame, TypeOK
    <2>2. UNCHANGED <<status, spectatingGames, view>>
      BY <1>2 DEF RemoveGame
    <2>3. \A c \in Clients, h \in Games : Hears(c, h)' => h # g /\ Hears(c, h)
      BY <2>1, <2>2 DEF Hears, Subscribed, IsConnected
    <2> QED BY <1>0, <2>1, <2>2, <2>3 DEF Screens
  <1>3. CASE StartHand(g)
    <2> DEFINE t == Dealt(table[g])
    <2>1. /\ t \in TableType /\ t.inHand \subseteq t.players
          /\ t.phase = "betting"
      BY <1>T DEF Dealt, TableType
    <2> HIDE DEF t
    <2>2. /\ table' = [table EXCEPT ![g] = t] /\ HandEvent(g, t)
          /\ UNCHANGED <<status, spectatingGames, callbacks>>
      BY <1>3 DEF StartHand, t
    <2> QED BY <2>1, <2>2, StateFits, ScreensEvent
  <1>4. CASE Act(g)
    <2> DEFINE t(folded) == [table[g] EXCEPT !.inHand = @ \ folded]
    <2>1. PICK folded \in Folds(g) :
            /\ table' = [table EXCEPT ![g] = t(folded)] /\ HandEvent(g, t(folded))
            /\ UNCHANGED <<status, spectatingGames, callbacks>>
      BY <1>4 DEF Act
    <2>2. /\ t(folded) \in TableType /\ t(folded).inHand \subseteq t(folded).players
          /\ t(folded).running => t(folded).phase = "betting"
      BY <1>T, <1>B DEF TableType
    <2> HIDE DEF t
    <2> QED BY <2>1, <2>2, StateFits, ScreensEvent
  <1>5. CASE EndHand(g)
    <2> DEFINE over(folded, phase) ==
          [table[g] EXCEPT !.inHand = @ \ folded, !.phase = phase,
                           !.running = FALSE]
    <2>1. PICK folded \in Folds(g), phase \in {"betting", "showdown"},
               busted \in SUBSET table[g].players :
            /\ HandEvent(g, over(folded, phase))
            /\ table' = [table EXCEPT ![g] = Without(over(folded, phase), busted)]
      BY <1>5 DEF EndHand
    <2>2. /\ over(folded, phase) \in TableType
          /\ over(folded, phase).inHand \subseteq over(folded, phase).players
          /\ ~over(folded, phase).running
      BY <1>T DEF TableType
    <2> HIDE DEF over
    <2>3. ~Without(over(folded, phase), busted).running
      BY <2>2 DEF Without, TableType
    <2>4. Fits(Without(over(folded, phase), busted),
               getStateWithVisibility(over(folded, phase)))
      BY <2>2, StateFits, WithoutFits
    <2>5. UNCHANGED <<status, spectatingGames, callbacks>>
      BY <1>5 DEF EndHand
    <2> QED BY <2>1, <2>3, <2>4, <2>5, ScreensEvent
  <1>6. ASSUME NEW p \in Players, PlayerJoins(g, p) PROVE Screens'
    <2> DEFINE t == [table[g] EXCEPT !.players = @ \cup {p}]
    <2>1. /\ table' = [table EXCEPT ![g] = t]
          /\ UNCHANGED <<status, spectatingGames, callbacks, view>>
      BY <1>6 DEF PlayerJoins, SeatEvent
    <2>2. /\ t.phase = table[g].phase /\ t.running = table[g].running
          /\ t.inHand = table[g].inHand
      BY <1>T DEF TableType
    <2> HIDE DEF t
    <2>3. \A v : Fits(table[g], v) => Fits(t, v)
      BY <2>2 DEF Fits
    <2> QED BY <1>B, <1>S, <2>1, <2>2, <2>3, ScreensTable
  <1>7. ASSUME NEW p \in Players, PlayerLeaves(g, p) PROVE Screens'
    <2> DEFINE t == Without(table[g], {p})
    <2>1. /\ table' = [table EXCEPT ![g] = t]
          /\ UNCHANGED <<status, spectatingGames, callbacks, view>>
      BY <1>7 DEF PlayerLeaves, SeatEvent
    <2>2. t.phase = table[g].phase /\ t.running = table[g].running
      BY <1>T DEF Without, TableType
    <2>3. \A c \in Clients : Hears(c, g) => Fits(t, view[c][g])
      BY <1>S, <1>T, WithoutFits
    <2> HIDE DEF t
    <2> QED BY <1>B, <2>1, <2>2, <2>3, ScreensTable
  <1> QED BY <1>1, <1>2, <1>3, <1>4, <1>5, <1>6, <1>7

(* What the clients do. *)
LEMMA ScreensClients ==
  ASSUME TypeOK, Screens, NEW c \in Clients,
         \/ Connect(c) \/ SpectatorAuth(c) \/ Disconnect(c)
         \/ \E g \in Games : Watch(c, g) \/ Unwatch(c, g)
  PROVE  Screens'
  <1>U. \A d \in Clients : status[d] = "unknown" => spectatingGames[d] = {}
    BY DEF Screens
  <1>V. /\ view \in [Clients -> [Games -> {NoView} \cup ViewType]]
        /\ view[c] \in [Games -> {NoView} \cup ViewType]
    BY DEF TypeOK, ViewType
  <1>1. CASE Connect(c)
    <2>1. /\ spectatingGames[c] = {}
          /\ \A d \in Clients : status'[d] = IF d = c THEN "open" ELSE status[d]
          /\ UNCHANGED <<spectatingGames, callbacks, table, view>>
      BY <1>1, <1>U DEF Connect, TypeOK
    <2>2. \A d \in Clients, h \in Games : Hears(d, h)' => Hears(d, h)
      BY <2>1 DEF Hears, Subscribed, IsConnected
    <2> QED BY <1>U, <2>1, <2>2, ScreensKept
  <1>2. CASE SpectatorAuth(c)
    <2>1. /\ \A d \in Clients :
               /\ status'[d] = IF d = c THEN "spectator" ELSE status[d]
               /\ spectatingGames'[d] = IF d = c THEN {} ELSE spectatingGames[d]
               /\ d # c => view'[d] = view[d]
          /\ UNCHANGED <<callbacks, table>>
      BY <1>2 DEF SpectatorAuth, TypeOK
    <2>2. \A d \in Clients, h \in Games : Hears(d, h)' => d # c /\ Hears(d, h)
      BY <2>1 DEF Hears, Subscribed, IsConnected
    <2> QED BY <1>U, <2>1, <2>2, ScreensKept
  <1>3. CASE Disconnect(c)
    <2>1. \A h \in Games : callbacks'[h] \subseteq callbacks[h]
      BY <1>3, UnsubscribedType DEF Disconnect
    <2>2. /\ \A d \in Clients :
               /\ status'[d] = IF d = c THEN "closed" ELSE status[d]
               /\ d # c => /\ spectatingGames'[d] = spectatingGames[d]
                           /\ view'[d] = view[d]
          /\ UNCHANGED table
      BY <1>3 DEF Disconnect, TypeOK
    <2>3. \A d \in Clients, h \in Games : Hears(d, h)' => d # c /\ Hears(d, h)
      BY <2>1, <2>2 DEF Hears, Subscribed, IsConnected
    <2> QED BY <1>U, <2>2, <2>3, ScreensKept
  <1>4. ASSUME NEW g \in Games, Watch(c, g) PROVE Screens'
    <2>1. PICK n \in 1..MaxHandlers :
            callbacks' = [callbacks EXCEPT ![g] = @ \cup {<<c, n>>}]
      BY <1>4 DEF Watch
    <2>2. /\ \A d \in Clients :
               d # c => /\ spectatingGames'[d] = spectatingGames[d]
                        /\ view'[d] = view[d]
          /\ spectatingGames'[c] = spectatingGames[c] \cup {g}
          /\ UNCHANGED <<status, table>> /\ status[c] = "spectator"
      BY <1>4 DEF Watch, TypeOK
    <2>3. view'[c] = [view[c] EXCEPT ![g] = getStateWithVisibility(table[g])]
      BY <1>4, <1>V DEF Watch
    <2>4. \A h \in Games : view'[c][h] = IF h = g THEN getStateWithVisibility(table[g])
                                         ELSE view[c][h]
      BY <1>V, <2>3
    <2>5. Fits(table[g], view'[c][g])
      <3>1. /\ table[g] \in TableType /\ table[g].inHand \subseteq table[g].players
            /\ table[g].running => table[g].phase = "betting"
        BY DEF TypeOK, TableType, Screens
      <3> QED BY <3>1, <2>4, StateFits
    <2>6. \A d \in Clients, h \in Games :
            ~(d = c /\ h = g) /\ Hears(d, h)' => Hears(d, h)
      <3>1. \A d \in Clients, h \in Games, k \in 1..MaxHandlers :
              ~(d = c /\ h = g) /\ <<d, k>> \in callbacks'[h]
                => <<d, k>> \in callbacks[h]
        BY <2>1 DEF TypeOK
      <3> QED BY <2>2, <3>1 DEF Hears, Subscribed, IsConnected
    <2>7. \A d \in Clients, h \in Games :
            ~(d = c /\ h = g) => view'[d][h] = view[d][h]
      BY <2>2, <2>4
    <2>8. \A d \in Clients : status'[d] = "unknown" => spectatingGames'[d] = {}
      BY <1>U, <2>2
    <2> QED BY <2>2, <2>5, <2>6, <2>7, <2>8, ScreensKept
  <1>5. ASSUME NEW g \in Games, Unwatch(c, g) PROVE Screens'
    <2>1. \A h \in Games : callbacks'[h] \subseteq callbacks[h]
      BY <1>5, UnsubscribedType DEF Unwatch
    <2>2. /\ \A d \in Clients :
               d # c => /\ spectatingGames'[d] = spectatingGames[d]
                        /\ view'[d] = view[d]
          /\ spectatingGames'[c] = spectatingGames[c] \ {g}
          /\ UNCHANGED <<status, table>> /\ status[c] = "spectator"
      BY <1>5 DEF Unwatch, TypeOK
    <2>3. view'[c] = [view[c] EXCEPT ![g] = NoView]
      BY <1>5, <1>V DEF Unwatch
    <2>4. \A h \in Games : h # g => view'[c][h] = view[c][h]
      BY <1>V, <2>3
    <2>5. \A d \in Clients, h \in Games :
            Hears(d, h)' => ~(d = c /\ h = g) /\ Hears(d, h)
      BY <2>1, <2>2 DEF Hears, Subscribed, IsConnected
    <2>6. \A d \in Clients, h \in Games :
            ~(d = c /\ h = g) => view'[d][h] = view[d][h]
      BY <2>2, <2>4
    <2>7. \A d \in Clients : status'[d] = "unknown" => spectatingGames'[d] = {}
      BY <1>U, <2>2
    <2> QED BY <2>2, <2>5, <2>6, <2>7, ScreensKept
  <1> QED BY <1>1, <1>2, <1>3, <1>4, <1>5

(* What a spectator has on the screen of a game it hears is never out of   *)
(* date: not after an event that comes without the state, not by whatever  *)
(* handlers are left of earlier subscriptions, and not when the players    *)
(* without chips go after the last event of a hand.                        *)
THEOREM ViewsAreCurrent == Spec => []ViewIsCurrent
  <1>1. Init => Screens
    BY DEF Init, Screens, EmptyTable, Hears
  <1>2. TypeOK /\ Screens /\ [Next]_vars => Screens'
    <2> SUFFICES ASSUME TypeOK, Screens, [Next]_vars PROVE Screens'
      OBVIOUS
    <2>1. CASE UNCHANGED vars
      <3>1. \A c \in Clients, g \in Games : Hears(c, g)' <=> Hears(c, g)
        BY <2>1 DEF vars, Hears, Subscribed, IsConnected
      <3> QED BY <2>1, <3>1 DEF vars, Screens
    <2>2. CASE Next
      BY <2>2, ScreensGames, ScreensClients DEF Next
    <2> QED BY <2>1, <2>2
  <1>3. Screens => ViewIsCurrent
    BY DEF Screens, ViewIsCurrent, Fits
  <1> QED BY <1>1, <1>2, <1>3, TypeCorrect, PTL DEF Spec

=============================================================================
