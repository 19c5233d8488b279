----------------------- MODULE GameController_proofs ------------------------
(***************************************************************************)
(* Proofs about GameController: the type invariant, and the agreement of   *)
(* the controller's maps with the tables, for every number of games and    *)
(* players and every bound on the removals in flight.                      *)
(***************************************************************************)
EXTENDS GameController, FiniteSetTheorems, TLAPS

EngineType == [seated : SUBSET Players, broke : SUBSET Players,
               running : BOOLEAN, handComplete : BOOLEAN]

(* Starting a hand keeps an engine well-formed and seats nobody. *)
LEMMA HandStartedType ==
  ASSUME NEW e \in EngineType, e.broke \subseteq e.seated
  PROVE  /\ HandStarted(e) \in EngineType
         /\ HandStarted(e).broke \subseteq HandStarted(e).seated
         /\ HandStarted(e).seated \subseteq e.seated
  BY DEF HandStarted, EngineType

(* An engine replaced by a well-formed one leaves the engines well-formed. *)
LEMMA EngineUpdate ==
  ASSUME TypeOK, NEW g \in Games, NEW e \in EngineType,
         e.broke \subseteq e.seated, engine' = [engine EXCEPT ![g] = e]
  PROVE  /\ engine' \in [Games -> EngineType]
         /\ \A h \in Games : engine'[h].broke \subseteq engine'[h].seated
  <1>1. engine \in [Games -> EngineType]
    BY DEF TypeOK, EngineType
  <1> QED BY <1>1 DEF TypeOK

(* Unseating a player keeps the types. *)
LEMMA UnseatType ==
  ASSUME TypeOK, NEW g \in Games, NEW p \in Players, Unseat(g, p)
  PROVE  /\ engine' \in [Games -> EngineType]
         /\ \A h \in Games : engine'[h].broke \subseteq engine'[h].seated
         /\ playerGameMap' \in [Players -> Games \cup {NoGame}]
         /\ cleanupTimers' \subseteq Games
  <1>1. engine \in [Games -> EngineType]
    BY DEF TypeOK, EngineType
  <1>2. engine'[g] = [engine[g] EXCEPT !.seated = @ \ {p}, !.broke = @ \ {p}]
    BY <1>1 DEF Unseat, EngineType
  <1>3. \A h \in Games \ {g} : engine'[h] = engine[h]
    BY <1>1 DEF Unseat, EngineType
  <1>4. engine' \in [Games -> EngineType]
    BY <1>1 DEF Unseat, EngineType
  <1>5. engine'[g].broke \subseteq engine'[g].seated
    BY <1>1, <1>2 DEF TypeOK, EngineType
  <1> QED
    BY <1>3, <1>4, <1>5 DEF TypeOK, Unseat

(* The type invariant is inductive by itself. *)
LEMMA TypeStep ==
  TypeOK /\ [Next]_vars => TypeOK'
  <1> SUFFICES ASSUME TypeOK, [Next]_vars PROVE TypeOK'
    OBVIOUS
  <1> USE ControllerAssumption
  <1>T. engine \in [Games -> EngineType]
    BY DEF TypeOK, EngineType
  <1>S. UNCHANGED vars => TypeOK'
    BY DEF TypeOK, vars
  <1>1. ASSUME NEW g \in Games, CreateGame(g) PROVE TypeOK'
    BY <1>1 DEF CreateGame, TypeOK, NewEngine
  <1>2. ASSUME NEW g \in Games, StartGame(g) PROVE TypeOK'
    <2>1. engine' = [engine EXCEPT ![g] = HandStarted(engine[g])]
      BY <1>2 DEF StartGame
    <2>2. /\ engine' \in [Games -> EngineType]
          /\ \A h \in Games : engine'[h].broke \subseteq engine'[h].seated
      BY <2>1, <1>T, HandStartedType DEF TypeOK
    <2> QED BY <1>2, <2>2 DEF StartGame, TypeOK, EngineType
  <1>3. ASSUME NEW g \in Games, NEW r \in Removal, CallRemoveGame(g, r)
        PROVE  removals' \in [Games -> [Removal -> 0..MaxRemovals]]
    <2>1. removals[g][r] + 1 \in 0..MaxRemovals
      BY <1>3 DEF CallRemoveGame, TypeOK
    <2>2. removals[g] \in [Removal -> 0..MaxRemovals]
      BY DEF TypeOK
    <2>3. [removals[g] EXCEPT ![r] = removals[g][r] + 1] \in [Removal -> 0..MaxRemovals]
      BY <2>1, <2>2
    <2>4. removals' = [removals EXCEPT ![g] = [removals[g] EXCEPT ![r] = removals[g][r] + 1]]
      BY <1>3 DEF CallRemoveGame
    <2> QED BY <2>3, <2>4 DEF TypeOK
  <1>4. ASSUME NEW g \in Games, RemoveGame(g) PROVE TypeOK'
    <2>1. removals' \in [Games -> [Removal -> 0..MaxRemovals]]
      BY <1>3, <1>4 DEF RemoveGame, Removal
    <2> QED BY <2>1, <1>4 DEF RemoveGame, TypeOK
  <1>5. ASSUME NEW g \in Games, CleanupTimerFires(g) PROVE TypeOK'
    <2>1. removals' \in [Games -> [Removal -> 0..MaxRemovals]]
      BY <1>3, <1>5 DEF CleanupTimerFires, Removal, TypeOK
    <2> QED BY <2>1, <1>5 DEF CleanupTimerFires, TypeOK
  <1>6. ASSUME NEW g \in Games, NEW r \in Removal, ReplaySaved(g, r)
        PROVE  TypeOK'
    <2>1. removals[g][r] - 1 \in 0..MaxRemovals
      BY <1>6 DEF ReplaySaved, TypeOK
    <2>2. [removals[g] EXCEPT ![r] = removals[g][r] - 1] \in [Removal -> 0..MaxRemovals]
      BY <2>1 DEF TypeOK
    <2>3. removals' = [removals EXCEPT ![g] = [removals[g] EXCEPT ![r] = removals[g][r] - 1]]
      BY <1>6 DEF ReplaySaved
    <2>4. removals' \in [Games -> [Removal -> 0..MaxRemovals]]
      BY <2>2, <2>3 DEF TypeOK
    <2>5. engine[g].seated \subseteq Players
      BY <1>T DEF EngineType
    <2> QED BY <2>4, <2>5, <1>6 DEF ReplaySaved, TypeOK, NewEngine
  <1>7. ASSUME NEW g \in Games, HandStartTimerFires(g) PROVE TypeOK'
    <2>1. \/ engine' = [engine EXCEPT ![g] = HandStarted(engine[g])]
          \/ engine' = engine
      BY <1>7 DEF HandStartTimerFires
    <2>2. /\ engine' \in [Games -> EngineType]
          /\ \A h \in Games : engine'[h].broke \subseteq engine'[h].seated
      <3>1. CASE engine' = engine
        BY <3>1, <1>T DEF TypeOK
      <3>2. CASE engine' = [engine EXCEPT ![g] = HandStarted(engine[g])]
        <4>1. /\ HandStarted(engine[g]) \in EngineType
              /\ HandStarted(engine[g]).broke \subseteq HandStarted(engine[g]).seated
          BY <1>T, HandStartedType DEF TypeOK
        <4> QED BY <3>2, <4>1, EngineUpdate
      <3> QED BY <2>1, <3>1, <3>2
    <2> QED BY <1>7, <2>2 DEF HandStartTimerFires, TypeOK, EngineType
  <1>8. ASSUME NEW g \in Games, EndHand(g) PROVE TypeOK'
    <2>1. PICK busted \in SUBSET engine[g].broke, complete \in BOOLEAN :
            HandCompletes(g, busted, complete)
      BY <1>8 DEF EndHand
    <2>2. engine[g].seated \in SUBSET Players
      BY <1>T DEF EngineType
    <2>3. /\ engine' \in [Games -> EngineType]
          /\ \A h \in Games : engine'[h].broke \subseteq engine'[h].seated
      BY <1>T, <2>1, <2>2 DEF HandCompletes, EngineType, TypeOK
    <2> QED BY <2>1, <2>3 DEF HandCompletes, TypeOK, EngineType
  <1>9. ASSUME NEW g \in Games, NEW p \in Players, AddPlayerToGame(g, p)
        PROVE  TypeOK'
    <2> DEFINE joined == [engine[g] EXCEPT !.seated = @ \cup {p}]
    <2>1. joined \in EngineType /\ joined.broke \subseteq joined.seated
      BY <1>T DEF EngineType, TypeOK
    <2>2. /\ HandStarted(joined) \in EngineType
          /\ HandStarted(joined).broke \subseteq HandStarted(joined).seated
      BY <2>1, HandStartedType
    <2>3. \/ engine' = [engine EXCEPT ![g] = HandStarted(joined)]
          \/ engine' = [engine EXCEPT ![g] = joined]
          \/ engine' = engine
      BY <1>9 DEF AddPlayerToGame
    <2> HIDE DEF joined
    <2>4. /\ engine' \in [Games -> EngineType]
          /\ \A h \in Games : engine'[h].broke \subseteq engine'[h].seated
      <3>1. CASE engine' = engine
        BY <3>1, <1>T DEF TypeOK
      <3>2. CASE engine' # engine
        BY <3>2, <2>1, <2>2, <2>3, EngineUpdate
      <3> QED BY <3>1, <3>2
    <2>5. playerGameMap' \in [Players -> Games \cup {NoGame}]
      BY <1>9 DEF AddPlayerToGame, TypeOK
    <2> QED BY <1>9, <2>4, <2>5 DEF AddPlayerToGame, TypeOK, EngineType
  <1>10. ASSUME NEW g \in Games, NEW p \in Players, RemovePlayerFromGame(g, p)
         PROVE  TypeOK'
    <2>1. Unseat(g, p)
      BY <1>10 DEF RemovePlayerFromGame
    <2> QED BY <1>10, <2>1, UnseatType DEF RemovePlayerFromGame, TypeOK, EngineType
  <1>11. ASSUME NEW g \in Games, NEW p \in Players, RequestUnseat(g, p)
         PROVE  TypeOK'
    <2>1. CASE Unseat(g, p) /\ UNCHANGED pendingUnseats
      BY <1>11, <2>1, UnseatType DEF RequestUnseat, TypeOK, EngineType
    <2>2. CASE /\ pendingUnseats' = [pendingUnseats EXCEPT ![g] = @ \cup {p}]
               /\ UNCHANGED <<engine, playerGameMap, cleanupTimers>>
      BY <1>11, <2>2 DEF RequestUnseat, TypeOK
    <2> QED BY <1>11, <2>1, <2>2 DEF RequestUnseat
  <1>12. ASSUME NEW g \in Games, NEW p \in Players, GoAllIn(g, p)
         PROVE  TypeOK'
    <2>1. engine' = [engine EXCEPT ![g] = [engine[g] EXCEPT !.broke = @ \cup {p}]]
      BY <1>12 DEF GoAllIn
    <2>2. p \in engine[g].seated
      BY <1>12 DEF GoAllIn
    <2>3. /\ engine' \in [Games -> EngineType]
          /\ \A h \in Games : engine'[h].broke \subseteq engine'[h].seated
      BY <2>1, <2>2, <1>T DEF EngineType, TypeOK
    <2> QED BY <1>12, <2>3 DEF GoAllIn, TypeOK, EngineType
  <1>X. ASSUME NEW g \in Games, HandStartTimerThrows(g) PROVE TypeOK'
    <2>1. removals' \in [Games -> [Removal -> 0..MaxRemovals]]
      BY <1>X DEF HandStartTimerThrows
    <2> QED BY <1>X, <2>1 DEF HandStartTimerThrows, TypeOK, NewEngine
  <1>13. CASE Next
    <2>1. PICK g \in Games :
            \/ CreateGame(g) \/ StartGame(g) \/ RemoveGame(g)
            \/ CleanupTimerFires(g) \/ HandStartTimerFires(g) \/ EndHand(g)
            \/ HandStartTimerThrows(g)
            \/ \E r \in Removal : ReplaySaved(g, r)
            \/ \E p \in Players : \/ AddPlayerToGame(g, p)
                                  \/ RemovePlayerFromGame(g, p)
                                  \/ RequestUnseat(g, p)
                                  \/ GoAllIn(g, p)
      BY <1>13 DEF Next
    <2>2. CASE \E r \in Removal : ReplaySaved(g, r)
      BY <2>2, <1>6
    <2>3. CASE \E p \in Players : \/ AddPlayerToGame(g, p)
                                 \/ RemovePlayerFromGame(g, p)
                                 \/ RequestUnseat(g, p)
                                 \/ GoAllIn(g, p)
      BY <2>3, <1>9, <1>10, <1>11, <1>12
    <2> QED
      BY <2>1, <2>2, <2>3, <1>1, <1>2, <1>4, <1>5, <1>7, <1>8,
         <1>X
  <1> QED
    BY <1>S, <1>13

(* Every variable of the controller keeps its type, and the players        *)
(* without chips are always seated ones.                                   *)
THEOREM TypeCorrect == Spec => []TypeOK
  <1>1. Init => TypeOK
    <2> SUFFICES ASSUME Init PROVE TypeOK
      OBVIOUS
    <2>1. [r \in Removal |-> 0] \in [Removal -> 0..MaxRemovals]
      BY ControllerAssumption
    <2>2. removals \in [Games -> [Removal -> 0..MaxRemovals]]
      BY <2>1 DEF Init
    <2> QED BY <2>2 DEF Init, TypeOK, NewEngine
  <1> QED BY <1>1, TypeStep, PTL DEF Spec

-----------------------------------------------------------------------------
(* The seats and the map of players *)

(* Giving up a seat in g leaves the other seats mapped, because nobody     *)
(* sits at two tables.                                                     *)
LEMMA UnseatSeats ==
  ASSUME TypeOK, SeatedIsMapped, NEW g \in games, NEW p \in engine[g].seated,
         Unseat(g, p), games' = games
  PROVE  SeatedIsMapped'
  <1>1. g \in Games /\ engine \in [Games -> EngineType] /\ games \subseteq Games
    BY DEF TypeOK, EngineType
  <1>2. p \in Players
    BY <1>1 DEF EngineType
  <1> SUFFICES ASSUME NEW h \in games, NEW q \in engine'[h].seated
               PROVE  playerGameMap'[q] = h
    BY DEF SeatedIsMapped
  <1>3. q \in engine[h].seated /\ (h = g => q # p)
    BY <1>1 DEF Unseat, EngineType
  <1>4. q \in Players /\ playerGameMap[q] = h /\ playerGameMap[p] = g
    BY <1>1, <1>3 DEF SeatedIsMapped, EngineType
  <1>5. q # p
    BY <1>3, <1>4
  <1> QED BY <1>2, <1>4, <1>5 DEF Unseat, TypeOK

(* The directory of players stays right about everybody who has a seat. *)
LEMMA SeatedStep ==
  TypeOK /\ SeatedIsMapped /\ [Next]_vars => SeatedIsMapped'
  <1> SUFFICES ASSUME TypeOK, SeatedIsMapped, [Next]_vars
               PROVE  SeatedIsMapped'
    OBVIOUS
  <1>T. engine \in [Games -> EngineType] /\ games \subseteq Games
    BY DEF TypeOK, EngineType
  <1>S. UNCHANGED vars => SeatedIsMapped'
    BY DEF SeatedIsMapped, vars
  <1>0. ASSUME UNCHANGED <<games, playerGameMap>>, NEW g \in Games,
               NEW e \in EngineType, engine' = [engine EXCEPT ![g] = e],
               e.seated \subseteq engine[g].seated
        PROVE  SeatedIsMapped'
    BY <1>0, <1>T DEF SeatedIsMapped
  <1>1. ASSUME NEW g \in Games, CreateGame(g) PROVE SeatedIsMapped'
    BY <1>1, <1>T DEF CreateGame, SeatedIsMapped, NewEngine
  <1>2. ASSUME NEW g \in Games, StartGame(g) PROVE SeatedIsMapped'
    <2>1. /\ HandStarted(engine[g]) \in EngineType
          /\ HandStarted(engine[g]).seated \subseteq engine[g].seated
      BY <1>T, HandStartedType DEF TypeOK
    <2> QED BY <1>0, <1>2, <2>1 DEF StartGame
  <1>3. ASSUME NEW g \in Games, HandStartTimerFires(g) PROVE SeatedIsMapped'
    <2>1. /\ HandStarted(engine[g]) \in EngineType
          /\ HandStarted(engine[g]).seated \subseteq engine[g].seated
      BY <1>T, HandStartedType DEF TypeOK
    <2>2. CASE engine' = engine
      BY <1>3, <2>2 DEF HandStartTimerFires, SeatedIsMapped
    <2> QED BY <1>0, <1>3, <2>1, <2>2 DEF HandStartTimerFires
  <1>4. ASSUME NEW g \in Games, RemoveGame(g) \/ CleanupTimerFires(g)
        PROVE  SeatedIsMapped'
    BY <1>4 DEF RemoveGame, CleanupTimerFires, SeatedIsMapped
  <1>5. ASSUME NEW g \in Games, NEW r \in Removal, ReplaySaved(g, r)
        PROVE  SeatedIsMapped'
    <2> SUFFICES ASSUME NEW h \in games', NEW q \in engine'[h].seated
                 PROVE  playerGameMap'[q] = h
      BY DEF SeatedIsMapped
    <2>1. h \in games /\ h # g /\ q \in engine[h].seated
      BY <1>5, <1>T DEF ReplaySaved
    <2>2. q \in Players /\ playerGameMap[q] = h
      BY <2>1, <1>T DEF SeatedIsMapped, EngineType
    <2> QED BY <1>5, <2>1, <2>2 DEF ReplaySaved
  <1>6. ASSUME NEW g \in Games, EndHand(g) PROVE SeatedIsMapped'
    <2>1. PICK busted \in SUBSET engine[g].broke, complete \in BOOLEAN :
            HandCompletes(g, busted, complete)
      BY <1>6 DEF EndHand
    <2> DEFINE leaving == pendingUnseats[g] \cap engine[g].seated
    <2> SUFFICES ASSUME NEW h \in games, NEW q \in engine'[h].seated
                 PROVE  playerGameMap'[q] = h
      BY <2>1 DEF SeatedIsMapped, HandCompletes
    <2>2. q \in engine[h].seated /\ (h = g => q \notin leaving)
      BY <2>1, <1>T DEF HandCompletes
    <2>3. q \in Players /\ playerGameMap[q] = h
      BY <2>2, <1>T DEF SeatedIsMapped, EngineType
    <2>4. q \notin leaving
      BY <2>1, <2>2, <2>3 DEF SeatedIsMapped, HandCompletes
    <2> QED BY <2>1, <2>3, <2>4 DEF HandCompletes
  <1>7. ASSUME NEW g \in Games, NEW p \in Players, AddPlayerToGame(g, p)
        PROVE  SeatedIsMapped'
    <2> DEFINE joined == [engine[g] EXCEPT !.seated = @ \cup {p}]
    <2>1. /\ joined \in EngineType /\ joined.broke \subseteq joined.seated
          /\ joined.seated = engine[g].seated \cup {p}
      BY <1>T DEF EngineType, TypeOK
    <2>2. HandStarted(joined).seated \subseteq joined.seated
      BY <2>1, HandStartedType
    <2>3. CASE engine[g].running
      BY <1>7, <2>3 DEF AddPlayerToGame, SeatedIsMapped
    <2>4. CASE ~engine[g].running
      <3>1. \/ engine' = [engine EXCEPT ![g] = HandStarted(joined)]
            \/ engine' = [engine EXCEPT ![g] = joined]
        BY <1>7, <2>4 DEF AddPlayerToGame
      <3>2. playerGameMap' = [playerGameMap EXCEPT ![p] = g] /\ games' = games
        BY <1>7, <2>4 DEF AddPlayerToGame
      <3> HIDE DEF joined
      <3> SUFFICES ASSUME NEW h \in games, NEW q \in engine'[h].seated
                   PROVE  playerGameMap'[q] = h
        BY <3>2 DEF SeatedIsMapped
      <3>3. \/ q \in engine[h].seated
            \/ h = g /\ q = p
        BY <3>1, <2>1, <2>2, <1>T
      <3>4. playerGameMap \in [Players -> Games \cup {NoGame}]
        BY DEF TypeOK
      <3>5. CASE h = g /\ q = p
        BY <3>2, <3>4, <3>5
      <3>6. CASE q \in engine[h].seated
        <4>1. q \in Players /\ playerGameMap[q] = h /\ h \in Games
          BY <3>6, <1>T DEF SeatedIsMapped, EngineType
        <4>2. q # p
          BY <4>1, <1>7, ControllerAssumption DEF AddPlayerToGame
        <4> QED BY <3>2, <3>4, <4>1, <4>2
      <3> QED BY <3>3, <3>5, <3>6
    <2> QED BY <2>3, <2>4
  <1>8. ASSUME NEW g \in Games, NEW p \in Players, RemovePlayerFromGame(g, p)
        PROVE  SeatedIsMapped'
    BY <1>8, UnseatSeats DEF RemovePlayerFromGame
  <1>9. ASSUME NEW g \in Games, NEW p \in Players, RequestUnseat(g, p)
        PROVE  SeatedIsMapped'
    <2>1. CASE engine[g].handComplete
      BY <1>9, <2>1, UnseatSeats DEF RequestUnseat
    <2>2. CASE ~engine[g].handComplete
      BY <1>9, <2>2 DEF RequestUnseat, SeatedIsMapped
    <2> QED BY <2>1, <2>2
  <1>10. ASSUME NEW g \in Games, NEW p \in Players, GoAllIn(g, p)
         PROVE  SeatedIsMapped'
    <2> DEFINE e == [engine[g] EXCEPT !.broke = @ \cup {p}]
    <2>1. e \in EngineType /\ e.seated = engine[g].seated
      BY <1>T DEF EngineType
    <2>2. engine' = [engine EXCEPT ![g] = e]
      BY <1>10 DEF GoAllIn
    <2> HIDE DEF e
    <2> QED BY <1>0, <1>10, <2>1, <2>2 DEF GoAllIn
  <1>X. ASSUME NEW g \in Games, HandStartTimerThrows(g) PROVE SeatedIsMapped'
    BY <1>X DEF HandStartTimerThrows, SeatedIsMapped
  <1>11. CASE Next
    <2>1. PICK g \in Games :
            \/ CreateGame(g) \/ StartGame(g) \/ RemoveGame(g)
            \/ CleanupTimerFires(g) \/ HandStartTimerFires(g) \/ EndHand(g)
            \/ HandStartTimerThrows(g)
            \/ \E r \in Removal : ReplaySaved(g, r)
            \/ \E p \in Players : \/ AddPlayerToGame(g, p)
                                  \/ RemovePlayerFromGame(g, p)
                                  \/ RequestUnseat(g, p)
                                  \/ GoAllIn(g, p)
      BY <1>11 DEF Next
    <2>2. CASE \E r \in Removal : ReplaySaved(g, r)
      BY <2>2, <1>5
    <2>3. CASE \E p \in Players : \/ AddPlayerToGame(g, p)
                                 \/ RemovePlayerFromGame(g, p)
                                 \/ RequestUnseat(g, p)
                                 \/ GoAllIn(g, p)
      BY <2>3, <1>7, <1>8, <1>9, <1>10
    <2> QED
      BY <2>1, <2>2, <2>3, <1>1, <1>2, <1>3, <1>4, <1>6, <1>X
  <1> QED
    BY <1>S, <1>11

(* In every state playerGameMap is right about everybody who is seated in  *)
(* a game that exists; hence nobody sits at two tables.                    *)
THEOREM SeatsAreMapped == Spec => []SeatedIsMapped
  <1>1. Init => SeatedIsMapped
    BY DEF Init, SeatedIsMapped
  <1> QED BY <1>1, TypeCorrect, SeatedStep, PTL DEF Spec

-----------------------------------------------------------------------------
(* What belongs to a game goes with it *)

(* Timers, unseat requests and entries of the map exist only for games     *)
(* that exist, also when removeGame() resumes after its await.             *)
LEMMA OutlivesStep ==
  TypeOK /\ NothingOutlivesItsGame /\ [Next]_vars => NothingOutlivesItsGame'
  <1> SUFFICES ASSUME TypeOK, NothingOutlivesItsGame, [Next]_vars
               PROVE  NothingOutlivesItsGame'
    OBVIOUS
  <1> USE DEF NothingOutlivesItsGame
  <1>S. UNCHANGED vars => NothingOutlivesItsGame'
    BY DEF vars
  <1>1. ASSUME NEW g \in Games,
               \/ CreateGame(g) \/ StartGame(g) \/ RemoveGame(g)
               \/ CleanupTimerFires(g) \/ HandStartTimerFires(g)
        PROVE  NothingOutlivesItsGame'
    BY <1>1 DEF CreateGame, StartGame, RemoveGame, CleanupTimerFires,
                HandStartTimerFires
  <1>2. ASSUME NEW g \in Games, NEW r \in Removal, ReplaySaved(g, r)
        PROVE  NothingOutlivesItsGame'
    <2>1. \A h \in Games : pendingUnseats'[h] # {} => h # g /\ pendingUnseats[h] # {}
      BY <1>2 DEF ReplaySaved, TypeOK
    <2> QED BY <1>2, <2>1 DEF ReplaySaved
  <1>3. ASSUME NEW g \in Games, EndHand(g) PROVE NothingOutlivesItsGame'
    <2>1. PICK busted \in SUBSET engine[g].broke, complete \in BOOLEAN :
            HandCompletes(g, busted, complete)
      BY <1>3 DEF EndHand
    <2>2. \A h \in Games : pendingUnseats'[h] # {} => pendingUnseats[h] # {}
      BY <2>1 DEF HandCompletes, TypeOK
    <2> QED BY <2>1, <2>2 DEF HandCompletes
  <1>4. ASSUME NEW g \in games, NEW p \in Players, Unseat(g, p),
               UNCHANGED <<games, pendingUnseats, handStartTimers>>
        PROVE  NothingOutlivesItsGame'
    BY <1>4 DEF Unseat, TypeOK
  <1>5. ASSUME NEW g \in Games, NEW p \in Players,
               \/ AddPlayerToGame(g, p) \/ RemovePlayerFromGame(g, p)
               \/ RequestUnseat(g, p) \/ GoAllIn(g, p)
        PROVE  NothingOutlivesItsGame'
    <2>1. CASE AddPlayerToGame(g, p)
      BY <2>1 DEF AddPlayerToGame, TypeOK
    <2>2. CASE RemovePlayerFromGame(g, p)
      BY <2>2, <1>4 DEF RemovePlayerFromGame
    <2>3. CASE RequestUnseat(g, p) /\ engine[g].handComplete
      BY <2>3, <1>4 DEF RequestUnseat
    <2>4. CASE RequestUnseat(g, p) /\ ~engine[g].handComplete
      <3>1. /\ g \in games /\ UNCHANGED <<games, playerGameMap, cleanupTimers, handStartTimers>>
            /\ pendingUnseats' = [pendingUnseats EXCEPT ![g] = @ \cup {p}]
        BY <2>4 DEF RequestUnseat
      <3>2. \A h \in Games \ {g} : pendingUnseats'[h] = pendingUnseats[h]
        BY <3>1 DEF TypeOK
      <3> QED BY <3>1, <3>2
    <2>5. CASE GoAllIn(g, p)
      BY <2>5 DEF GoAllIn
    <2> QED BY <1>5, <2>1, <2>2, <2>3, <2>4, <2>5
  <1>X. ASSUME NEW g \in Games, HandStartTimerThrows(g)
        PROVE  NothingOutlivesItsGame'
    BY <1>X DEF HandStartTimerThrows
  <1>6. CASE Next
    BY <1>6, <1>1, <1>2, <1>3, <1>5, <1>X DEF Next
  <1> QED BY <1>S, <1>6

(* No entry of playerGameMap, no timer and no unseat request is kept for a *)
(* game that is gone.                                                      *)
THEOREM NothingOutlives == Spec => []NothingOutlivesItsGame
  <1>1. Init => NothingOutlivesItsGame
    BY DEF Init, NothingOutlivesItsGame
  <1> QED BY <1>1, TypeCorrect, OutlivesStep, PTL DEF Spec

-----------------------------------------------------------------------------
(* The hand start timer *)

(* Between hands every seated player has chips. *)
NobodyBroke == \A g \in Games : ~engine[g].running => engine[g].broke = {}

(* Players lose their last chips in a hand only, and the end of a hand     *)
(* takes the seats of those it left without.                               *)
LEMMA NobodyBrokeStep ==
  TypeOK /\ NobodyBroke /\ [Next]_vars => NobodyBroke'
  <1> SUFFICES ASSUME TypeOK, NobodyBroke, [Next]_vars PROVE NobodyBroke'
    OBVIOUS
  <1> USE DEF NobodyBroke
  <1>T. engine \in [Games -> EngineType]
    BY DEF TypeOK, EngineType
  <1>H. ASSUME NEW e \in EngineType PROVE HandStarted(e).broke = {}
    BY DEF HandStarted, EngineType
  <1>U. ASSUME NEW g \in Games, NEW e \in EngineType, ~e.running => e.broke = {},
               engine' = [engine EXCEPT ![g] = e]
        PROVE  NobodyBroke'
    BY <1>U, <1>T
  <1>N. UNCHANGED engine => NobodyBroke'
    OBVIOUS
  <1>S. UNCHANGED vars => NobodyBroke'
    BY <1>N DEF vars
  <1>1. ASSUME NEW g \in Games, CreateGame(g) PROVE NobodyBroke'
    BY <1>1, <1>T DEF CreateGame, NewEngine, EngineType
  <1>2. ASSUME NEW g \in Games,
               engine' = [engine EXCEPT ![g] = HandStarted(engine[g])]
        PROVE  NobodyBroke'
    <2>1. HandStarted(engine[g]) \in EngineType
      BY <1>T, HandStartedType DEF TypeOK
    <2> QED BY <1>2, <2>1, <1>T, <1>H, <1>U
  <1>3. ASSUME NEW g \in Games, NEW p \in Players, Unseat(g, p)
        PROVE  NobodyBroke'
    BY <1>3, <1>T DEF Unseat, EngineType
  <1>4. ASSUME NEW g \in Games, NEW r \in Removal, ReplaySaved(g, r)
        PROVE  NobodyBroke'
    BY <1>4, <1>T DEF ReplaySaved, NewEngine, EngineType
  <1>5. ASSUME NEW g \in Games, EndHand(g) PROVE NobodyBroke'
    BY <1>5, <1>T DEF EndHand, HandCompletes, EngineType
  <1>6. ASSUME NEW g \in Games, NEW p \in Players, GoAllIn(g, p)
        PROVE  NobodyBroke'
    BY <1>6, <1>T DEF GoAllIn, EngineType
  <1>7. ASSUME NEW g \in Games, NEW p \in Players, AddPlayerToGame(g, p)
        PROVE  NobodyBroke'
    <2> DEFINE joined == [engine[g] EXCEPT !.seated = @ \cup {p}]
    <2>1. CASE engine[g].running
      BY <2>1, <1>7, <1>N DEF AddPlayerToGame
    <2>2. joined \in EngineType /\ joined.broke \subseteq joined.seated
          /\ joined.broke = engine[g].broke /\ joined.running = engine[g].running
      BY <1>T DEF TypeOK, EngineType
    <2>3. CASE ~engine[g].running
      <3>1. \/ engine' = [engine EXCEPT ![g] = HandStarted(joined)]
            \/ engine' = [engine EXCEPT ![g] = joined]
        BY <2>3, <1>7 DEF AddPlayerToGame
      <3>2. HandStarted(joined) \in EngineType /\ HandStarted(joined).broke = {}
        BY <2>2, <1>H, HandStartedType
      <3> HIDE DEF joined
      <3> QED BY <2>2, <2>3, <3>1, <3>2, <1>U
    <2> QED BY <2>1, <2>3
  <1>8. ASSUME NEW g \in Games, HandStartTimerThrows(g) PROVE NobodyBroke'
    BY <1>8 DEF HandStartTimerThrows, NewEngine
  <1>9. ASSUME NEW g \in Games,
               StartGame(g) \/ RemoveGame(g) \/ CleanupTimerFires(g)
                 \/ HandStartTimerFires(g)
        PROVE  NobodyBroke'
    BY <1>9, <1>2, <1>N DEF StartGame, RemoveGame, CleanupTimerFires,
                            HandStartTimerFires
  <1>10. ASSUME NEW g \in Games, NEW p \in Players,
                RemovePlayerFromGame(g, p) \/ RequestUnseat(g, p)
         PROVE  NobodyBroke'
    BY <1>10, <1>3, <1>N DEF RemovePlayerFromGame, RequestUnseat
  <1>11. CASE Next
    BY <1>11, <1>1, <1>4, <1>5, <1>6, <1>7, <1>8, <1>9, <1>10 DEF Next
  <1> QED BY <1>S, <1>11

(* A table with two seats taken and nobody without chips can start. *)
LEMMA ThrowsNeedsBroke ==
  ASSUME TypeOK, NEW g \in Games, StartThrows(g)
  PROVE  engine[g].broke # {}
  <1> SUFFICES ASSUME engine[g].broke = {} PROVE FALSE
    OBVIOUS
  <1>1. engine[g].seated \ engine[g].broke = engine[g].seated
    OBVIOUS
  <1>2. engine[g].seated \subseteq Players
    BY DEF TypeOK
  <1>3. Cardinality(engine[g].seated) \in Nat
    BY <1>2, ControllerAssumption, FS_Subset, FS_CardinalityType
  <1> QED BY <1>1, <1>3 DEF StartThrows

(* The callback of the hand start timer throws only over a running hand:   *)
(* between hands its count of seats is a count of players with chips.      *)
THEOREM TimerThrowsMidHand == Spec => []TimerThrowsOnlyMidHand
  <1>1. Init => NobodyBroke
    BY DEF Init, NobodyBroke, NewEngine
  <1>2. TypeOK /\ NobodyBroke => TimerThrowsOnlyMidHand
    BY ThrowsNeedsBroke DEF NobodyBroke, TimerThrowsOnlyMidHand, TypeOK
  <1> QED BY <1>1, <1>2, TypeCorrect, NobodyBrokeStep, PTL DEF Spec

=============================================================================
