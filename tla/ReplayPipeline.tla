--------------------------- MODULE ReplayPipeline ---------------------------
(***************************************************************************)
(* How a game becomes a stored replay: domain/replay/GameReplayRecorder.ts *)
(* and ReplayManager.ts, infrastructure/storage/ReplayStorage.ts,          *)
(* application/services/ReplayService.ts, the repository and the           *)
(* connection under infrastructure/persistence, and the calls that the     *)
(* GameController and the routes of the server make.                       *)
(*                                                                         *)
(* The recorder is synchronous.  A save writes a file at once and then     *)
(* makes up to five database requests; between two of them everything else *)
(* runs: other saves of the same game, events of the game that is being    *)
(* removed, and games created under its identifier.                        *)
(*                                                                         *)
(* An event is its sequenceId.  Checkpoints do not occur: they need a      *)
(* gameStateAfter, and the controller, the only caller of recordEvent(),   *)
(* passes none.                                                            *)
(***************************************************************************)
EXTENDS Integers, Sequences, FiniteSets, Functions

CONSTANTS
  Games,
  MaxReplaysInMemory,
  RetryAttempts,       \* of DatabaseConnection.connect()
  Calls,               \* bound: saves in progress at a time
  MaxSequence,         \* bound: events recorded
  MaxSaves             \* bound: saves asked for by the route

ASSUME PipelineAssumption ==
  /\ MaxReplaysInMemory \in Nat /\ RetryAttempts \in Nat \ {0} /\ MaxSequence \in Nat
  /\ MaxSaves \in Nat

VARIABLES
  live,             \* the games of the controller
  recordings,       \* of the recorder: a map from games to recordings
  sequenceCounter,
  files,            \* the games with a copy in the replay directory
  replays,          \* the collection replays: a map from games to documents
  replayService,    \* whether ReplayStorage has one
  connection,       \* "connecting", "up", "down", or "failed"
  attempts,
  calls,
  saves,            \* how often the route was asked for a save
  excused           \* history: games that need no replay: never created, or
                    \* removed when both stores failed or MaxReplaysInMemory
                    \* other games were being recorded

dbVars == <<replayService, connection, attempts>>
vars == <<live, recordings, sequenceCounter, files, replays, dbVars, calls, saves,
          excused>>

Events == Seq(1..MaxSequence)
Recording == [events : Events, isActive : BOOLEAN]
Document == [events : Events, totalEvents : Nat]

(* Where a save is: the request to the database that is under way, or back *)
(* in ReplayManager with or without success.                               *)
Request == {"getReplay", "createReplay", "addEvents", "push", "findAgain",
            "updateAnalytics"}
Step == {"idle", "saved", "notSaved"} \cup Request

Call == [step : Step, for : {"removeGame", "saveRoute"}, gameId : Games,
         events : Events,        \* the clone that is being stored
         totalEvents : Nat,      \* the new analytics of addEvents()
         file : BOOLEAN]         \* fileSuccess

TypeOK ==
  /\ live \subseteq Games
  /\ DOMAIN recordings \subseteq Games
  /\ \A g \in DOMAIN recordings : recordings[g] \in Recording
  /\ sequenceCounter \in 0..MaxSequence
  /\ files \subseteq Games
  /\ DOMAIN replays \subseteq Games
  /\ \A g \in DOMAIN replays : replays[g] \in Document
  /\ replayService \in BOOLEAN
  /\ connection \in {"connecting", "up", "down", "failed"}
  /\ attempts \in 0..RetryAttempts
  /\ DOMAIN calls \subseteq Calls
  /\ \A c \in DOMAIN calls : calls[c] \in Call
  /\ saves \in 0..MaxSaves
  /\ excused \subseteq Games

Nothing == [x \in {} |-> x]

(* ReplayStorage sets replayService before it awaits the connection. *)
Init ==
  /\ live = {}
  /\ recordings = Nothing
  /\ sequenceCounter = 0
  /\ files = {}
  /\ replays = Nothing
  /\ replayService = TRUE
  /\ connection = "connecting"
  /\ attempts = 0
  /\ calls = Nothing
  /\ saves = 0
  /\ excused = Games

(* f with x mapped to y, whether or not it was mapped before: Map.set(). *)
Put(f, x, y) == [z \in DOMAIN f \cup {x} |-> IF z = x THEN y ELSE f[z]]

-----------------------------------------------------------------------------
(* GameReplayRecorder *)

(* The recordings start in the order of their first events. *)
startTime(rec) == Head(rec.events)

Inactive(recs) == {g \in DOMAIN recs : ~recs[g].isActive}

(* Mutant: the oldest recordings go, active or not. *)
manageMemoryAnyOldest(recs) ==
  LET Older(g) == {h \in DOMAIN recs : startTime(recs[h]) < startTime(recs[g])}
      removed == {g \in DOMAIN recs :
                    Cardinality(Older(g)) < Cardinality(DOMAIN recs) - MaxReplaysInMemory}
  IN  Restrict(recs, DOMAIN recs \ removed)

(* Mutant: room is made for one more recording. *)
manageMemoryOneTooMany(recs) ==
  LET Older(g) == {h \in Inactive(recs) : startTime(recs[h]) < startTime(recs[g])}
      removed == {g \in Inactive(recs) :
                    Cardinality(Older(g)) <= Cardinality(DOMAIN recs) - MaxReplaysInMemory}
  IN  Restrict(recs, DOMAIN recs \ removed)

(* manageMemory(): the oldest inactive recordings go, as many as there are *)
(* recordings too many.                                                    *)
manageMemory(recs) ==
  LET Older(g) == {h \in Inactive(recs) : startTime(recs[h]) < startTime(recs[g])}
      removed == {g \in Inactive(recs) :
                    Cardinality(Older(g)) < Cardinality(DOMAIN recs) - MaxReplaysInMemory}
  IN  Restrict(recs, DOMAIN recs \ removed)

(* recordEvent(): whether the recording is active is not asked. *)
recordEvent(recs, g) ==
  manageMemory([recs EXCEPT ![g].events = Append(@, sequenceCounter + 1)])

(* startRecording(); it replaces the recording of an earlier game.         *)
startRecording(recs, g) ==
  recordEvent(Put(recs, g, [events |-> <<>>, isActive |-> TRUE]), g)

(* endRecording(): the recording is inactive when game_ended is recorded,  *)
(* so manageMemory() may drop it then.                                     *)
endRecording(recs, g) ==
  recordEvent([recs EXCEPT ![g].isActive = FALSE], g)

CountEvent ==
  /\ sequenceCounter < MaxSequence
  /\ sequenceCounter' = sequenceCounter + 1

-----------------------------------------------------------------------------
(* ReplayManager and ReplayStorage up to the first request *)

Goto(c, step) == calls' = [calls EXCEPT ![c].step = step]

(* saveReplayToFile(): synchronous; it may fail. *)
saveReplayToFile(g, written) ==
  files' = IF written THEN files \cup {g} ELSE files

(* saveReplay() of the storage: first the file, and then, if there is a    *)
(* replayService, saveReplayToMongo() begins.                              *)
saveReplay(c, for, g, events) ==
  \E written \in BOOLEAN :
    /\ saveReplayToFile(g, written)
    /\ calls' = Put(calls, c,
                    [step |-> IF replayService THEN "getReplay" ELSE "notSaved",
                     for |-> for, gameId |-> g, events |-> events,
                     totalEvents |-> 0, file |-> written])

(* Nothing was recorded, or nothing is left of it. *)
saveNothing(c, g) ==
  /\ calls' = Put(calls, c, [step |-> "notSaved", for |-> "removeGame", gameId |-> g,
                             events |-> <<>>, totalEvents |-> 0, file |-> FALSE])
  /\ UNCHANGED files

-----------------------------------------------------------------------------
(* The GameController and the routes *)

CreateGame(g) ==
  /\ g \notin live
  /\ live' = live \cup {g}
  /\ CountEvent
  /\ recordings' = startRecording(recordings, g)
  /\ excused' = excused \ {g}
  /\ UNCHANGED <<files, replays, dbVars, calls, saves>>

(* handleGameEvent() *)
HandleGameEvent(g) ==
  /\ g \in live
  /\ g \in DOMAIN recordings
  /\ CountEvent
  /\ recordings' = recordEvent(recordings, g)
  /\ UNCHANGED <<live, files, replays, dbVars, calls, saves, excused>>

(* removeGame() up to its await, for a game that has a recording.  A game  *)
(* may be removed twice, by the dashboard and by its cleanup timer.        *)
RemoveGame(c, g) ==
  /\ c \notin DOMAIN calls
  /\ g \in live
  /\ g \in DOMAIN recordings
  /\ CountEvent
  /\ recordings' = endRecording(recordings, g)
  /\ IF g \in DOMAIN recordings'
     THEN /\ saveReplay(c, "removeGame", g, recordings'[g].events)
          /\ UNCHANGED excused
     ELSE /\ saveNothing(c, g)
          /\ excused' = IF Cardinality(DOMAIN recordings') >= MaxReplaysInMemory
                           /\ Inactive(recordings') = {}
                        THEN excused \cup {g} ELSE excused
  /\ UNCHANGED <<live, replays, dbVars, saves>>

(* removeGame() when an earlier removal under way has lost the recording.  *)
RemoveGameUnrecorded(c, g) ==
  /\ c \notin DOMAIN calls
  /\ g \in live
  /\ g \notin DOMAIN recordings
  /\ saveNothing(c, g)
  /\ UNCHANGED <<live, recordings, sequenceCounter, replays, dbVars, saves, excused>>

(* POST /api/replays/:gameId/save, also while the game is going on. *)
SaveRoute(c, g) ==
  /\ c \notin DOMAIN calls
  /\ g \in DOMAIN recordings
  /\ saves < MaxSaves
  /\ saves' = saves + 1
  /\ saveReplay(c, "saveRoute", g, recordings[g].events)
  /\ UNCHANGED <<live, recordings, sequenceCounter, replays, dbVars, excused>>

(* The save answers.  removeGame() deletes what goes by this identifier.   *)
Answered(c) ==
  /\ c \in DOMAIN calls
  /\ calls[c].step \in {"saved", "notSaved"}
  /\ calls' = Restrict(calls, DOMAIN calls \ {c})
  /\ live' = IF calls[c].for = "removeGame" THEN live \ {calls[c].gameId} ELSE live
  /\ excused' = IF calls[c].step = "notSaved" /\ ~calls[c].file
                   /\ calls[c].events # <<>>
                THEN excused \cup {calls[c].gameId} ELSE excused
  /\ UNCHANGED <<recordings, sequenceCounter, files, replays, dbVars, saves>>

-----------------------------------------------------------------------------
(* saveReplayToMongo(): the requests one by one.  A request is executed    *)
(* only while the connection is up; otherwise it waits in a buffer or      *)
(* fails.                                                                  *)

Requested(c, step) ==
  /\ c \in DOMAIN calls
  /\ calls[c].step = step
  /\ connection = "up"
  /\ UNCHANGED <<live, recordings, sequenceCounter, files, dbVars, saves, excused>>

(* getReplay().  After it replayService is read again. *)
GetReplay(c) ==
  /\ Requested(c, "getReplay")
  /\ Goto(c, IF ~replayService THEN "notSaved"
             ELSE IF calls[c].gameId \in DOMAIN replays THEN "addEvents"
             ELSE "createReplay")
  /\ UNCHANGED replays

(* What the writing requests make of the collection; gameId is unique in   *)
(* it.                                                                     *)
Created(c) ==
  IF calls[c].gameId \in DOMAIN replays THEN replays
  ELSE Put(replays, calls[c].gameId, [events |-> calls[c].events,
                                      totalEvents |-> Len(calls[c].events)])

(* Mutant: the events are pushed in front. *)
PushedInFront(c) ==
  [replays EXCEPT ![calls[c].gameId].events = calls[c].events \o @]

Pushed(c) ==
  [replays EXCEPT ![calls[c].gameId].events = @ \o calls[c].events]

Counted(c) ==
  [replays EXCEPT ![calls[c].gameId].totalEvents = calls[c].totalEvents]

(* Mutant: that the replay exists is no failure. *)
CreateReplayOrNot(c) ==
  /\ Requested(c, "createReplay")
  /\ replays' = Created(c)
  /\ Goto(c, "saved")

CreateReplay(c) ==
  /\ Requested(c, "createReplay")
  /\ replays' = Created(c)
  /\ Goto(c, IF replays' = replays THEN "notSaved" ELSE "saved")

(* addEvents() looks the replay up, pushes all events of the clone, looks  *)
(* it up again, counts and stores what it counted.                         *)
AddEvents(c) ==
  /\ Requested(c, "addEvents")
  /\ Goto(c, IF calls[c].gameId \in DOMAIN replays THEN "push" ELSE "notSaved")
  /\ UNCHANGED replays

Push(c) ==
  /\ Requested(c, "push")
  /\ replays' = Pushed(c)
  /\ Goto(c, "findAgain")

(* generateAnalytics(), of which the number of the events is kept. *)
generateAnalytics(events) == Len(events)

FindAgain(c) ==
  /\ Requested(c, "findAgain")
  /\ calls' = [calls EXCEPT
       ![c].step = "updateAnalytics",
       ![c].totalEvents = generateAnalytics(replays[calls[c].gameId].events)]
  /\ UNCHANGED replays

UpdateAnalytics(c) ==
  /\ Requested(c, "updateAnalytics")
  /\ replays' = Counted(c)
  /\ Goto(c, "saved")

Execute(c) ==
  \/ GetReplay(c) \/ CreateReplay(c) \/ AddEvents(c)
  \/ Push(c) \/ FindAgain(c) \/ UpdateAnalytics(c)

(* Mutant: a request that waits for the connection has no time-out. *)
RequestFailsWhileUp(c) ==
  /\ connection = "up"
  /\ c \in DOMAIN calls
  /\ calls[c].step \in Request
  /\ Goto(c, "notSaved")
  /\ UNCHANGED <<live, recordings, sequenceCounter, files, replays, dbVars, saves,
                 excused>>

(* A request times out, or its connection breaks.  saveReplay() catches    *)
(* the exception and reports it.                                           *)
RequestFails(c) ==
  /\ c \in DOMAIN calls
  /\ calls[c].step \in Request
  /\ Goto(c, "notSaved")
  /\ UNCHANGED <<live, recordings, sequenceCounter, files, replays, dbVars, saves,
                 excused>>

(* A request is executed and its answer is lost. *)
AnswerLost(c) ==
  /\ \/ Requested(c, "createReplay") /\ replays' = Created(c)
     \/ Requested(c, "push") /\ replays' = Pushed(c)
     \/ Requested(c, "updateAnalytics") /\ replays' = Counted(c)
  /\ Goto(c, "notSaved")

-----------------------------------------------------------------------------
(* DatabaseConnection *)

pipelineVars ==
  <<live, recordings, sequenceCounter, files, replays, calls, saves, excused>>

Connect ==
  /\ connection = "connecting"
  /\ connection' = "up"
  /\ UNCHANGED <<replayService, attempts, pipelineVars>>

(* An attempt fails; after the last one ReplayStorage gives up for good.   *)
ConnectFails ==
  /\ connection = "connecting"
  /\ attempts' = attempts + 1
  /\ IF attempts' < RetryAttempts
     THEN UNCHANGED <<connection, replayService>>
     ELSE connection' = "failed" /\ replayService' = FALSE
  /\ UNCHANGED pipelineVars

Disconnected ==
  /\ connection = "up"
  /\ connection' = "down"
  /\ UNCHANGED <<replayService, attempts, pipelineVars>>

Reconnected ==
  /\ connection = "down"
  /\ connection' = "up"
  /\ UNCHANGED <<replayService, attempts, pipelineVars>>

-----------------------------------------------------------------------------
Next ==
  \/ \E g \in Games : CreateGame(g) \/ HandleGameEvent(g)
  \/ \E c \in Calls, g \in Games :
       RemoveGame(c, g) \/ RemoveGameUnrecorded(c, g) \/ SaveRoute(c, g)
  \/ \E c \in Calls : Answered(c) \/ Execute(c) \/ RequestFails(c) \/ AnswerLost(c)
  \/ Connect \/ ConnectFails \/ Disconnected \/ Reconnected

Spec == Init /\ [][Next]_vars

(* A request is executed or fails, at the latest by its time-out, and the  *)
(* call that awaits it goes on.                                            *)
FairSpec ==
  /\ Spec
  /\ \A c \in Calls : /\ WF_vars(Execute(c) \/ RequestFails(c))
                      /\ WF_vars(Answered(c))

-----------------------------------------------------------------------------
(* Properties *)

(* The memory limit never takes a recording away from a game that is going *)
(* on: a game that nobody has begun to remove has an active recording.     *)
GoingOnIsRecorded ==
  \A g \in live :
    (\A c \in DOMAIN calls : ~(calls[c].for = "removeGame" /\ calls[c].gameId = g))
      => g \in DOMAIN recordings /\ recordings[g].isActive

(* getReplayFromAnySource(): whether a reader finds the game, if the       *)
(* database is reachable: in memory, in the database or in a file.         *)
getReplayFromAnySource(g) ==
  g \in DOMAIN recordings \/ g \in DOMAIN replays \/ g \in files

(* A game that was recorded and removed can be replayed once its saves are *)
(* over, unless both stores failed or MaxReplaysInMemory other games were  *)
(* going on when it ended.                                                 *)
RemovedIsReadable ==
  \A g \in Games \ (live \cup excused) :
    (\A c \in DOMAIN calls : calls[c].gameId # g) => getReplayFromAnySource(g)

(* A save that reports mongoSuccess has every event of its recording in    *)
(* the database, whichever saves of the same game it ran together with.    *)
ReportedIsStored ==
  \A c \in DOMAIN calls :
    calls[c].step = "saved" =>
      Range(calls[c].events) \subseteq Range(replays[calls[c].gameId].events)

(* Stored events are never lost or reordered, and the analytics count no   *)
(* event that is not there.                                                *)
StoredIsKept ==
  [][\A g \in DOMAIN replays :
       /\ g \in DOMAIN replays'
       /\ SubSeq(replays'[g].events, 1, Len(replays[g].events)) = replays[g].events
       /\ replays'[g].totalEvents <= Len(replays'[g].events)]_vars

(* removeGame() ends whatever the database does, and then the game is gone. *)
RemovalEnds ==
  \A g \in Games :
    (\E c \in DOMAIN calls : calls[c].for = "removeGame" /\ calls[c].gameId = g)
      ~> g \notin live

=============================================================================
