---------------------------- MODULE ReplayViewer ----------------------------
(***************************************************************************)
(* The replay viewer of the dashboard: presentation/dashboard/dashboard.js.*)
(*                                                                         *)
(* What interleaves are the clicks of the user, the fetches they and the   *)
(* refresh start, and the callbacks of the intervals that play a replay.   *)
(* The callback reads this.replayPlayer when it runs, so an interval that  *)
(* was started for one replay plays whichever is open; intervals are       *)
(* therefore only counted.  A click calls the handlers of a button once    *)
(* for each time setupReplayEventListeners() has run.                      *)
(*                                                                         *)
(* Speed and rendering are left out.                                       *)
(***************************************************************************)
EXTENDS Integers, FiniteSets, FiniteSetsExt

CONSTANTS
  Replays,
  EventCount,   \* the number of events of each replay
  Percents,     \* the positions the progress slider is dragged to
  NoPlayer,     \* replayPlayer is null
  MaxClicks     \* bound: what the user does

ASSUME ViewerAssumption ==
  /\ EventCount \in [Replays -> Nat]
  /\ Percents \subseteq 0..100
  /\ MaxClicks \in Nat

VARIABLES
  cached,        \* the replays whose events loadReplayMetadata() has stored
  loading,       \* how many calls of openReplayViewer() wait for each replay
  listeners,     \* how often setupReplayEventListeners() has run
  replayPlayer,
  intervals,     \* the playback intervals that are running
  clicks

viewerVars == <<cached, loading, listeners, replayPlayer, intervals, clicks>>

ViewerTypeOK ==
  /\ cached \subseteq Replays
  /\ loading \in [Replays -> 0..MaxClicks]
  /\ listeners \in 1..(MaxClicks + 1)
  /\ \/ replayPlayer = NoPlayer
     \/ /\ replayPlayer \in [gameId : Replays, currentEventIndex : Nat,
                             isPlaying : BOOLEAN]
        /\ replayPlayer.currentEventIndex
             \in 0..Max({0, EventCount[replayPlayer.gameId] - 1})
  /\ intervals \in Nat
  /\ clicks \in 0..MaxClicks

(* init() of the dashboard sets the listeners up once. *)
ViewerInit ==
  /\ cached = {}
  /\ loading = [r \in Replays |-> 0]
  /\ listeners = 1
  /\ replayPlayer = NoPlayer
  /\ intervals = 0
  /\ clicks = 0

-----------------------------------------------------------------------------
(* Opening *)

Click == clicks < MaxClicks /\ clicks' = clicks + 1

(* initializeReplayPlayer(); "Set up event listeners if not already done". *)
initializeReplayPlayer(r) ==
  /\ replayPlayer' = [gameId |-> r, currentEventIndex |-> 0, isPlaying |-> FALSE]
  /\ listeners' = listeners + 1

OpenReplayViewer(r) ==
  /\ Click
  /\ IF r \in cached
     THEN initializeReplayPlayer(r) /\ UNCHANGED loading
     ELSE /\ loading' = [loading EXCEPT ![r] = @ + 1]
          /\ UNCHANGED <<replayPlayer, listeners>>
  /\ UNCHANGED <<cached, intervals>>

(* The fetch answers: the replay is shown, whatever is shown by then.      *)
Loaded(r) ==
  /\ loading[r] > 0
  /\ loading' = [loading EXCEPT ![r] = @ - 1]
  /\ initializeReplayPlayer(r)
  /\ UNCHANGED <<cached, intervals, clicks>>

LoadFails(r) ==
  /\ loading[r] > 0
  /\ loading' = [loading EXCEPT ![r] = @ - 1]
  /\ UNCHANGED <<cached, listeners, replayPlayer, intervals, clicks>>

(* loadReplays(), every five seconds: the list is built anew. *)
LoadReplays ==
  /\ cached # {}
  /\ cached' = {}
  /\ UNCHANGED <<loading, listeners, replayPlayer, intervals, clicks>>

LoadReplayMetadata(r) ==
  /\ r \notin cached
  /\ cached' = cached \cup {r}
  /\ UNCHANGED <<loading, listeners, replayPlayer, intervals, clicks>>

-----------------------------------------------------------------------------
(* The controls: each handler runs as often as it is registered. *)

LastIndex == EventCount[replayPlayer.gameId] - 1

Control ==
  /\ replayPlayer # NoPlayer
  /\ Click
  /\ UNCHANGED <<cached, loading, listeners>>

(* toggleReplayPlayback() again and again: every second call starts an     *)
(* interval, and none ends one; they end when they fire and find           *)
(* isPlaying false.                                                        *)
ToggleReplayPlayback ==
  /\ Control
  /\ replayPlayer' = [replayPlayer EXCEPT !.isPlaying =
                        IF listeners % 2 = 1 THEN ~@ ELSE @]
  /\ intervals' = intervals +
       (IF replayPlayer.isPlaying THEN listeners ELSE listeners + 1) \div 2

Seek(i) ==
  /\ replayPlayer' = [replayPlayer EXCEPT !.currentEventIndex = i]
  /\ UNCHANGED intervals

(* Mutant: the last event is not looked at. *)
StepReplayForwardBeyond ==
  /\ Control
  /\ Seek(replayPlayer.currentEventIndex + listeners)

StepReplayForward ==
  /\ Control
  /\ Seek(Max({replayPlayer.currentEventIndex,
               Min({replayPlayer.currentEventIndex + listeners, LastIndex})}))

StepReplayBackward ==
  /\ Control
  /\ Seek(Max({replayPlayer.currentEventIndex - listeners, 0}))

RestartReplay ==
  /\ Control
  /\ replayPlayer' = [replayPlayer EXCEPT !.currentEventIndex = 0,
                                          !.isPlaying = FALSE]
  /\ UNCHANGED intervals

SeekToProgress(percent) ==
  /\ Control
  /\ Seek(Max({0, Min({(percent * LastIndex) \div 100, LastIndex})}))

(* seekToEvent(), from the list of decisions. *)
SeekToEvent(i) ==
  /\ Control
  /\ Seek(Max({0, Min({i, LastIndex})}))

(* closeReplayViewer(): the intervals are left to themselves. *)
CloseReplayViewer ==
  /\ Control
  /\ replayPlayer' = NoPlayer
  /\ UNCHANGED intervals

-----------------------------------------------------------------------------
(* Mutant: the end of the replay stops the interval and not the player. *)
IntervalFiresAtEnd ==
  /\ intervals > 0
  /\ replayPlayer # NoPlayer
  /\ IF ~replayPlayer.isPlaying \/ replayPlayer.currentEventIndex >= LastIndex
     THEN intervals' = intervals - 1 /\ UNCHANGED replayPlayer
     ELSE /\ replayPlayer' = [replayPlayer EXCEPT !.currentEventIndex = @ + 1]
          /\ UNCHANGED intervals
  /\ UNCHANGED <<cached, loading, listeners, clicks>>

(* Mutant: a paused player is played on. *)
IntervalFiresAnyway ==
  /\ intervals > 0
  /\ replayPlayer # NoPlayer
  /\ IF replayPlayer.currentEventIndex >= LastIndex
     THEN UNCHANGED <<intervals, replayPlayer>>
     ELSE /\ replayPlayer' = [replayPlayer EXCEPT !.currentEventIndex = @ + 1]
          /\ UNCHANGED intervals
  /\ UNCHANGED <<cached, loading, listeners, clicks>>

(* The callback of startReplayPlayback().  Without a player it throws, and *)
(* is called again.                                                        *)
IntervalFires ==
  /\ intervals > 0
  /\ replayPlayer # NoPlayer
  /\ IF ~replayPlayer.isPlaying
     THEN intervals' = intervals - 1 /\ UNCHANGED replayPlayer
     ELSE IF replayPlayer.currentEventIndex >= LastIndex
     THEN /\ intervals' = intervals - 1
          /\ replayPlayer' = [replayPlayer EXCEPT !.isPlaying = FALSE]
     ELSE /\ replayPlayer' = [replayPlayer EXCEPT !.currentEventIndex = @ + 1]
          /\ UNCHANGED intervals
  /\ UNCHANGED <<cached, loading, listeners, clicks>>

ViewerNext ==
  \/ \E r \in Replays : \/ OpenReplayViewer(r) \/ Loaded(r) \/ LoadFails(r)
                        \/ LoadReplayMetadata(r)
  \/ LoadReplays
  \/ ToggleReplayPlayback \/ StepReplayForward \/ StepReplayBackward
  \/ RestartReplay \/ CloseReplayViewer
  \/ \E percent \in Percents : SeekToProgress(percent)
  \/ \E r \in Replays : \E i \in 0..(EventCount[r] - 1) : SeekToEvent(i)
  \/ IntervalFires

ViewerSpec == ViewerInit /\ [][ViewerNext]_viewerVars

(* Intervals fire, and a fetch answers or fails. *)
FairViewerSpec ==
  /\ ViewerSpec
  /\ WF_viewerVars(IntervalFires)
  /\ \A r \in Replays : WF_viewerVars(Loaded(r) \/ LoadFails(r))

-----------------------------------------------------------------------------
(* Properties *)

(* A player that shows itself as playing has an interval that plays it,    *)
(* through quick changes between play and pause, replays opened over one   *)
(* another and intervals left over from a closed viewer.                   *)
PlayingHasInterval ==
  replayPlayer # NoPlayer /\ replayPlayer.isPlaying => intervals > 0

(* When the user lets the viewer be, the replay comes to its end and every *)
(* interval with it, unless the viewer was closed on them.                 *)
PlaybackEnds ==
  <>[](replayPlayer = NoPlayer \/ (~replayPlayer.isPlaying /\ intervals = 0))

=============================================================================
