--------------------------- MODULE MCReplayViewer ---------------------------
(* An instance of ReplayViewer for TLC: an empty replay and one of three   *)
(* events.                                                                 *)
EXTENDS ReplayViewer

CONSTANTS short, long

MCEventCount == [r \in Replays |-> IF r = short THEN 0 ELSE 3]

=============================================================================
