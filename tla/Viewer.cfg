SPECIFICATION FairViewerSpec
CONSTANTS
  short = short
  long = long
  Replays = {short, long}
  EventCount <- MCEventCount
  Percents = {0, 50, 100}
  NoPlayer = NoPlayer
  MaxClicks = 9
INVARIANTS
  ViewerTypeOK
  PlayingHasInterval
PROPERTIES
  PlaybackEnds
CHECK_DEADLOCK FALSE
