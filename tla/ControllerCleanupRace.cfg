SPECIFICATION FairSpec
CONSTANTS
  Games = {g1}
  Players = {p1, p2}
  NoGame = NoGame
  StartCondition = "minPlayers"
  MinPlayers = 2
  MaxRemovals = 1
PROPERTY
  CleanupEvictsNobody
