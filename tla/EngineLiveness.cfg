SPECIFICATION FairSpec
CONSTANTS
  Players = {p1, p2, p3}
  NoPlayer = NoPlayer
  SmallBlindAmount = 1
  BigBlindAmount = 2
  BuyIns = {2}
  MaxBankroll = 6
  Liberties = {"cashout"}
PROPERTIES
  HandEnds
CHECK_DEADLOCK FALSE
