SPECIFICATION Spec
CONSTANTS
  Players = {p1, p2, p3}
  NoPlayer = NoPlayer
  SmallBlindAmount = 1
  BigBlindAmount = 2
  BuyIns = {3, 4}
  MaxBankroll = 10
  Liberties = {"cashout"}
INVARIANTS
  TurnOwed
  OffersAccepted
  NeverThrown
  StuckOnlyFromBlinds
PROPERTIES
  LedgerSpec
SYMMETRY Symmetry
CHECK_DEADLOCK FALSE
