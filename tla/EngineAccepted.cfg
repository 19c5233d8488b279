SPECIFICATION Spec
CONSTANTS
  Players = {p1, p2, p3}
  NoPlayer = NoPlayer
  SmallBlindAmount = 1
  BigBlindAmount = 2
  BuyIns = {3}
  MaxBankroll = 9
  Liberties = {"unoffered", "cashout"}
INVARIANTS
  TypeOK
  ChipConservation
  PotsHoldTheBets
  BetsMatched
  EvenStakes
SYMMETRY Symmetry
CHECK_DEADLOCK FALSE
