SPECIFICATION Spec
CONSTANTS
  Seats = {1, 2, 3}
  MaxBet = 4
  Parts = 6
INVARIANTS
  PotsKeepTheMoney
  PaysWhatIsDue
  FailsOnlyOnUncoveredFold
CHECK_DEADLOCK FALSE
