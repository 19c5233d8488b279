SPECIFICATION Spec
CONSTANTS
  Games = {g1, g2}
  Bots = {b1, b2}
  NoGame = NoGame
  NoBot = NoBot
  MaxHandlers = 2
INVARIANTS
  TypeOK
  TurnIsTimed
  NoEarlyTimeout
  ClosedIsSilent
SYMMETRY Symmetry
CHECK_DEADLOCK FALSE
