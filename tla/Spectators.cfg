SPECIFICATION Spec
CONSTANTS
  Games = {g1, g2}
  Players = {p1, p2}
  Clients = {dashboard, other}
  OneAtATime = {dashboard}
  MaxHandlers = 2
  NoHandler = NoHandler
  NoView = NoView
INVARIANTS
  TypeOK
  ViewIsCurrent
  NothingLeftBehind
PROPERTIES
  HeardWhileWatched
SYMMETRY Symmetry
