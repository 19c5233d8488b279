SPECIFICATION FairSpec
CONSTANTS
  Bots = {b1}
  Keys = {k1, k2, k3}
  Calls = {c1, c2}
  NoBot = NoBot
  NoKey = NoKey
INVARIANTS
  CacheIsCurrent
PROPERTIES
  KeysAreKept
  RevocationTakesEffect
