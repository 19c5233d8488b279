SPECIFICATION DealingSpec
CONSTANTS
  Ranks <- MCRanks
  Suits <- MCSuits
  Radix = 15
  SeatedPlayers = 3
  Shuffles <- MCShuffles
  Steps = {3, 5, 7, 10, 16, 17, 21, 22, 24, 26, 27, 33, 38, 39, 45}
  Cuts = {4, 5, 10, 16, 17, 18, 25, 35, 36, 39, 48, 50}
INVARIANTS
  RankedByTheRules
  EveryCardOnce
