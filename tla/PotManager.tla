----------------------------- MODULE PotManager -----------------------------
(***************************************************************************)
(* The pots of one hand: domain/poker/game/PotManager.ts.                  *)
(*                                                                         *)
(* The array of pots is a set of pots that carry their bet level: a side   *)
(* pot is built for one amount of totalBetThisHand, the code sorts those   *)
(* amounts, and pots[0] is the pot of the least level.  The main pot that  *)
(* exists before any side pot has level 0.  Who is eligible is a set; the  *)
(* order in which odd chips are handed out is the seat order, which the    *)
(* callers pass as a function from players to seat numbers.  The map       *)
(* `contributions` is written and never read, and is left out.             *)
(***************************************************************************)
EXTENDS Integers, FiniteSets, FiniteSetsExt

(* The sum of a function of naturals over its domain, as the number of     *)
(* chips <<x, i>> with 1 <= i <= f[x].  Counting chips instead of folding  *)
(* keeps sums within reach of the theorems on cardinality.                 *)
Chips(f) == UNION {{x} \X (1..f[x]) : x \in DOMAIN f}
Total(f) == Cardinality(Chips(f))

MakePot(level, amount, eligible) ==
  [level |-> level, amount |-> amount, eligiblePlayers |-> eligible]

(* reset(): one empty main pot. *)
resetPots == {MakePot(0, 0, {})}

(* pots[0]. *)
MainPot(pots) == CHOOSE x \in pots : \A y \in pots : x.level <= y.level

getTotalPotAmount(pots) == Total([x \in pots |-> x.amount])

(* addBet(): every bet goes to pots[0] until the pots are rebuilt. *)
addBet(pots, p, amount) ==
  LET main == MainPot(pots)
  IN  (pots \ {main}) \cup
        {MakePot(main.level, main.amount + amount, main.eligiblePlayers \cup {p})}

rebuildMainPotWithCorrectEligibility(pots, eligible) ==
  {MakePot(0, getTotalPotAmount(pots), eligible)}

(* The level below l: previousAmount in the loop of createSidePots(). *)
PreviousAmount(levels, l) == Max({0} \cup {m \in levels : m < l})

(* Mutant: the chips of folded players are left out of the side pots. *)
createSidePotsOfEligible(pots, players, totalBet, isFolded) ==
  LET eligible == {p \in players : ~isFolded[p]}
      levels   == {totalBet[p] : p \in players} \ {0}
      reached(l) == {p \in eligible : totalBet[p] >= l}
      betSize(l) == l - PreviousAmount(levels, l)
  IN  IF Cardinality(eligible) <= 1 \/ Cardinality(levels) <= 1
      THEN rebuildMainPotWithCorrectEligibility(pots, eligible)
      ELSE {MakePot(l, betSize(l) * Cardinality(reached(l)), reached(l)) :
              l \in levels}

(* Mutant: everybody still in may win every side pot. *)
createSidePotsForAll(pots, players, totalBet, isFolded) ==
  LET eligible == {p \in players : ~isFolded[p]}
      levels   == {totalBet[p] : p \in players} \ {0}
      reached(l) == {p \in players : totalBet[p] >= l}
      betSize(l) == l - PreviousAmount(levels, l)
  IN  IF Cardinality(eligible) <= 1 \/ Cardinality(levels) <= 1
      THEN rebuildMainPotWithCorrectEligibility(pots, eligible)
      ELSE {MakePot(l, betSize(l) * Cardinality(reached(l)), eligible) :
              l \in levels}

(* createSidePots(): one pot per distinct amount put in, folded players    *)
(* included; a pot may be won by the players who reached its level and did *)
(* not fold.                                                               *)
createSidePots(pots, players, totalBet, isFolded) ==
  LET eligible == {p \in players : ~isFolded[p]}
      levels   == {totalBet[p] : p \in players} \ {0}
      reached(l) == {p \in players : totalBet[p] >= l}
      betSize(l) == l - PreviousAmount(levels, l)
  IN  IF Cardinality(eligible) <= 1 \/ Cardinality(levels) <= 1
      THEN rebuildMainPotWithCorrectEligibility(pots, eligible)
      ELSE {MakePot(l, betSize(l) * Cardinality(reached(l)),
                    reached(l) \cap eligible) : l \in levels}

(* Mutant: a pot without contenders goes to everybody still in. *)
RecipientsOrRemaining(pot, strength, remaining) ==
  LET contenders == pot.eligiblePlayers \cap DOMAIN strength
  IN  IF contenders # {}
      THEN {p \in contenders : \A q \in contenders : strength[q] <= strength[p]}
      ELSE remaining

(* The players one pot is paid to in simulateDistribution(): the best hand *)
(* among the evaluated players who are eligible, or, when none of them was *)
(* evaluated, the remaining players who are eligible.  strength maps the   *)
(* evaluated players to their hand values.                                 *)
Recipients(pot, strength, remaining) ==
  LET contenders == pot.eligiblePlayers \cap DOMAIN strength
  IN  IF contenders # {}
      THEN {p \in contenders : \A q \in contenders : strength[q] <= strength[p]}
      ELSE pot.eligiblePlayers \cap remaining

(* The error of simulateDistribution(): a pot with chips and no recipient. *)
HasOrphanPot(pots, strength, remaining) ==
  \E pot \in pots : /\ pot.amount > 0
                    /\ Recipients(pot, strength, remaining) = {}

(* Mutant: the odd chips are not handed out. *)
ShareRoundedDown(amount, W, seat, p) == amount \div Cardinality(W)

(* What p gets of a pot split among the players of W: the first            *)
(* amount % Cardinality(W) of them, in seat order, get the odd chips.      *)
Share(amount, W, seat, p) ==
  LET index == Cardinality({q \in W : seat[q] < seat[p]})
  IN  amount \div Cardinality(W)
        + IF index < amount % Cardinality(W) THEN 1 ELSE 0

(* simulateDistribution(): the chips p wins over all pots. *)
Winnings(pots, strength, remaining, seat, p) ==
  LET W(pot) == Recipients(pot, strength, remaining)
  IN  Total([pot \in {x \in pots : p \in W(x)} |->
               Share(pot.amount, W(pot), seat, p)])

=============================================================================
