--------------------------- MODULE PotSettlement ----------------------------
(***************************************************************************)
(* The pots of one hand from the first bet to the payment, for every way   *)
(* the bets, the folds and the cards can fall: the operators of PotManager *)
(* checked against a definition of the result that knows no pots.  Bets    *)
(* arrive in any order; the pots are rebuilt, as the engine does at the    *)
(* end of each round, any number of times before the showdown.             *)
(***************************************************************************)
EXTENDS PotManager

CONSTANTS
  Seats,     \* the players, named by their seat numbers
  MaxBet,    \* bound: what a player puts in during the hand
  Parts      \* a chip in the reference is so many parts, which any number
             \* of players can share evenly

ASSUME SettlementAssumption == Seats \subseteq Nat /\ IsFiniteSet(Seats) /\ MaxBet \in Nat
ASSUME PartsAssumption ==
  /\ Parts \in Nat \ {0}
  /\ \A n \in 1..Cardinality(Seats) : Parts % n = 0

VARIABLES
  totalBet,   \* totalBetThisHand of every player
  isFolded,
  strength,   \* the values of the hands of the players still in at showdown
  pots,
  paid,       \* what the distribution gives to every player
  stage       \* "betting", "built" (pots just rebuilt), "paid", "error"

vars == <<totalBet, isFolded, strength, pots, paid, stage>>

Init ==
  /\ totalBet = [p \in Seats |-> 0]
  /\ isFolded = [p \in Seats |-> FALSE]
  /\ strength = <<>>
  /\ pots = resetPots
  /\ paid = [p \in Seats |-> 0]
  /\ stage = "betting"

InHand == {p \in Seats : ~isFolded[p]}

Bet(p, amount) ==
  /\ stage \in {"betting", "built"}
  /\ ~isFolded[p]
  /\ totalBet[p] + amount <= MaxBet
  /\ totalBet' = [totalBet EXCEPT ![p] = @ + amount]
  /\ pots' = addBet(pots, p, amount)
  /\ stage' = "betting"
  /\ UNCHANGED <<isFolded, strength, paid>>

Fold(p) ==
  /\ stage \in {"betting", "built"}
  /\ Cardinality(InHand) > 2
  /\ p \in InHand
  /\ isFolded' = [isFolded EXCEPT ![p] = TRUE]
  /\ stage' = "betting"
  /\ UNCHANGED <<totalBet, strength, pots, paid>>

Rebuild ==
  /\ stage = "betting"
  /\ pots' = createSidePots(pots, Seats, totalBet, isFolded)
  /\ stage' = "built"
  /\ UNCHANGED <<totalBet, isFolded, strength, paid>>

(* The showdown: simulateDistribution() on the rebuilt pots.  Everybody    *)
(* still in the hand has put something in.                                 *)
Distribute ==
  /\ stage = "built"
  /\ \A p \in InHand : totalBet[p] > 0
  /\ strength' \in [InHand -> 1..Cardinality(InHand)]
  /\ IF HasOrphanPot(pots, strength', InHand)
     THEN stage' = "error" /\ UNCHANGED paid
     ELSE /\ stage' = "paid"
          /\ paid' = [p \in Seats |->
               Winnings(pots, strength', InHand, [q \in Seats |-> q], p)]
  /\ UNCHANGED <<totalBet, isFolded, pots>>

Next ==
  \/ \E p \in Seats, amount \in 1..MaxBet : Bet(p, amount)
  \/ \E p \in Seats : Fold(p)
  \/ Rebuild
  \/ Distribute

Spec == Init /\ [][Next]_vars

-----------------------------------------------------------------------------
(* The reference: chip u of every stake goes to the best hand among the    *)
(* players still in whose own stake reaches u, in equal parts.             *)

Layers == 1..MaxBet
Stakes(u) == Cardinality({q \in Seats : totalBet[q] >= u})
Claimants(u) == {p \in InHand : totalBet[p] >= u}
Best(u) == {p \in Claimants(u) :
              \A q \in Claimants(u) : strength[q] <= strength[p]}

(* The fair payment of p, in parts of a chip. *)
PartsDue(p) ==
  Total([u \in {v \in Layers : p \in Best(v)} |->
           Stakes(u) * (Parts \div Cardinality(Best(u)))])

(* createSidePots() keeps the money, however often the pots are rebuilt    *)
(* and whoever folded in between; addBet() on top of side pots too.        *)
PotsKeepTheMoney == getTotalPotAmount(pots) = Total(totalBet)

(* Everybody is paid what he is due: exactly, but for the odd chips, of    *)
(* which a pot gives at most one to a player.                              *)
PaysWhatIsDue ==
  stage = "paid" =>
    /\ Total(paid) = Total(totalBet)
    /\ \A p \in Seats :
         /\ Parts * paid[p] - PartsDue(p) < Parts * Cardinality(pots)
         /\ PartsDue(p) - Parts * paid[p] < Parts * Cardinality(pots)

(* The distribution fails exactly when a folded player has put in more     *)
(* than everybody who is still in: the top layer of the stakes then is a   *)
(* pot of its own with nobody to win it.                                   *)
FailsOnlyOnUncoveredFold ==
  stage \in {"paid", "error"} =>
    (stage = "error" <=>
       \E f \in Seats \ InHand : \A p \in InHand : totalBet[p] < totalBet[f])

=============================================================================
