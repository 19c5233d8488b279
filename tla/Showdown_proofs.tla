--------------------------- MODULE Showdown_proofs --------------------------
(***************************************************************************)
(* Proofs about what a showdown divides and by what.  PotSettlement, for   *)
(* every number of players and every order, size and number of their bets  *)
(* and folds: the pots hold what was bet, the distribution pays out all of *)
(* it, gives everybody his due by a reference that knows no pots, and      *)
(* fails exactly when a folded player has put in more than everybody who   *)
(* is still in.  Dealing, for every shuffle and number of players: no card *)
(* is in two places, and the evaluator orders the hands as the rules do.   *)
(***************************************************************************)
EXTENDS PotSettlement, Dealing, PotManager_proofs, SequenceTheorems

(* A folded player has put in more than everybody who is still in. *)
Uncovered ==
  \E f \in Seats \ InHand : \A p \in InHand : totalBet[p] < totalBet[f]

(* What is known of the bets: somebody folds only where two stay in. *)
BetsInv ==
  /\ totalBet \in [Seats -> Nat] /\ \A p \in Seats : totalBet[p] <= MaxBet
  /\ isFolded \in [Seats -> BOOLEAN]
  /\ InHand # Seats => Cardinality(InHand) >= 2

(* What is known of the pots; those of the stage "built" are made of pots  *)
(* that held the same money.                                               *)
PotsInv ==
  /\ pots \in PotsOver(Seats) /\ LevelsDiffer(pots)
  /\ PotsKeepTheMoney
  /\ stage = "built" =>
       \E old : /\ getTotalPotAmount(old) = Total(totalBet)
                /\ pots = createSidePots(old, Seats, totalBet, isFolded)

(* What everybody has won once the pots are paid is his due. *)
HisDue(p) ==
  /\ Parts * paid[p] - PartsDue(p) < Parts * Cardinality(pots)
  /\ PartsDue(p) - Parts * paid[p] < Parts * Cardinality(pots)

PaidInv ==
  /\ stage = "paid" => /\ Total(paid) = Total(totalBet) /\ ~Uncovered
                       /\ \A p \in Seats : HisDue(p)
  /\ stage = "error" => Uncovered

SettlementInv == BetsInv /\ PotsInv /\ PaidInv

(* The players still in are finitely many. *)
LEMMA InHandFinite ==
  /\ IsFiniteSet(Seats)
  /\ InHand \in SUBSET Seats /\ IsFiniteSet(InHand) /\ Cardinality(InHand) \in Nat
  <1>1. IsFiniteSet(Seats) /\ InHand \in SUBSET Seats
    BY SettlementAssumption DEF InHand
  <1>2. IsFiniteSet(InHand)
    BY <1>1, FS_Subset
  <1> QED BY <1>1, <1>2, FS_CardinalityType

-----------------------------------------------------------------------------
(* The pots with nobody to win them *)

(* Somebody has the best hand of those who are in. *)
LEMMA SomebodyIsBest ==
  ASSUME NEW S, IsFiniteSet(S), S # {}, NEW strength0,
         \A p \in S : strength0[p] \in Nat
  PROVE  \E p \in S : \A q \in S : strength0[q] <= strength0[p]
  <1> DEFINE f == [p \in S |-> strength0[p]]
             V == {f[p] : p \in DOMAIN f}
  <1>1. IsFiniteSet(V)
    BY FiniteImage
  <1>2. V \in SUBSET Int /\ V # {}
    OBVIOUS
  <1> HIDE DEF V
  <1>3. PICK x \in V : \A y \in V : x >= y
    BY <1>1, <1>2, GreatestInteger
  <1>4. PICK p \in S : x = strength0[p]
    BY DEF V
  <1>5. \A q \in S : strength0[q] \in V
    BY DEF V
  <1> QED BY <1>3, <1>4, <1>5

(* A pot is won by somebody unless nobody who is in is eligible. *)
LEMMA PotWon ==
  ASSUME NEW E, NEW hands \in [InHand -> Nat], NEW pot,
         pot.eligiblePlayers = E
  PROVE  Recipients(pot, hands, InHand) = {} <=> E \cap InHand = {}
  <1> DEFINE contenders == E \cap InHand
  <1>1. DOMAIN hands = InHand
    OBVIOUS
  <1>2. CASE contenders = {}
    BY <1>1, <1>2 DEF Recipients
  <1>3. CASE contenders # {}
    <2>1. IsFiniteSet(contenders)
      <3>1. contenders \in SUBSET InHand
        OBVIOUS
      <3> QED BY <3>1, InHandFinite, FS_Subset
    <2>2. \A p \in contenders : hands[p] \in Nat
      OBVIOUS
    <2> HIDE DEF contenders
    <2>3. PICK p \in contenders : \A q \in contenders : hands[q] <= hands[p]
      BY <1>3, <2>1, <2>2, SomebodyIsBest
    <2>4. Recipients(pot, hands, InHand) =
            {x \in contenders : \A q \in contenders : hands[q] <= hands[x]}
      BY <1>1, <1>3 DEF Recipients, contenders
    <2> QED BY <1>3, <2>3, <2>4 DEF contenders
  <1> QED BY <1>2, <1>3

(* The single pot that is left when side pots are not needed is won.       *)
LEMMA MainPotWon ==
  ASSUME BetsInv, NEW hands \in [InHand -> Nat], \A p \in InHand : totalBet[p] > 0,
         \/ Cardinality(InHand) <= 1
         \/ Cardinality({totalBet[p] : p \in Seats} \ {0}) <= 1
  PROVE  /\ ~HasOrphanPot({MakePot(0, Total(totalBet), InHand)}, hands, InHand)
         /\ ~Uncovered
  <1> DEFINE pot == MakePot(0, Total(totalBet), InHand)
             levels == {totalBet[p] : p \in Seats} \ {0}
  <1>1. pot.eligiblePlayers = InHand /\ pot.amount = Total(totalBet)
    BY DEF MakePot
  <1> HIDE DEF pot
  <1>2. CASE InHand = {}
    <2>1. Cardinality(InHand) = 0
      BY <1>2, FS_EmptySet
    <2>2. Seats = {}
      BY <1>2, <2>1 DEF BetsInv
    <2>3. Total(totalBet) = 0
      BY <2>2, TotalZero DEF BetsInv
    <2> QED BY <1>1, <2>2, <2>3 DEF HasOrphanPot, Uncovered, pot
  <1>3. CASE InHand # {}
    <2>1. Recipients(pot, hands, InHand) # {}
      BY <1>1, <1>3, PotWon
    <2>2. ~HasOrphanPot({pot}, hands, InHand)
      BY <2>1 DEF HasOrphanPot
    <2>3. ~Uncovered
      <3>1. CASE Cardinality(InHand) <= 1
        <4>1. Seats \ InHand = {}
          BY <3>1, InHandFinite DEF BetsInv
        <4> QED BY <4>1 DEF Uncovered
      <3>2. CASE Cardinality(levels) <= 1
        <4>1. IsFiniteSet(levels)
          <5>1. IsFiniteSet({totalBet[p] : p \in DOMAIN totalBet})
            BY FiniteImage, InHandFinite DEF BetsInv
          <5>2. levels \in SUBSET {totalBet[p] : p \in DOMAIN totalBet}
            BY DEF BetsInv
          <5> QED BY <5>1, <5>2, FS_Subset
        <4>2. PICK p \in InHand : p \in Seats /\ totalBet[p] \in levels
          BY <1>3, InHandFinite DEF BetsInv
        <4>3. \A m \in levels : m = totalBet[p]
          <5> HIDE DEF levels
          <5>1. Cardinality(levels) \in Nat /\ Cardinality(levels) # 0
            BY <4>1, <4>2, FS_EmptySet, FS_CardinalityType
          <5>2. Cardinality(levels) = 1
            BY <3>2, <5>1
          <5>3. \E x \in levels : levels = {x}
            BY <4>1, <5>2, FS_Singleton, Zenon
          <5> QED BY <4>2, <5>3
        <4>4. \A f \in Seats : totalBet[f] = 0 \/ totalBet[f] = totalBet[p]
          BY <4>3
        <4>5. \A f \in Seats : ~(totalBet[p] < totalBet[f])
          BY <4>2, <4>4 DEF BetsInv
        <4> QED BY <4>2, <4>5 DEF Uncovered
      <3> QED BY <3>1, <3>2
    <2> QED BY <2>2, <2>3 DEF pot
  <1> QED BY <1>2, <1>3

(* A side pot is left over exactly when its level is above the stakes of   *)
(* everybody who is still in.                                              *)
LEMMA SidePotsWon ==
  ASSUME BetsInv, NEW hands \in [InHand -> Nat],
         NEW levels, levels = {totalBet[p] : p \in Seats} \ {0},
         NEW layers,
         layers = {MakePot(l, (l - PreviousAmount(levels, l))
                                * Cardinality({p \in Seats : totalBet[p] >= l}),
                           {p \in Seats : totalBet[p] >= l} \cap InHand) : l \in levels}
  PROVE  HasOrphanPot(layers, hands, InHand) <=> Uncovered
  <1> DEFINE reached(l) == {p \in Seats : totalBet[p] >= l}
             amount(l) == (l - PreviousAmount(levels, l)) * Cardinality(reached(l))
             pot(l) == MakePot(l, amount(l), reached(l) \cap InHand)
  <1>1. levels \in SUBSET (Nat \ {0}) /\ IsFiniteSet(levels)
    BY LevelsType, InHandFinite DEF BetsInv
  <1>2. ASSUME NEW l \in levels PROVE amount(l) > 0
    <2>1. PreviousAmount(levels, l) \in Nat /\ PreviousAmount(levels, l) < l /\ l \in Nat
      BY <1>1, PreviousAmountFacts
    <2>2. IsFiniteSet(reached(l)) /\ reached(l) # {}
      <3>1. PICK p \in Seats : totalBet[p] = l
        OBVIOUS
      <3>2. p \in reached(l)
        BY <2>1, <3>1
      <3>3. reached(l) \in SUBSET Seats
        OBVIOUS
      <3> HIDE DEF reached
      <3> QED BY <3>2, <3>3, InHandFinite, FS_Subset
    <2> HIDE DEF reached
    <2>3. Cardinality(reached(l)) \in Nat /\ Cardinality(reached(l)) # 0
      BY <2>2, FS_EmptySet, FS_CardinalityType
    <2> DEFINE a == l - PreviousAmount(levels, l)
               b == Cardinality(reached(l))
    <2>4. a \in Nat /\ a > 0 /\ b \in Nat /\ b > 0
      BY <2>1, <2>3
    <2> HIDE DEF a, b
    <2>5. a * b > 0
      BY <2>4
    <2> QED BY <2>5 DEF a, b
  <1>3. layers = {pot(l) : l \in levels}
    OBVIOUS
  <1>4. \A l \in levels : /\ pot(l).amount = amount(l)
                          /\ pot(l).eligiblePlayers = reached(l) \cap InHand
    BY DEF MakePot
  <1> HIDE DEF pot, amount
  <1>5. \A l \in levels :
          Recipients(pot(l), hands, InHand) = {} <=> reached(l) \cap InHand = {}
    <2> HIDE DEF reached
    <2> TAKE l \in levels
    <2>1. Recipients(pot(l), hands, InHand) = {}
            <=> (reached(l) \cap InHand) \cap InHand = {}
      BY <1>4, PotWon
    <2> QED BY <2>1
  <1>6. HasOrphanPot(layers, hands, InHand)
          <=> \E l \in levels : reached(l) \cap InHand = {}
    <2>1. \A l \in levels : pot(l) \in layers /\ pot(l).amount > 0
      BY <1>2, <1>3, <1>4
    <2>2. \A x \in layers : \E l \in levels : x = pot(l)
      BY <1>3
    <2> HIDE DEF reached
    <2>3. HasOrphanPot(layers, hands, InHand) <=>
            \E x \in layers : x.amount > 0 /\ Recipients(x, hands, InHand) = {}
      BY Zenon DEF HasOrphanPot
    <2>4. ASSUME HasOrphanPot(layers, hands, InHand)
          PROVE  \E l \in levels : reached(l) \cap InHand = {}
      <3>1. PICK x \in layers : Recipients(x, hands, InHand) = {}
        BY <2>3, <2>4
      <3>2. PICK l \in levels : x = pot(l)
        BY <2>2
      <3> QED BY <1>5, <3>1, <3>2
    <2>5. ASSUME NEW l \in levels, reached(l) \cap InHand = {}
          PROVE  HasOrphanPot(layers, hands, InHand)
      <3>1. Recipients(pot(l), hands, InHand) = {}
        BY <1>5, <2>5
      <3> QED BY <2>1, <2>3, <3>1
    <2> QED BY <2>4, <2>5
  <1>7. \A l \in levels : l \in Nat
    BY <1>1
  <1>8. InHand \subseteq Seats
    BY InHandFinite
  <1>9. ASSUME NEW l \in levels, reached(l) \cap InHand = {} PROVE Uncovered
    <2>1. PICK f \in Seats : totalBet[f] = l
      OBVIOUS
    <2>2. \A p \in InHand : totalBet[p] < l
      BY <1>7, <1>8, <1>9 DEF BetsInv
    <2>3. f \notin InHand
      BY <2>1, <2>2, <1>7
    <2> QED BY <2>1, <2>2, <2>3 DEF Uncovered
  <1>10. ASSUME Uncovered PROVE \E l \in levels : reached(l) \cap InHand = {}
    <2>1. PICK f \in Seats \ InHand : \A p \in InHand : totalBet[p] < totalBet[f]
      BY <1>10 DEF Uncovered
    <2>2. totalBet[f] \in Nat /\ \A p \in InHand : totalBet[p] \in Nat
      BY <1>8 DEF BetsInv
    <2>3. reached(totalBet[f]) \cap InHand = {}
      BY <2>1, <2>2
    <2>4. totalBet[f] # 0
      <3>1. Cardinality(InHand) >= 2
        BY <2>1 DEF BetsInv
      <3>2. InHand # {}
        <4>1. Cardinality({}) = 0
          BY FS_EmptySet
        <4> QED BY <3>1, <4>1
      <3> QED BY <2>1, <2>2, <3>2
    <2> QED BY <2>3, <2>4
  <1> QED BY <1>6, <1>9, <1>10

(* The distribution of rebuilt pots fails exactly when a fold is uncovered. *)
LEMMA FailsOrPays ==
  ASSUME BetsInv, NEW old, getTotalPotAmount(old) = Total(totalBet),
         \A p \in InHand : totalBet[p] > 0, NEW hands \in [InHand -> Nat]
  PROVE  HasOrphanPot(createSidePots(old, Seats, totalBet, isFolded), hands, InHand)
           <=> Uncovered
  <1> DEFINE levels == {totalBet[p] : p \in Seats} \ {0}
             new == createSidePots(old, Seats, totalBet, isFolded)
             layers == {MakePot(l, (l - PreviousAmount(levels, l))
                                     * Cardinality({p \in Seats : totalBet[p] >= l}),
                                {p \in Seats : totalBet[p] >= l} \cap InHand) :
                          l \in levels}
  <1>1. CASE Cardinality(InHand) <= 1 \/ Cardinality(levels) <= 1
    <2>1. new = {MakePot(0, Total(totalBet), InHand)}
      BY <1>1 DEF createSidePots, rebuildMainPotWithCorrectEligibility, InHand
    <2>2. /\ ~HasOrphanPot({MakePot(0, Total(totalBet), InHand)}, hands, InHand)
          /\ ~Uncovered
      BY <1>1, MainPotWon
    <2> HIDE DEF new
    <2>3. ~HasOrphanPot(new, hands, InHand)
      BY <2>1, <2>2, Zenon
    <2> QED BY <2>2, <2>3 DEF new
  <1>2. CASE ~(Cardinality(InHand) <= 1 \/ Cardinality(levels) <= 1)
    <2>1. new = layers
      BY <1>2 DEF createSidePots, InHand
    <2>2. HasOrphanPot(layers, hands, InHand) <=> Uncovered
      BY SidePotsWon
    <2> HIDE DEF new, layers
    <2>3. HasOrphanPot(new, hands, InHand) <=> Uncovered
      BY <2>1, <2>2, Zenon
    <2> QED BY <2>3 DEF new
  <1> QED BY <1>1, <1>2

-----------------------------------------------------------------------------
(* What everybody is due *)

(* Best and PartsDue of the module for any hands.                          *)
BestOf(u, hands) ==
  {p \in Claimants(u) : \A q \in Claimants(u) : hands[q] <= hands[p]}
WonLayers(p, hands) == {u \in Layers : p \in BestOf(u, hands)}
Portion(u, hands) == Stakes(u) * (Parts \div Cardinality(BestOf(u, hands)))
DueOf(p, hands) == Total([u \in WonLayers(p, hands) |-> Portion(u, hands)])

(* The same over pots. *)
Winners(x, hands) == Recipients(x, hands, InHand)
WonPots(S, p, hands) == {x \in S : p \in Winners(x, hands)}
PotPortion(x, hands) == x.amount * (Parts \div Cardinality(Winners(x, hands)))

(* The pot x stands for the layers B[x]: those who claim one of them are   *)
(* the players who may win it, and it holds c[x] chips of each.            *)
StandsFor(S, B, c) ==
  /\ c \in [S -> Nat]
  /\ \A x \in S : /\ IsFiniteSet(B[x]) /\ B[x] \subseteq Layers
                  /\ x.amount = Cardinality(B[x]) * c[x]
                  /\ x.eligiblePlayers \subseteq InHand
  /\ \A x \in S : \A u \in B[x] : /\ Stakes(u) = c[x]
                                  /\ Claimants(u) = x.eligiblePlayers
  /\ \A x, y \in S : x # y => B[x] \cap B[y] = {}
  /\ \A u \in Layers : Claimants(u) # {} => \E x \in S : u \in B[x]

(* Who is best in a layer is who wins the pot. *)
LEMMA WinnersAreBest ==
  ASSUME NEW hands \in [InHand -> Nat], NEW x, x.eligiblePlayers \subseteq InHand,
         NEW u, Claimants(u) = x.eligiblePlayers
  PROVE  BestOf(u, hands) = Winners(x, hands)
  <1>1. x.eligiblePlayers \cap DOMAIN hands = x.eligiblePlayers
    OBVIOUS
  <1>2. CASE x.eligiblePlayers = {}
    BY <1>1, <1>2 DEF BestOf, Winners, Recipients
  <1>3. CASE x.eligiblePlayers # {}
    BY <1>1, <1>3 DEF BestOf, Winners, Recipients
  <1> QED BY <1>2, <1>3

(* The parts of a pot, or of a layer, per winner are a natural number.     *)
LEMMA WinnersType ==
  ASSUME NEW hands, NEW x, x.eligiblePlayers \subseteq InHand,
         NEW p \in Winners(x, hands)
  PROVE  /\ IsFiniteSet(Winners(x, hands)) /\ p \in Seats
         /\ Cardinality(Winners(x, hands)) \in 1..Cardinality(Seats)
         /\ \E k \in Nat \ {0} :
              /\ Parts \div Cardinality(Winners(x, hands)) = k
              /\ Parts = Cardinality(Winners(x, hands)) * k
  <1> DEFINE W == Winners(x, hands)
             n == Cardinality(W)
             N == Cardinality(Seats)
  <1>1. W \in SUBSET Seats
    BY InHandFinite DEF Winners, Recipients
  <1>2. IsFiniteSet(W) /\ n <= N
    BY <1>1, InHandFinite, FS_Subset
  <1>3. n \in Nat /\ n # 0 /\ N \in Nat
    BY <1>2, InHandFinite, FS_CardinalityType, FS_EmptySet
  <1>4. n \in 1..N
    BY <1>2, <1>3
  <1> HIDE DEF n
  <1>5. Parts % n = 0 /\ Parts \in Nat \ {0}
    BY <1>4, PartsAssumption
  <1>6. (Parts \div n) \in Int /\ Parts = n * (Parts \div n)
    BY <1>3, <1>5
  <1> DEFINE k == Parts \div n
  <1> HIDE DEF k
  <1>7. k \in Int /\ Parts = n * k
    BY <1>6 DEF k
  <1>8. k > 0
    BY <1>3, <1>5, <1>7
  <1>9. k \in Nat \ {0} /\ Parts \div n = k
    BY <1>7, <1>8 DEF k
  <1> QED BY <1>1, <1>2, <1>4, <1>7, <1>9 DEF n

(* What is due by the layers is due by the pots that stand for them.       *)
LEMMA DueByPots ==
  ASSUME NEW S, IsFiniteSet(S), NEW B, NEW c, StandsFor(S, B, c),
         NEW hands \in [InHand -> Nat], NEW p \in Seats,
         NEW d \in [WonPots(S, p, hands) -> Nat],
         \A x \in WonPots(S, p, hands) : d[x] = PotPortion(x, hands)
  PROVE  DueOf(p, hands) = Total(d)
  <1> DEFINE D == WonPots(S, p, hands)
             U == WonLayers(p, hands)
             g == [u \in U |-> Portion(u, hands)]
             size == [x \in D |-> Cardinality(B[x])]
             k == [x \in D |-> c[x] * (Parts \div Cardinality(Winners(x, hands)))]
  <1>1. \A x \in D : x \in S /\ p \in Winners(x, hands)
    BY DEF WonPots
  <1>2. IsFiniteSet(D)
    <2>1. D \in SUBSET S
      BY <1>1
    <2> QED BY <2>1, FS_Subset
  <1>3. ASSUME NEW x \in S, NEW u \in B[x]
        PROVE  BestOf(u, hands) = Winners(x, hands)
    <2>1. x.eligiblePlayers \subseteq InHand /\ Claimants(u) = x.eligiblePlayers
      BY DEF StandsFor
    <2> QED BY <2>1, WinnersAreBest
  <1>4. \A x \in D : \A u \in B[x] : u \in U
    BY <1>1, <1>3 DEF WonLayers, StandsFor
  <1>5. ASSUME NEW u \in U PROVE \E x \in D : u \in B[x]
    <2>1. u \in Layers /\ p \in BestOf(u, hands) /\ Claimants(u) # {}
      BY DEF WonLayers, BestOf
    <2>2. PICK x \in S : u \in B[x]
      BY <2>1 DEF StandsFor
    <2>3. p \in Winners(x, hands)
      BY <1>3, <2>1, <2>2
    <2> QED BY <2>2, <2>3 DEF WonPots
  <1>6. ASSUME NEW x \in D
        PROVE  /\ IsFiniteSet(B[x]) /\ size[x] = Cardinality(B[x]) /\ size[x] \in Nat
               /\ c[x] \in Nat /\ k[x] \in Nat /\ d[x] = size[x] * k[x]
               /\ \A u \in B[x] : Portion(u, hands) = k[x]
    <2>1. /\ x \in S /\ p \in Winners(x, hands) /\ x.eligiblePlayers \subseteq InHand
          /\ IsFiniteSet(B[x]) /\ c[x] \in Nat
          /\ x.amount = Cardinality(B[x]) * c[x]
          /\ \A u \in B[x] : Stakes(u) = c[x]
      BY <1>1 DEF StandsFor
    <2>2. PICK m \in Nat \ {0} : Parts \div Cardinality(Winners(x, hands)) = m
      BY <2>1, WinnersType
    <2> DEFINE s == Cardinality(B[x])
    <2>3. s \in Nat /\ size[x] = s
      BY <2>1, FS_CardinalityType
    <2>4. k[x] = c[x] * m
      BY <2>2
    <2>5. d[x] = (s * c[x]) * m
      BY <2>1, <2>2 DEF PotPortion
    <2>6. \A u \in B[x] : Portion(u, hands) = c[x] * m
      BY <1>3, <2>1, <2>2 DEF Portion
    <2> HIDE DEF s, k, size
    <2>7. (s * c[x]) * m = s * (c[x] * m) /\ c[x] * m \in Nat
      BY <2>1, <2>3
    <2> QED BY <2>1, <2>3, <2>4, <2>5, <2>6, <2>7 DEF s
  <1>7. size \in [D -> Nat] /\ k \in [D -> Nat]
    <2> HIDE DEF D
    <2>1. \A x \in D : size[x] \in Nat /\ k[x] \in Nat
      BY <1>6
    <2> QED BY <2>1
  <1>8. \A u \in U : g[u] \in Nat /\ g[u] = Portion(u, hands)
    BY <1>5, <1>6
  <1>9. g \in [U -> Nat]
    BY <1>8
  <1>10. \A x, y \in D : x # y => B[x] \cap B[y] = {}
    BY <1>1 DEF StandsFor
  <1>11. DueOf(p, hands) = Total(g)
    BY DEF DueOf
  <1>12. d \in [D -> Nat]
    OBVIOUS
  <1> HIDE DEF D, U, g, size, k
  <1>13. Blocks(B, D, size, U)
    BY <1>4, <1>5, <1>6, <1>7, <1>10 DEF Blocks
  <1>14. EvenOver(g, U, B, D, k)
    BY <1>4, <1>6, <1>7, <1>8, <1>9 DEF EvenOver
  <1>15. \A x \in D : d[x] = size[x] * k[x]
    BY <1>6
  <1>16. Total(g) = Total(d)
    BY <1>2, <1>12, <1>13, <1>14, <1>15, TotalByParts
  <1> QED BY <1>11, <1>16

(* A share differs from an equal part of the pot by less than a chip.      *)
LEMMA ShareFair ==
  ASSUME NEW W, IsFiniteSet(W), NEW amount \in Nat, NEW seat, NEW p \in W,
         NEW k \in Nat \ {0}, Parts = Cardinality(W) * k
  PROVE  /\ Parts * Share(amount, W, seat, p) <= amount * k + (Parts - 1)
         /\ amount * k <= Parts * Share(amount, W, seat, p) + (Parts - 1)
  <1> DEFINE n == Cardinality(W)
             q == amount \div n
             r == amount % n
             s == Share(amount, W, seat, p)
             index == Cardinality({w \in W : seat[w] < seat[p]})
  <1>1. n \in Nat /\ n # 0
    BY FS_CardinalityType, FS_EmptySet
  <1>2. index \in Nat
    BY FS_Subset, FS_CardinalityType
  <1>3. s = q + IF index < r THEN 1 ELSE 0
    BY DEF Share
  <1>4. Parts = n * k
    OBVIOUS
  <1> HIDE DEF n, index, s
  <1>5. q \in Nat /\ r \in Nat /\ r < n /\ amount = n * q + r
    BY <1>1
  <1> HIDE DEF q, r
  <1>6. amount * k = (n * k) * q + r * k
    BY <1>1, <1>5
  <1>7. r * k >= 0 /\ r * k <= n * k - k
    <2>1. (r + 1) * k <= n * k
      BY <1>1, <1>5
    <2>2. (r + 1) * k = r * k + k
      BY <1>5
    <2>3. r * k \in Nat /\ n * k \in Nat
      BY <1>1, <1>5
    <2> QED BY <2>1, <2>2, <2>3
  <1> DEFINE a == r * k
             b == (n * k) * q
  <1>8. a \in Nat /\ b \in Nat /\ amount * k = b + a /\ a <= Parts - k
        /\ Parts \in Nat
    BY <1>1, <1>4, <1>5, <1>6, <1>7
  <1>9. CASE index < r
    <2>1. s = q + 1 /\ r >= 1
      BY <1>2, <1>3, <1>5, <1>9
    <2>2. Parts * s = b + Parts
      <3>1. Parts * (q + 1) = Parts * q + Parts
        BY <1>5, <1>8
      <3> QED BY <1>4, <2>1, <3>1
    <2>3. a >= 1
      BY <1>5, <2>1
    <2> HIDE DEF a, b
    <2> QED BY <1>8, <2>2, <2>3 DEF s
  <1>10. CASE ~(index < r)
    <2>1. s = q
      BY <1>3, <1>5, <1>10
    <2>2. Parts * s = b
      BY <1>4, <2>1
    <2> HIDE DEF a, b
    <2> QED BY <1>8, <2>2 DEF s
  <1> QED BY <1>9, <1>10

(* Somebody's winnings differ from what he is due by less than a chip for  *)
(* each pot.                                                               *)
LEMMA FairByPots ==
  ASSUME NEW S \in PotsOver(Seats), NEW B, NEW c, StandsFor(S, B, c),
         NEW hands \in [InHand -> Nat], NEW p \in Seats, NEW seat, NEW w,
         w = Winnings(S, hands, InHand, seat, p)
  PROVE  /\ Parts * w - DueOf(p, hands) < Parts * Cardinality(S)
         /\ DueOf(p, hands) - Parts * w < Parts * Cardinality(S)
  <1> DEFINE D == WonPots(S, p, hands)
             f == [x \in D |-> Share(x.amount, Winners(x, hands), seat, p)]
             pf == [x \in D |-> Parts * f[x]]
             d == [x \in D |-> PotPortion(x, hands)]
             o == [x \in D |-> Parts - 1]
             pfo == [x \in D |-> pf[x] + o[x]]
             do == [x \in D |-> d[x] + o[x]]
  <1>1. IsFiniteSet(S) /\ S # {} /\ \A x \in S : x.amount \in Nat
    BY DEF PotsOver
  <1>2. D \in SUBSET S
    BY DEF WonPots
  <1>3. /\ IsFiniteSet(D) /\ Cardinality(D) \in Nat /\ Cardinality(S) \in Nat
        /\ Cardinality(D) <= Cardinality(S) /\ Cardinality(S) # 0
    <2> HIDE DEF D
    <2> QED BY <1>1, <1>2, FS_Subset, FS_CardinalityType, FS_EmptySet
  <1>4. ASSUME NEW x \in D
        PROVE  /\ f[x] \in Nat /\ d[x] \in Nat /\ d[x] = PotPortion(x, hands)
               /\ Parts * f[x] <= d[x] + (Parts - 1)
               /\ d[x] <= Parts * f[x] + (Parts - 1)
    <2> DEFINE W == Winners(x, hands)
    <2>1. x \in S /\ p \in W /\ x.amount \in Nat /\ x.eligiblePlayers \subseteq InHand
      BY <1>1 DEF WonPots, StandsFor
    <2>2. f[x] = Share(x.amount, W, seat, p) /\ d[x] = PotPortion(x, hands)
      OBVIOUS
    <2> HIDE DEF D, f, d
    <2>3. IsFiniteSet(W)
      BY <2>1, WinnersType
    <2>4. PICK k \in Nat \ {0} : /\ Parts \div Cardinality(W) = k
                                 /\ Parts = Cardinality(W) * k
      BY <2>1, WinnersType
    <2>5. d[x] = x.amount * k
      BY <2>2, <2>4 DEF PotPortion
    <2> HIDE DEF W
    <2>6. f[x] \in Nat
      BY <2>1, <2>2, <2>3, ShareType
    <2>7. /\ Parts * Share(x.amount, W, seat, p) <= x.amount * k + (Parts - 1)
          /\ x.amount * k <= Parts * Share(x.amount, W, seat, p) + (Parts - 1)
      BY <2>1, <2>3, <2>4, ShareFair
    <2>8. x.amount * k \in Nat
      BY <2>1
    <2> QED BY <2>2, <2>5, <2>6, <2>7, <2>8
  <1>5. Parts \in Nat \ {0} /\ Parts - 1 \in Nat
    BY PartsAssumption
  <1>6. w = Total(f)
    BY DEF Winnings, WonPots, Winners
  <1>7. f \in [D -> Nat] /\ d \in [D -> Nat]
    <2> HIDE DEF D
    <2>1. \A x \in D : f[x] \in Nat /\ d[x] \in Nat
      BY <1>4
    <2> QED BY <2>1
  <1> HIDE DEF D, f, d
  <1>8. /\ pf \in [D -> Nat] /\ \A x \in D : pf[x] = Parts * f[x]
        /\ o \in [D -> Nat] /\ \A x \in D : o[x] = Parts - 1
    BY <1>5, <1>7
  <1> HIDE DEF pf, o
  <1>9. /\ pfo \in [D -> Nat] /\ \A x \in D : pfo[x] = pf[x] + o[x]
        /\ do \in [D -> Nat] /\ \A x \in D : do[x] = d[x] + o[x]
    BY <1>7, <1>8
  <1> HIDE DEF pfo, do
  <1>10. Total(pf) = Parts * Total(f)
    BY <1>3, <1>5, <1>7, <1>8, TotalScale
  <1>11. Total(o) = Cardinality(D) * (Parts - 1)
    BY <1>3, <1>5, <1>8, TotalConstant
  <1>12. Total(pfo) = Total(pf) + Total(o) /\ Total(do) = Total(d) + Total(o)
    <2>1. Total(pfo) = Total(pf) + Total(o)
      BY <1>3, <1>8, <1>9, TotalAdd
    <2>2. Total(do) = Total(d) + Total(o)
      BY <1>3, <1>7, <1>8, <1>9, TotalAdd
    <2> QED BY <2>1, <2>2
  <1>13. \A x \in D : pf[x] <= do[x] /\ d[x] <= pfo[x]
    BY <1>4, <1>8, <1>9
  <1>14. Total(pf) <= Total(do) /\ Total(d) <= Total(pfo)
    BY <1>3, <1>7, <1>8, <1>9, <1>13, TotalMonotone
  <1>15. DueOf(p, hands) = Total(d)
    <2>1. /\ d \in [WonPots(S, p, hands) -> Nat]
          /\ \A x \in WonPots(S, p, hands) : d[x] = PotPortion(x, hands)
      BY <1>4, <1>7 DEF D
    <2> QED BY <1>1, <2>1, DueByPots
  <1>16. Total(f) \in Nat /\ Total(d) \in Nat /\ Total(pf) \in Nat
    BY <1>3, <1>7, <1>8, TotalType
  <1>17. Total(o) \in Nat /\ Total(o) < Parts * Cardinality(S)
    <2> DEFINE m == Cardinality(D)
               n == Cardinality(S)
               k == Parts - 1
    <2>1. m \in Nat /\ n \in Nat /\ m <= n /\ n # 0 /\ k \in Nat /\ Parts = k + 1
      BY <1>3, <1>5
    <2> HIDE DEF m, n, k
    <2>2. m * k \in Nat /\ m * k <= n * k
      BY <2>1
    <2>3. Parts * n = n * k + n
      BY <2>1
    <2>4. n * k \in Nat
      BY <2>1
    <2>5. m * k < Parts * n
      BY <2>1, <2>2, <2>3, <2>4
    <2> QED BY <1>11, <2>2, <2>5 DEF m, n, k
  <1> DEFINE PC == Parts * Cardinality(S)
  <1>18. PC \in Nat /\ Total(o) < PC
    BY <1>3, <1>5, <1>17
  <1>19. Parts * w = Total(pf)
    BY <1>6, <1>10
  <1> HIDE DEF PC
  <1>20. /\ Total(pf) - Total(d) < PC
         /\ Total(d) - Total(pf) < PC
    BY <1>12, <1>14, <1>16, <1>17, <1>18
  <1> QED BY <1>15, <1>19, <1>20 DEF PC

(* Without side pots everybody who has put something in has put in the     *)
(* same.                                                                   *)
LEMMA OneLevel ==
  ASSUME BetsInv, NEW p \in InHand, totalBet[p] > 0,
         \/ Cardinality(InHand) <= 1
         \/ Cardinality({totalBet[q] : q \in Seats} \ {0}) <= 1
  PROVE  \A f \in Seats : totalBet[f] = 0 \/ totalBet[f] = totalBet[p]
  <1> DEFINE levels == {totalBet[q] : q \in Seats} \ {0}
  <1>1. \A S : IsFiniteSet(S) /\ Cardinality(S) <= 1 => \A x, y \in S : x = y
    <2> SUFFICES ASSUME NEW S, IsFiniteSet(S), Cardinality(S) <= 1,
                        NEW x \in S, NEW y \in S
                 PROVE  x = y
      OBVIOUS
    <2>1. Cardinality(S) \in Nat /\ Cardinality(S) # 0
      BY FS_EmptySet, FS_CardinalityType
    <2>2. Cardinality(S) = 1
      BY <2>1
    <2>3. \E z \in S : S = {z}
      BY <2>2, FS_Singleton, Zenon
    <2> QED BY <2>3
  <1>2. CASE Cardinality(InHand) <= 1
    <2>1. InHand = Seats
      BY <1>2, InHandFinite DEF BetsInv
    <2>2. \A f \in Seats : f = p
      BY <1>1, <1>2, <2>1, InHandFinite
    <2> QED BY <2>2
  <1>3. CASE Cardinality(levels) <= 1
    <2>1. IsFiniteSet(levels)
      BY InHandFinite, LevelsType DEF BetsInv
    <2>2. totalBet[p] \in levels
      BY InHandFinite
    <2>3. \A m \in levels : m = totalBet[p]
      <3> HIDE DEF levels
      <3> QED BY <1>1, <1>3, <2>1, <2>2
    <2> QED BY <2>3
  <1> QED BY <1>2, <1>3

(* The single pot stands for all the layers of the one stake.              *)
LEMMA MainPotStands ==
  ASSUME BetsInv, \A p \in InHand : totalBet[p] > 0,
         \/ Cardinality(InHand) <= 1
         \/ Cardinality({totalBet[q] : q \in Seats} \ {0}) <= 1,
         NEW x, x.amount = Total(totalBet), x.eligiblePlayers = InHand
  PROVE  \E B, c : StandsFor({x}, B, c)
  <1>1. /\ totalBet \in [Seats -> Nat] /\ \A p \in Seats : totalBet[p] <= MaxBet
        /\ InHand \subseteq Seats /\ MaxBet \in Nat
    BY InHandFinite, SettlementAssumption DEF BetsInv
  <1>2. CASE InHand = {}
    <2>1. Cardinality(InHand) = 0
      BY <1>2, FS_EmptySet
    <2>2. Seats = {}
      BY <1>2, <2>1 DEF BetsInv
    <2>3. x.amount = 0
      BY <1>1, <2>2, TotalZero
    <2>4. IsFiniteSet({}) /\ Cardinality({}) = 0
      BY FS_EmptySet
    <2>5. \A u : Claimants(u) = {}
      BY <1>2 DEF Claimants
    <2>6. StandsFor({x}, [y \in {x} |-> {}], [y \in {x} |-> 0])
      BY <2>3, <2>4, <2>5 DEF StandsFor
    <2> QED BY <2>6
  <1>3. CASE InHand # {}
    <2>1. PICK p \in InHand : TRUE
      BY <1>3
    <2> DEFINE t == totalBet[p]
               R == {q \in Seats : totalBet[q] >= t}
               n == Cardinality(R)
               g == [q \in R |-> t]
               B == [y \in {x} |-> 1..t]
               c == [y \in {x} |-> n]
    <2>2. t \in Nat /\ t > 0 /\ t <= MaxBet
      BY <1>1
    <2>3. \A q \in Seats : totalBet[q] = 0 \/ totalBet[q] = t
      BY <2>1, OneLevel
    <2>4. ASSUME NEW u \in 1..t
          PROVE  \A q \in Seats : totalBet[q] >= u <=> totalBet[q] = t
      BY <1>1, <2>2, <2>3
    <2>5. \A q \in Seats : q \in R <=> totalBet[q] = t
      BY <1>1, <2>2, <2>3
    <2>6. \A q \in InHand : totalBet[q] = t
      BY <1>1, <2>3
    <2>7. R \in SUBSET Seats /\ \A q \in R : totalBet[q] = t
      BY <2>5
    <2>8. ASSUME NEW u \in 1..t PROVE Stakes(u) = n /\ Claimants(u) = InHand
      <3>1. {q \in Seats : totalBet[q] >= u} = R
        BY <2>4, <2>5
      <3>2. Claimants(u) = InHand
        BY <1>1, <2>4, <2>6 DEF Claimants
      <3> QED BY <3>1, <3>2 DEF Stakes
    <2>9. g \in [R -> Nat] /\ \A q \in R : g[q] = t /\ g[q] = totalBet[q]
      BY <2>2, <2>7
    <2>10. \A q \in Seats \ R : totalBet[q] = 0
      BY <2>3, <2>5
    <2> HIDE DEF t, R, g
    <2>11. IsFiniteSet(R) /\ n \in Nat
      BY <2>7, InHandFinite, FS_Subset, FS_CardinalityType
    <2>12. Total(totalBet) = Total(g)
      BY <1>1, <2>7, <2>9, <2>10, TotalRestrict
    <2>13. Total(g) = Cardinality(R) * t
      BY <2>2, <2>9, <2>11, TotalConstant
    <2>14. IsFiniteSet(1..t) /\ Cardinality(1..t) = t
      BY <2>2, FS_Interval
    <2> HIDE DEF n
    <2>15. x.amount = t * n
      BY <2>2, <2>11, <2>12, <2>13 DEF n
    <2>16. 1..t \subseteq Layers
      BY <1>1, <2>2 DEF Layers
    <2>17. ASSUME NEW u \in Layers, Claimants(u) # {} PROVE u \in 1..t
      <3>1. PICK q \in InHand : totalBet[q] >= u
        BY <2>17 DEF Claimants
      <3> QED BY <1>1, <2>2, <2>6, <3>1 DEF Layers
    <2>18. /\ c \in [{x} -> Nat]
           /\ B[x] = 1..t /\ c[x] = n
           /\ \A y, z \in {x} : y = z
      BY <2>11
    <2> HIDE DEF B, c
    <2>19. StandsFor({x}, B, c)
      BY <2>8, <2>14, <2>15, <2>16, <2>17, <2>18 DEF StandsFor
    <2> QED BY <2>19
  <1> QED BY <1>2, <1>3

(* A side pot stands for the layers from the level below its own up to its *)
(* own.                                                                    *)
SidePot(levels, l) ==
  MakePot(l, (l - PreviousAmount(levels, l))
               * Cardinality({p \in Seats : totalBet[p] >= l}),
          {p \in Seats : totalBet[p] >= l} \cap InHand)

BetLevels == {totalBet[p] : p \in Seats} \ {0}
SidePots == {SidePot(BetLevels, l) : l \in BetLevels}

LEMMA SidePotsStand ==
  ASSUME BetsInv
  PROVE  \E B, c : StandsFor(SidePots, B, c)
  <1>0. PICK levels, layers : /\ levels = {totalBet[p] : p \in Seats} \ {0}
                              /\ layers = {SidePot(levels, l) : l \in levels}
                              /\ layers = SidePots
    BY DEF BetLevels, SidePots
  <1> DEFINE prev(l) == PreviousAmount(levels, l)
             block(l) == (prev(l) + 1)..l
             B == [x \in layers |-> block(x.level)]
             c == [x \in layers |-> Stakes(x.level)]
  <1>1. /\ totalBet \in [Seats -> Nat] /\ \A p \in Seats : totalBet[p] <= MaxBet
        /\ InHand \subseteq Seats /\ MaxBet \in Nat
    BY InHandFinite, SettlementAssumption DEF BetsInv
  <1>2. levels \in SUBSET (Nat \ {0}) /\ IsFiniteSet(levels)
    BY <1>0, <1>1, LevelsType, InHandFinite
  <1>3. /\ \A p \in Seats : totalBet[p] # 0 => totalBet[p] \in levels
        /\ \A l \in levels : l <= MaxBet
    BY <1>0, <1>1
  <1>4. ASSUME NEW x \in layers
        PROVE  /\ x.level \in levels
               /\ x.amount = (x.level - prev(x.level)) * Stakes(x.level)
               /\ x.eligiblePlayers = Claimants(x.level)
    <2>1. PICK l \in levels : x = SidePot(levels, l)
      BY <1>0
    <2>2. /\ x.level = l /\ x.amount = (l - prev(l)) * Stakes(l)
          /\ x.eligiblePlayers = {p \in Seats : totalBet[p] >= l} \cap InHand
      BY <2>1 DEF SidePot, MakePot, Stakes
    <2>3. x.eligiblePlayers = Claimants(l)
      BY <1>1, <2>2 DEF Claimants
    <2> QED BY <2>2, <2>3
  <1>5. ASSUME NEW l \in levels PROVE \E x \in layers : x.level = l
    <2>1. SidePot(levels, l).level = l
      BY DEF SidePot, MakePot
    <2> QED BY <1>0, <2>1
  <1>6. ASSUME NEW x \in layers, NEW y \in layers, x.level = y.level PROVE x = y
    <2>1. \A l : SidePot(levels, l).level = l
      BY DEF SidePot, MakePot
    <2>2. PICK l \in levels : x = SidePot(levels, l)
      BY <1>0
    <2>3. PICK m \in levels : y = SidePot(levels, m)
      BY <1>0
    <2> QED BY <1>6, <2>1, <2>2, <2>3
  <1>7. ASSUME NEW l \in levels
        PROVE  /\ l \in Nat \ {0} /\ prev(l) \in Nat /\ prev(l) < l
               /\ prev(l) = 0 \/ prev(l) \in levels
               /\ \A m \in levels : m < l => m <= prev(l)
    <2> QED BY <1>2, PreviousAmountFacts
  <1> HIDE DEF prev
  <1>8. ASSUME NEW l \in levels, NEW u \in block(l)
        PROVE  Stakes(u) = Stakes(l) /\ Claimants(u) = Claimants(l) /\ u \in Layers
    <2>1. /\ u \in Nat /\ prev(l) < u /\ u <= l /\ 1 <= u
          /\ l \in Nat /\ l <= MaxBet
      BY <1>3, <1>7
    <2>2. ASSUME NEW q \in Seats PROVE totalBet[q] >= u <=> totalBet[q] >= l
      <3>1. totalBet[q] \in Nat /\ l \in Nat /\ prev(l) \in Nat
        BY <1>1, <1>7
      <3>2. totalBet[q] >= u => totalBet[q] \in levels
        BY <1>3, <2>1, <3>1
      <3> QED BY <1>7, <2>1, <3>1, <3>2
    <2>3. {q \in Seats : totalBet[q] >= u} = {q \in Seats : totalBet[q] >= l}
      BY <2>2
    <2>4. Claimants(u) = Claimants(l)
      BY <1>1, <2>2 DEF Claimants
    <2>5. Stakes(u) = Stakes(l)
      BY <2>3 DEF Stakes
    <2>6. u \in Layers
      BY <1>1, <2>1 DEF Layers
    <2> QED BY <2>4, <2>5, <2>6
  <1>9. ASSUME NEW l \in levels
        PROVE  /\ IsFiniteSet(block(l)) /\ Cardinality(block(l)) = l - prev(l)
               /\ Stakes(l) \in Nat
    <2> DEFINE a == prev(l) + 1
               R == {q \in Seats : totalBet[q] >= l}
    <2>1. a \in Int /\ l \in Int /\ ~(a > l) /\ l - a + 1 = l - prev(l)
      BY <1>7
    <2>2. R \in SUBSET Seats
      OBVIOUS
    <2>3. Stakes(l) = Cardinality(R)
      BY DEF Stakes
    <2> HIDE DEF R
    <2>4. Stakes(l) \in Nat
      BY <2>2, <2>3, InHandFinite, FS_Subset, FS_CardinalityType
    <2>5. block(l) = a..l
      OBVIOUS
    <2> HIDE DEF a
    <2> QED BY <2>1, <2>4, <2>5, FS_Interval
  <1>10. ASSUME NEW l \in levels, NEW m \in levels, l < m
         PROVE  block(l) \cap block(m) = {}
    <2>1. l <= prev(m) /\ l \in Nat /\ prev(l) \in Nat /\ m \in Nat /\ prev(m) \in Nat
      BY <1>7, <1>10
    <2> QED BY <2>1
  <1>11. ASSUME NEW l \in levels, NEW m \in levels, l # m
         PROVE  block(l) \cap block(m) = {}
    <2>1. l \in Nat /\ m \in Nat
      BY <1>7
    <2>2. l < m \/ m < l
      BY <1>11, <2>1
    <2> HIDE DEF block
    <2> QED BY <1>10, <2>2
  <1>12. ASSUME NEW u \in Layers, Claimants(u) # {}
         PROVE  \E l \in levels : u \in block(l)
    <2> DEFINE L == {m \in levels : u <= m}
    <2>1. PICK q \in Seats : totalBet[q] >= u
      BY <1>1, <1>12 DEF Claimants
    <2>2. u \in Nat /\ u >= 1
      BY <1>1 DEF Layers
    <2>3. totalBet[q] \in levels
      BY <1>1, <1>3, <2>1, <2>2
    <2>4. L \in SUBSET Nat /\ L # {} /\ \A m \in L : m \in levels /\ u <= m
      BY <1>1, <1>2, <2>1, <2>2, <2>3
    <2>5. \A m \in levels : u <= m => m \in L
      OBVIOUS
    <2> HIDE DEF L
    <2>6. PICK l \in L : \A m \in L : l <= m
      BY <2>4, LeastNatural
    <2>7. l \in levels /\ u <= l /\ l \in Nat /\ prev(l) \in Nat /\ prev(l) < l
      BY <1>7, <2>4
    <2>8. prev(l) < u
      BY <1>7, <2>2, <2>5, <2>6, <2>7
    <2>9. u \in block(l)
      BY <2>2, <2>7, <2>8
    <2> QED BY <2>7, <2>9
  <1> HIDE DEF block
  <1>13. ASSUME NEW x \in layers
         PROVE  B[x] = block(x.level) /\ c[x] = Stakes(x.level)
    OBVIOUS
  <1>14. c \in [layers -> Nat]
    <2>1. \A x \in layers : Stakes(x.level) \in Nat
      BY <1>4, <1>9
    <2> QED BY <2>1
  <1> HIDE DEF B, c
  <1>15. \A x \in layers : /\ IsFiniteSet(B[x]) /\ B[x] \subseteq Layers
                            /\ x.amount = Cardinality(B[x]) * c[x]
                            /\ x.eligiblePlayers \subseteq InHand
    <2> SUFFICES ASSUME NEW x \in layers
                 PROVE  /\ IsFiniteSet(B[x]) /\ B[x] \subseteq Layers
                        /\ x.amount = Cardinality(B[x]) * c[x]
                        /\ x.eligiblePlayers \subseteq InHand
      OBVIOUS
    <2>1. x.eligiblePlayers \subseteq InHand
      BY <1>4 DEF Claimants
    <2>2. B[x] \subseteq Layers
      BY <1>4, <1>8, <1>13
    <2>3. x.amount = Cardinality(B[x]) * c[x]
      BY <1>4, <1>9, <1>13
    <2> QED BY <1>4, <1>9, <1>13, <2>1, <2>2, <2>3
  <1>16. ASSUME NEW x \in layers, NEW u \in B[x]
         PROVE  Stakes(u) = c[x] /\ Claimants(u) = x.eligiblePlayers
    <2>1. x.level \in levels /\ u \in block(x.level)
      BY <1>4, <1>13
    <2>2. Stakes(u) = Stakes(x.level) /\ Claimants(u) = Claimants(x.level)
      BY <1>8, <2>1
    <2> QED BY <1>4, <1>13, <2>2
  <1>17. ASSUME NEW x \in layers, NEW y \in layers, x # y
         PROVE  B[x] \cap B[y] = {}
    <2>1. x.level \in levels /\ y.level \in levels /\ x.level # y.level
      BY <1>4, <1>6, <1>17
    <2>2. block(x.level) \cap block(y.level) = {}
      BY <1>11, <2>1
    <2> QED BY <1>13, <2>2
  <1>18. \A u \in Layers : Claimants(u) # {} => \E x \in layers : u \in B[x]
    <2> SUFFICES ASSUME NEW u \in Layers, Claimants(u) # {}
                 PROVE  \E x \in layers : u \in B[x]
      OBVIOUS
    <2>1. PICK l \in levels : u \in block(l)
      BY <1>12
    <2>2. PICK x \in layers : x.level = l
      BY <1>5
    <2> QED BY <1>13, <2>1, <2>2
  <1>19. StandsFor(layers, B, c)
    BY <1>14, <1>15, <1>16, <1>17, <1>18 DEF StandsFor
  <1> QED BY <1>0, <1>19

(* The rebuilt pots stand for the layers of the stakes. *)
LEMMA RebuiltPotsStand ==
  ASSUME BetsInv, \A p \in InHand : totalBet[p] > 0,
         NEW old, getTotalPotAmount(old) = Total(totalBet),
         NEW new, new = createSidePots(old, Seats, totalBet, isFolded)
  PROVE  \E B, c : StandsFor(new, B, c)
  <1> DEFINE levels == {totalBet[p] : p \in Seats} \ {0}
  <1>1. CASE Cardinality(InHand) <= 1 \/ Cardinality(levels) <= 1
    <2> DEFINE x == MakePot(0, Total(totalBet), InHand)
    <2>1. new = {x}
      BY <1>1 DEF createSidePots, rebuildMainPotWithCorrectEligibility, InHand
    <2>2. x.amount = Total(totalBet) /\ x.eligiblePlayers = InHand
      BY DEF MakePot
    <2> HIDE DEF x
    <2>3. \E B, c : StandsFor({x}, B, c)
      BY <1>1, <2>2, MainPotStands
    <2> QED BY <2>1, <2>3, Zenon
  <1>2. CASE ~(Cardinality(InHand) <= 1 \/ Cardinality(levels) <= 1)
    <2>1. new = SidePots
      BY <1>2 DEF createSidePots, SidePots, SidePot, BetLevels, InHand
    <2> QED BY <2>1, SidePotsStand
  <1> QED BY <1>1, <1>2

(* The distribution gives everybody his due. *)
LEMMA DuesPaid ==
  ASSUME BetsInv, pots \in PotsOver(Seats), UNCHANGED <<totalBet, isFolded, pots>>,
         \A p \in InHand : totalBet[p] > 0,
         NEW old, getTotalPotAmount(old) = Total(totalBet),
         pots = createSidePots(old, Seats, totalBet, isFolded),
         strength' \in [InHand -> Nat], NEW seat, NEW p \in Seats,
         paid'[p] = Winnings(pots, strength', InHand, seat, p)
  PROVE  HisDue(p)'
  <1> DEFINE hands == strength'
             w == paid'[p]
  <1>1. PICK B, c : StandsFor(pots, B, c)
    BY RebuiltPotsStand
  <1>2. /\ Parts * w - DueOf(p, hands) < Parts * Cardinality(pots)
        /\ DueOf(p, hands) - Parts * w < Parts * Cardinality(pots)
    BY <1>1, FairByPots
  <1>3. PartsDue(p)' = DueOf(p, hands)
    <2>1. /\ \A u : Claimants(u)' = Claimants(u) /\ Stakes(u)' = Stakes(u)
          /\ Layers' = Layers
      BY DEF Claimants, Stakes, InHand, Layers
    <2>2. \A u : Best(u)' = BestOf(u, hands)
      BY <2>1 DEF Best, BestOf
    <2>3. {v \in Layers : p \in Best(v)}' = WonLayers(p, hands)
      BY <2>1, <2>2 DEF WonLayers
    <2>4. \A u : Portion(u, hands)
                   = (Stakes(u) * (Parts \div Cardinality(Best(u))))'
      BY <2>1, <2>2 DEF Portion
    <2> QED BY <2>3, <2>4 DEF PartsDue, DueOf
  <1> QED BY <1>2, <1>3 DEF HisDue

-----------------------------------------------------------------------------
(* The steps *)

LEMMA BetStep ==
  ASSUME SettlementInv, NEW p \in Seats, NEW amount \in 1..MaxBet, Bet(p, amount)
  PROVE  SettlementInv'
  <1>1. /\ totalBet' = [totalBet EXCEPT ![p] = @ + amount]
        /\ pots' = addBet(pots, p, amount) /\ stage' = "betting"
        /\ UNCHANGED isFolded
    BY DEF Bet
  <1>2. amount \in Nat
    BY SettlementAssumption
  <1>3. /\ totalBet \in [Seats -> Nat] /\ totalBet' \in [Seats -> Nat]
        /\ totalBet'[p] = totalBet[p] + amount
        /\ \A q \in Seats \ {p} : totalBet'[q] = totalBet[q]
    BY <1>1, <1>2 DEF SettlementInv, BetsInv
  <1>4. BetsInv'
    <2>1. \A q \in Seats : totalBet'[q] <= MaxBet
      BY <1>3 DEF Bet, SettlementInv, BetsInv
    <2> QED BY <1>1, <1>3, <2>1 DEF SettlementInv, BetsInv, InHand
  <1>5. Total(totalBet') = Total(totalBet) + amount
    BY <1>2, <1>3, InHandFinite, TotalIncrease
  <1>6. /\ pots' \in PotsOver(Seats) /\ LevelsDiffer(pots')
        /\ getTotalPotAmount(pots') = getTotalPotAmount(pots) + amount
    BY <1>1, <1>2, AddBetType, AddBetTotal DEF SettlementInv, PotsInv
  <1>7. PotsInv'
    BY <1>1, <1>5, <1>6 DEF SettlementInv, PotsInv, PotsKeepTheMoney
  <1> QED BY <1>1, <1>4, <1>7 DEF SettlementInv, PaidInv

LEMMA FoldStep ==
  ASSUME SettlementInv, NEW p \in Seats, Fold(p)
  PROVE  SettlementInv'
  <1>1. /\ isFolded' = [isFolded EXCEPT ![p] = TRUE] /\ stage' = "betting"
        /\ Cardinality(InHand) > 2 /\ p \in InHand
        /\ UNCHANGED <<totalBet, pots>>
    BY DEF Fold
  <1>2. InHand' = InHand \ {p}
    BY <1>1 DEF SettlementInv, BetsInv, InHand
  <1>3. Cardinality(InHand \ {p}) = Cardinality(InHand) - 1
    BY <1>1, InHandFinite, FS_RemoveElement
  <1>4. Cardinality(InHand') >= 2
    BY <1>1, <1>2, <1>3, InHandFinite
  <1>5. isFolded' \in [Seats -> BOOLEAN]
    BY <1>1 DEF SettlementInv, BetsInv
  <1>6. BetsInv'
    BY <1>1, <1>4, <1>5 DEF SettlementInv, BetsInv
  <1>7. PotsInv'
    BY <1>1 DEF SettlementInv, PotsInv, PotsKeepTheMoney
  <1> QED BY <1>1, <1>6, <1>7 DEF SettlementInv, PaidInv

LEMMA RebuildStep ==
  ASSUME SettlementInv, Rebuild
  PROVE  SettlementInv'
  <1>1. /\ pots' = createSidePots(pots, Seats, totalBet, isFolded)
        /\ stage' = "built" /\ UNCHANGED <<totalBet, isFolded>>
    BY DEF Rebuild
  <1>2. /\ totalBet \in [Seats -> Nat] /\ pots \in PotsOver(Seats)
        /\ getTotalPotAmount(pots) = Total(totalBet)
    BY DEF SettlementInv, BetsInv, PotsInv, PotsKeepTheMoney
  <1>3. BetsInv'
    BY <1>1 DEF SettlementInv, BetsInv, InHand
  <1>4. pots' \in PotsOver(Seats)
    BY <1>1, <1>2, InHandFinite, CreateSidePotsType
  <1>5. getTotalPotAmount(pots') = Total(totalBet) /\ LevelsDiffer(pots')
    BY <1>1, <1>2, InHandFinite, CreateSidePotsTotal
  <1>6. PotsInv'
    BY <1>1, <1>2, <1>4, <1>5 DEF PotsInv, PotsKeepTheMoney
  <1> QED BY <1>1, <1>3, <1>6 DEF SettlementInv, PaidInv

(* Everything in the pots is paid out when nothing in them is orphaned. *)
LEMMA AllPaid ==
  ASSUME SettlementInv, NEW hands \in [InHand -> Nat],
         ~HasOrphanPot(pots, hands, InHand),
         NEW seat, seat = [q \in Seats |-> q],
         NEW w \in [Seats -> Nat],
         \A p \in Seats : w[p] = Winnings(pots, hands, InHand, seat, p)
  PROVE  Total(w) = Total(totalBet)
  <1>1. pots \in PotsOver(Seats)
    BY DEF SettlementInv, PotsInv
  <1>2. \A p \in Seats : seat[p] \in Int
    BY SettlementAssumption
  <1>3. \A p, q \in Seats : seat[p] = seat[q] => p = q
    OBVIOUS
  <1>4. \A x \in pots : Recipients(x, hands, InHand) \subseteq Seats
    BY InHandFinite DEF Recipients
  <1>5. IsFiniteSet(Seats)
    BY SettlementAssumption
  <1>6. Total(w) = getTotalPotAmount(pots)
    BY <1>1, <1>2, <1>3, <1>4, <1>5, WinningsTotal
  <1> QED BY <1>6 DEF SettlementInv, PotsInv, PotsKeepTheMoney

LEMMA DistributeStep ==
  ASSUME SettlementInv, Distribute
  PROVE  SettlementInv'
  <1>1. /\ stage = "built" /\ UNCHANGED <<totalBet, isFolded, pots>>
        /\ \A p \in InHand : totalBet[p] > 0
        /\ strength' \in [InHand -> 1..Cardinality(InHand)]
    BY DEF Distribute
  <1> DEFINE hands == strength'
  <1>2. hands \in [InHand -> Nat]
    <2>1. 1..Cardinality(InHand) \subseteq Nat
      BY InHandFinite
    <2> QED BY <1>1, <2>1
  <1>3. PICK old : /\ getTotalPotAmount(old) = Total(totalBet)
                   /\ pots = createSidePots(old, Seats, totalBet, isFolded)
    BY <1>1 DEF SettlementInv, PotsInv
  <1>4. HasOrphanPot(pots, hands, InHand) <=> Uncovered
    BY <1>1, <1>2, <1>3, FailsOrPays DEF SettlementInv
  <1>5. BetsInv' /\ (Uncovered' <=> Uncovered)
    BY <1>1 DEF SettlementInv, BetsInv, Uncovered, InHand
  <1>6. stage' # "built" /\ PotsInv'
    BY <1>1 DEF Distribute, SettlementInv, PotsInv, PotsKeepTheMoney
  <1>7. CASE HasOrphanPot(pots, hands, InHand)
    <2>1. stage' = "error"
      BY <1>7 DEF Distribute
    <2> QED BY <1>4, <1>5, <1>6, <1>7, <2>1 DEF SettlementInv, PaidInv
  <1>8. CASE ~HasOrphanPot(pots, hands, InHand)
    <2>1. /\ stage' = "paid"
          /\ paid' = [p \in Seats |->
               Winnings(pots, hands, InHand, [q \in Seats |-> q], p)]
      BY <1>8 DEF Distribute
    <2> DEFINE seat == [q \in Seats |-> q]
    <2>2. /\ pots \in PotsOver(Seats) /\ IsFiniteSet(Seats)
          /\ seat = [q \in Seats |-> q]
      BY InHandFinite DEF SettlementInv, PotsInv
    <2>3. /\ paid' = [p \in Seats |-> Winnings(pots, hands, InHand, seat, p)]
          /\ \A p \in Seats : paid'[p] = Winnings(pots, hands, InHand, seat, p)
      BY <2>1
    <2> HIDE DEF seat
    <2>4. \A p \in Seats : Winnings(pots, hands, InHand, seat, p) \in Nat
      BY <2>2, WinningsType
    <2>5. paid' \in [Seats -> Nat]
      BY <2>3, <2>4
    <2>6. Total(paid') = Total(totalBet)
      BY <1>2, <1>8, <2>2, <2>3, <2>5, AllPaid
    <2>7. ASSUME NEW p \in Seats PROVE HisDue(p)'
      <3>1. paid'[p] = Winnings(pots, hands, InHand, seat, p)
        BY <2>3
      <3> QED BY <1>1, <1>2, <1>3, <2>2, <3>1, DuesPaid DEF SettlementInv
    <2>8. PaidInv'
      BY <1>1, <1>4, <1>5, <1>8, <2>1, <2>6, <2>7 DEF PaidInv
    <2> QED BY <1>5, <1>6, <2>8 DEF SettlementInv
  <1> QED BY <1>7, <1>8

-----------------------------------------------------------------------------
(* The theorems *)

LEMMA Invariant == Spec => []SettlementInv
  <1>1. Init => SettlementInv
    <2> SUFFICES ASSUME Init PROVE SettlementInv
      OBVIOUS
    <2>1. /\ totalBet \in [Seats -> Nat] /\ isFolded \in [Seats -> BOOLEAN]
          /\ InHand = Seats /\ stage = "betting" /\ pots = resetPots
          /\ \A p \in Seats : totalBet[p] = 0 /\ totalBet[p] <= MaxBet
      BY SettlementAssumption DEF Init, InHand
    <2>2. Total(totalBet) = 0
      BY <2>1, TotalZero
    <2>3. /\ pots \in PotsOver(Seats) /\ LevelsDiffer(pots)
      BY <2>1, ResetPotsType DEF resetPots, LevelsDiffer
    <2>4. getTotalPotAmount(pots) = 0
      <3>1. /\ [x \in pots |-> x.amount] \in [pots -> Nat]
            /\ \A x \in pots : [y \in pots |-> y.amount][x] = 0
        BY <2>1 DEF resetPots, MakePot
      <3> QED BY <3>1, TotalZero DEF getTotalPotAmount
    <2> QED BY <2>1, <2>2, <2>3, <2>4
            DEF SettlementInv, BetsInv, PotsInv, PaidInv, PotsKeepTheMoney
  <1>2. SettlementInv /\ [Next]_vars => SettlementInv'
    <2> SUFFICES ASSUME SettlementInv, [Next]_vars PROVE SettlementInv'
      OBVIOUS
    <2>1. CASE UNCHANGED vars
      <3>1. \A p \in Seats : HisDue(p)' <=> HisDue(p)
        BY <2>1 DEF vars, HisDue, PartsDue, Best, Claimants, Stakes, Layers, InHand
      <3> QED BY <2>1, <3>1 DEF vars, SettlementInv, BetsInv, PotsInv, PaidInv,
                                PotsKeepTheMoney, Uncovered, InHand
    <2> QED BY <2>1, BetStep, FoldStep, RebuildStep, DistributeStep DEF Next
  <1> QED BY <1>1, <1>2, PTL DEF Spec

(* The pots hold what was bet, however often they are rebuilt, whatever    *)
(* the order of bets and folds between the rebuildings.                    *)
THEOREM MoneyStaysInPots == Spec => []PotsKeepTheMoney
  <1>1. SettlementInv => PotsKeepTheMoney
    BY DEF SettlementInv, PotsInv
  <1> QED BY <1>1, Invariant, PTL

(* The distribution fails exactly when a folded player has put in more     *)
(* than everybody who is still in, whatever the cards are.                 *)
THEOREM FailsForUncoveredFolds == Spec => []FailsOnlyOnUncoveredFold
  <1>1. SettlementInv => FailsOnlyOnUncoveredFold
    BY DEF SettlementInv, PaidInv, Uncovered, FailsOnlyOnUncoveredFold
  <1> QED BY <1>1, Invariant, PTL

(* What is paid is all that was bet, odd chips included. *)
THEOREM EverythingIsPaid ==
  Spec => [](stage = "paid" => Total(paid) = Total(totalBet))
  <1>1. SettlementInv => (stage = "paid" => Total(paid) = Total(totalBet))
    BY DEF SettlementInv, PaidInv
  <1> QED BY <1>1, Invariant, PTL

(* Everybody is paid what he is due, but for less than a chip for each     *)
(* pot, by a reference that shares out every layer of the stakes and knows *)
(* no pots; and all that was bet is paid.                                  *)
THEOREM EverybodyIsPaidHisDue == Spec => []PaysWhatIsDue
  <1>1. SettlementInv => PaysWhatIsDue
    BY DEF SettlementInv, PaidInv, HisDue, PaysWhatIsDue
  <1> QED BY <1>1, Invariant, PTL

-----------------------------------------------------------------------------
(* The cards *)

(* A deck in which no card occurs twice. *)
IsDeck(deck) ==
  /\ deck \in Seq(FullDeck)
  /\ \A i, j \in 1..Len(deck) : deck[i] = deck[j] => i = j

(* The cards at the places from a to b. *)
Span(deck, a, b) == {deck[i] : i \in a..b}
InDeck(deck) == Span(deck, 1, Len(deck))

HoleCards == UNION {holeCards[p] : p \in Players}

(* How many cards a phase leaves for the streets to come. *)
ToCome ==
  CASE phase = "preflop" -> 8
    [] phase = "flop"    -> 4
    [] phase = "turn"    -> 2
    [] OTHER             -> 0

(* What has left the deck is not in it, and the hands and the board are of *)
(* that and have no card in common.                                        *)
CardsInv ==
  phase # "waiting" =>
    /\ IsFiniteSet(FullDeck)
    /\ IsDeck(cards) /\ Len(cards) >= ToCome
    /\ dealtCards = FullDeck \ InDeck(cards)
    /\ HoleCards \subseteq dealtCards /\ Cardinality(HoleCards) = 2 * SeatedPlayers
    /\ communityCards \subseteq dealtCards \ HoleCards

(* The places of a deck are as many as its cards. *)
LEMMA DeckCount ==
  ASSUME NEW deck, IsDeck(deck), NEW a \in Nat \ {0}, NEW b \in Nat, b <= Len(deck)
  PROVE  /\ IsFiniteSet(Span(deck, a, b)) /\ Span(deck, a, b) \subseteq FullDeck
         /\ a <= b + 1 => Cardinality(Span(deck, a, b)) = b + 1 - a
  <1> DEFINE S == Span(deck, a, b)
             h == [i \in a..b |-> deck[i]]
  <1>1. /\ Len(deck) \in Nat /\ \A i \in 1..Len(deck) : deck[i] \in FullDeck
        /\ \A i, j \in 1..Len(deck) : deck[i] = deck[j] => i = j
    BY DEF IsDeck
  <1>2. \A i \in a..b : i \in 1..Len(deck)
    BY <1>1
  <1>3. /\ h \in [a..b -> S] /\ \A i, j \in a..b : h[i] = h[j] => i = j
        /\ \A z \in S : \E i \in a..b : h[i] = z
    BY <1>1, <1>2 DEF Span
  <1>4. IsFiniteSet(a..b) /\ (a <= b + 1 => Cardinality(a..b) = b + 1 - a)
    <2>1. IsFiniteSet(a..b) /\ Cardinality(a..b) = IF a > b THEN 0 ELSE b - a + 1
      BY FS_Interval
    <2> QED BY <2>1
  <1>5. S \subseteq FullDeck
    BY <1>1, <1>2 DEF Span
  <1> HIDE DEF S, h
  <1>6. IsFiniteSet(S) /\ Cardinality(S) = Cardinality(a..b)
    BY <1>3, <1>4, SameCount
  <1> QED BY <1>4, <1>5, <1>6 DEF S

(* A shuffled deck has every card, and each once. *)
LEMMA ShuffledDeck ==
  ASSUME NEW deck \in Shuffles
  PROVE  /\ IsFiniteSet(FullDeck) /\ IsDeck(deck) /\ InDeck(deck) = FullDeck
         /\ Len(deck) \in Nat /\ Len(deck) >= 2 * SeatedPlayers + 8
  <1> DEFINE n == Len(deck)
             h == [i \in 1..n |-> deck[i]]
  <1>1. /\ deck \in Seq(FullDeck) /\ n = Cardinality(FullDeck)
        /\ {deck[i] : i \in DOMAIN deck} = FullDeck
        /\ n >= 2 * SeatedPlayers + 8
    BY DealingAssumption
  <1>2. n \in Nat /\ DOMAIN deck = 1..n /\ \A i \in 1..n : deck[i] \in FullDeck
    BY <1>1
  <1>3. /\ h \in [1..n -> FullDeck] /\ \A z \in FullDeck : \E i \in 1..n : h[i] = z
    BY <1>1, <1>2
  <1>4. IsFiniteSet(1..n) /\ Cardinality(1..n) = n
    BY <1>2, FS_Interval
  <1> HIDE DEF h
  <1>5. h \in Surjection(1..n, FullDeck)
    BY <1>3 DEF Surjection
  <1>6. IsFiniteSet(FullDeck)
    BY <1>4, <1>5, FS_Surjection
  <1>7. Cardinality(FullDeck) = Cardinality(1..n)
    BY <1>1, <1>4
  <1>8. h \in Injection(1..n, FullDeck)
    BY <1>4, <1>5, <1>7, FS_Surjection
  <1>9. \A i, j \in 1..n : h[i] = h[j] => i = j
    BY <1>3, <1>8 DEF Injection, IsInjective
  <1>10. \A i, j \in 1..n : deck[i] = deck[j] => i = j
    BY <1>9 DEF h
  <1> QED BY <1>1, <1>2, <1>6, <1>10 DEF IsDeck, InDeck, Span

(* What is taken off the end of a deck and what is left of it. *)
LEMMA TakeFrom ==
  ASSUME NEW deck, IsDeck(deck), NEW n \in Nat, n <= Len(deck)
  PROVE  /\ IsDeck(Left(deck, n)) /\ Len(Left(deck, n)) = Len(deck) - n
         /\ \A i \in 1..(Len(deck) - n) : Left(deck, n)[i] = deck[i]
         /\ Taken(deck, n) = InDeck(deck) \ InDeck(Left(deck, n))
         /\ InDeck(Left(deck, n)) \subseteq InDeck(deck)
         /\ InDeck(deck) \subseteq FullDeck
  <1> DEFINE m == Len(deck) - n
             left == Left(deck, n)
  <1>1. /\ deck \in Seq(FullDeck) /\ Len(deck) \in Nat /\ m \in Nat /\ m <= Len(deck)
        /\ \A i, j \in 1..Len(deck) : deck[i] = deck[j] => i = j
    BY DEF IsDeck
  <1>2. left = SubSeq(deck, 1, m)
    BY DEF Left
  <1> HIDE DEF left
  <1>3. /\ left \in Seq(FullDeck) /\ Len(left) = m
        /\ \A i \in 1..m : left[i] = deck[i]
    BY <1>1, <1>2
  <1>4. \A i \in 1..m : i \in 1..Len(deck)
    BY <1>1
  <1>5. IsDeck(left)
    BY <1>1, <1>3, <1>4 DEF IsDeck
  <1>6. InDeck(left) = {deck[i] : i \in 1..m}
    BY <1>3 DEF InDeck, Span
  <1>7. Taken(deck, n) = {deck[i] : i \in (m + 1)..Len(deck)}
    BY DEF Taken
  <1>8. \A i \in 1..Len(deck) : i \in 1..m <=> i \notin (m + 1)..Len(deck)
    BY <1>1
  <1>9. \A i \in (m + 1)..Len(deck) : i \in 1..Len(deck)
    BY <1>1
  <1> HIDE DEF m
  <1>10. Taken(deck, n) = InDeck(deck) \ InDeck(left)
    <2>1. ASSUME NEW i \in (m + 1)..Len(deck) PROVE deck[i] \notin InDeck(left)
      BY <1>1, <1>4, <1>6, <1>8, <1>9
    <2>2. ASSUME NEW i \in 1..Len(deck), deck[i] \notin InDeck(left)
          PROVE  deck[i] \in Taken(deck, n)
      BY <1>6, <1>7, <1>8, <2>2
    <2> QED BY <1>7, <1>9, <2>1, <2>2 DEF InDeck, Span
  <1>11. InDeck(left) \subseteq InDeck(deck)
    BY <1>4, <1>6 DEF InDeck, Span
  <1>12. InDeck(deck) \subseteq FullDeck
    BY <1>1 DEF InDeck, Span
  <1> QED BY <1>3, <1>5, <1>10, <1>11, <1>12 DEF m, left

(* Two rounds of one card to everybody are the last cards of the deck. *)
LEMMA TwoRounds ==
  ASSUME NEW deck, Len(deck) \in Nat
  PROVE  UNION {dealHoleCards(deck)[p] : p \in Players}
           = Taken(deck, 2 * SeatedPlayers)
  <1> DEFINE n == SeatedPlayers
             m == Len(deck)
             hole == dealHoleCards(deck)
  <1>1. n \in Nat /\ Players = 1..n
    BY DealingAssumption DEF Players
  <1>2. \A p \in 1..n : hole[p] = {deck[m + 1 - p], deck[m + 1 - n - p]}
    BY <1>1 DEF dealHoleCards
  <1>3. Taken(deck, 2 * n) = {deck[i] : i \in (m - 2 * n + 1)..m}
    BY DEF Taken
  <1> HIDE DEF hole
  <1>4. ASSUME NEW p \in 1..n, NEW c \in hole[p] PROVE c \in Taken(deck, 2 * n)
    <2>1. /\ m + 1 - p \in (m - 2 * n + 1)..m
          /\ m + 1 - n - p \in (m - 2 * n + 1)..m
      BY <1>1
    <2> QED BY <1>2, <1>3, <2>1
  <1>5. ASSUME NEW c \in Taken(deck, 2 * n) PROVE \E p \in 1..n : c \in hole[p]
    <2>1. PICK i \in (m - 2 * n + 1)..m : c = deck[i]
      BY <1>3
    <2>2. CASE i >= m + 1 - n
      <3>1. m + 1 - i \in 1..n /\ m + 1 - (m + 1 - i) = i
        BY <1>1, <2>2
      <3> QED BY <1>2, <2>1, <3>1
    <2>3. CASE ~(i >= m + 1 - n)
      <3>1. m + 1 - n - i \in 1..n /\ m + 1 - n - (m + 1 - n - i) = i
        BY <1>1, <2>3
      <3> QED BY <1>2, <2>1, <3>1
    <2> QED BY <2>2, <2>3
  <1> QED BY <1>1, <1>4, <1>5 DEF hole

LEMMA DealStep ==
  ASSUME StartHand
  PROVE  CardsInv'
  <1> DEFINE k == 2 * SeatedPlayers
  <1>1. PICK deck \in Shuffles :
          /\ cards' = Left(deck, k) /\ dealtCards' = Taken(deck, k)
          /\ holeCards' = dealHoleCards(deck)
    BY DEF StartHand
  <1>2. communityCards' = {} /\ phase' = "preflop"
    BY DEF StartHand
  <1>3. /\ IsFiniteSet(FullDeck) /\ IsDeck(deck) /\ InDeck(deck) = FullDeck
        /\ Len(deck) \in Nat /\ Len(deck) >= 2 * SeatedPlayers + 8
    BY ShuffledDeck
  <1>4. k \in Nat /\ k <= Len(deck) /\ Len(deck) - k >= 8
    BY <1>3, DealingAssumption
  <1>5. HoleCards' = Taken(deck, k)
    BY <1>1, <1>3, TwoRounds DEF HoleCards
  <1> HIDE DEF k
  <1>6. /\ IsDeck(cards') /\ Len(cards') = Len(deck) - k
        /\ dealtCards' = FullDeck \ InDeck(cards')
    BY <1>1, <1>3, <1>4, TakeFrom
  <1>7. Cardinality(Taken(deck, k)) = k
    <2> DEFINE a == Len(deck) - k + 1
    <2>1. a \in Nat \ {0} /\ a <= Len(deck) + 1 /\ Len(deck) + 1 - a = k
      BY <1>3, <1>4
    <2>2. Taken(deck, k) = Span(deck, a, Len(deck))
      BY DEF Taken, Span
    <2> HIDE DEF a
    <2>3. Cardinality(Span(deck, a, Len(deck))) = Len(deck) + 1 - a
      BY <1>3, <2>1, DeckCount
    <2> QED BY <2>1, <2>2, <2>3
  <1>8. ToCome' = 8
    BY <1>2 DEF ToCome
  <1> QED BY <1>1, <1>2, <1>3, <1>4, <1>5, <1>6, <1>7, <1>8 DEF CardsInv, k

(* A street burns one card and puts the next n on the board. *)
LEMMA StreetStep ==
  ASSUME CardsInv, NEW from, NEW n \in Nat, NEW to, Street(from, n, to),
         from # "waiting", ToCome >= n + 1, ToCome' <= ToCome - (n + 1)
  PROVE  CardsInv'
  <1>1. /\ dealtCards' = dealtCards \cup Taken(cards, n + 1)
        /\ communityCards' = communityCards \cup Taken(Left(cards, 1), n)
        /\ cards' = Left(cards, n + 1) /\ UNCHANGED holeCards
        /\ phase = from
    BY DEF Street
  <1>2. /\ IsFiniteSet(FullDeck)
        /\ IsDeck(cards) /\ Len(cards) >= ToCome
        /\ dealtCards = FullDeck \ InDeck(cards)
        /\ HoleCards \subseteq dealtCards
        /\ Cardinality(HoleCards) = 2 * SeatedPlayers
        /\ communityCards \subseteq dealtCards \ HoleCards
    BY <1>1 DEF CardsInv
  <1>3. Len(cards) \in Nat /\ ToCome \in Nat /\ ToCome' \in Nat
    BY <1>2 DEF IsDeck, ToCome
  <1>4. n + 1 \in Nat /\ n + 1 <= Len(cards) /\ 1 <= Len(cards)
    BY <1>2, <1>3
  <1>5. /\ IsDeck(cards') /\ Len(cards') = Len(cards) - (n + 1)
        /\ Taken(cards, n + 1) = InDeck(cards) \ InDeck(cards')
        /\ InDeck(cards') \subseteq InDeck(cards) /\ InDeck(cards) \subseteq FullDeck
        /\ \A i \in 1..(Len(cards) - (n + 1)) : cards'[i] = cards[i]
    BY <1>1, <1>2, <1>4, TakeFrom
  <1>6. dealtCards' = FullDeck \ InDeck(cards')
    BY <1>1, <1>2, <1>5
  <1>7. Taken(Left(cards, 1), n) \subseteq Taken(cards, n + 1)
    <2> DEFINE rest == Left(cards, 1)
               m == Len(cards)
    <2>1. /\ Len(rest) = m - 1 /\ \A i \in 1..(m - 1) : rest[i] = cards[i]
      BY <1>2, <1>4, TakeFrom
    <2> HIDE DEF rest
    <2>2. /\ Taken(rest, n) = {rest[i] : i \in (m - 1 - n + 1)..(m - 1)}
          /\ Taken(cards, n + 1) = {cards[i] : i \in (m - (n + 1) + 1)..m}
      BY <2>1 DEF Taken
    <2>3. \A i \in (m - 1 - n + 1)..(m - 1) :
            i \in 1..(m - 1) /\ i \in (m - (n + 1) + 1)..m
      BY <1>3, <1>4
    <2> QED BY <2>1, <2>2, <2>3 DEF rest
  <1>8. communityCards' \subseteq dealtCards' \ HoleCards
    BY <1>1, <1>2, <1>5, <1>7
  <1>9. HoleCards' = HoleCards
    BY <1>1 DEF HoleCards
  <1>10. Len(cards') >= ToCome'
    BY <1>2, <1>3, <1>5
  <1>11. HoleCards \subseteq dealtCards'
    BY <1>1, <1>2
  <1> QED BY <1>2, <1>5, <1>6, <1>8, <1>9, <1>10, <1>11 DEF CardsInv

LEMMA CardsInvariant == DealingSpec => []CardsInv
  <1>1. DealingInit => CardsInv
    BY DEF DealingInit, CardsInv
  <1>2. CardsInv /\ [DealingNext]_dealingVars => CardsInv'
    <2> SUFFICES ASSUME CardsInv, [DealingNext]_dealingVars PROVE CardsInv'
      OBVIOUS
    <2>1. CASE StartHand
      BY <2>1, DealStep
    <2>2. CASE DealFlop
      <3>1. Street("preflop", 3, "flop") /\ phase = "preflop" /\ phase' = "flop"
        BY <2>2 DEF DealFlop, Street
      <3>2. ToCome = 8 /\ ToCome' = 4
        BY <3>1 DEF ToCome
      <3> QED BY <3>1, <3>2, StreetStep
    <2>3. CASE DealTurn
      <3>1. Street("flop", 1, "turn") /\ phase = "flop" /\ phase' = "turn"
        BY <2>3 DEF DealTurn, Street
      <3>2. ToCome = 4 /\ ToCome' = 2
        BY <3>1 DEF ToCome
      <3> QED BY <3>1, <3>2, StreetStep
    <2>4. CASE DealRiver
      <3>1. Street("turn", 1, "river") /\ phase = "turn" /\ phase' = "river"
        BY <2>4 DEF DealRiver, Street
      <3>2. ToCome = 2 /\ ToCome' = 0
        BY <3>1 DEF ToCome
      <3> QED BY <3>1, <3>2, StreetStep
    <2>5. CASE \/ \E p \in Players : FoldCards(p)
               \/ Showdown
               \/ UNCHANGED dealingVars
      <3>1. /\ UNCHANGED <<cards, dealtCards, holeCards, communityCards>>
            /\ phase' = phase \/ (phase # "waiting" /\ phase' = "hand_complete")
        BY <2>5 DEF FoldCards, Showdown, dealingVars
      <3>2. HoleCards' = HoleCards
        BY <3>1 DEF HoleCards
      <3>3. CASE phase' = phase
        <4>1. ToCome' = ToCome
          BY <3>3 DEF ToCome
        <4> QED BY <3>1, <3>2, <3>3, <4>1 DEF CardsInv
      <3>4. CASE phase # "waiting" /\ phase' = "hand_complete"
        <4>1. ToCome' = 0
          BY <3>4 DEF ToCome
        <4>2. phase # "waiting" => Len(cards) \in Nat
          BY DEF CardsInv, IsDeck
        <4> QED BY <3>1, <3>2, <3>4, <4>1, <4>2 DEF CardsInv
      <3> QED BY <3>1, <3>3, <3>4
    <2> QED BY <2>1, <2>2, <2>3, <2>4, <2>5 DEF DealingNext
  <1> QED BY <1>1, <1>2, PTL DEF DealingSpec

(* Whatever the shuffle and however many players there are, no card is in  *)
(* two places, in every hand that is dealt: the two rounds of hole cards,  *)
(* the burned cards and the streets come off one array without overlap.    *)
THEOREM CardsAreDealtOnce == DealingSpec => []EveryCardOnce
  <1>1. CardsInv => EveryCardOnce
    <2> SUFFICES ASSUME CardsInv, phase # "waiting" PROVE EveryCardOnce
      BY DEF EveryCardOnce
    <2> DEFINE deck == InDeck(cards)
    <2>1. /\ IsFiniteSet(FullDeck) /\ IsDeck(cards)
          /\ dealtCards = FullDeck \ deck
          /\ HoleCards \subseteq dealtCards
          /\ Cardinality(HoleCards) = 2 * SeatedPlayers
          /\ communityCards \subseteq dealtCards \ HoleCards
      BY DEF CardsInv
    <2>2. Len(cards) \in Nat /\ DOMAIN cards = 1..Len(cards)
      BY <2>1 DEF IsDeck
    <2>3. IsFiniteSet(deck) /\ deck \subseteq FullDeck /\ Cardinality(deck) = Len(cards)
      <3>1. /\ IsFiniteSet(Span(cards, 1, Len(cards)))
            /\ Span(cards, 1, Len(cards)) \subseteq FullDeck
            /\ 1 <= Len(cards) + 1 =>
                 Cardinality(Span(cards, 1, Len(cards))) = Len(cards) + 1 - 1
        BY <2>1, <2>2, DeckCount
      <3> QED BY <2>2, <3>1 DEF InDeck
    <2>4. {cards[i] : i \in DOMAIN cards} = deck
      BY <2>2 DEF InDeck, Span
    <2> HIDE DEF deck
    <2>5. IsFiniteSet(dealtCards) /\ dealtCards \subseteq FullDeck
      <3>1. dealtCards \in SUBSET FullDeck
        BY <2>1
      <3> QED BY <2>1, <3>1, FS_Subset
    <2>6. Len(cards) + Cardinality(dealtCards) = Cardinality(FullDeck)
      <3>1. /\ FullDeck = deck \cup dealtCards /\ deck \cap dealtCards = {}
        BY <2>1, <2>3
      <3>2. Cardinality(deck \cup dealtCards)
              = Cardinality(deck) + Cardinality(dealtCards)
                  - Cardinality(deck \cap dealtCards)
        BY <2>3, <2>5, FS_Union
      <3>3. Cardinality({}) = 0
        BY FS_EmptySet
      <3>5. Cardinality(deck \cap dealtCards) = 0
        BY <3>1, <3>3, Zenon
      <3>4. Cardinality(deck) \in Nat /\ Cardinality(dealtCards) \in Nat
        BY <2>3, <2>5, FS_CardinalityType
      <3>6. Cardinality(FullDeck) = Cardinality(deck \cup dealtCards)
        BY <3>1, Zenon
      <3> QED BY <2>3, <3>2, <3>4, <3>5, <3>6
    <2>7. IsFiniteSet(HoleCards) /\ IsFiniteSet(communityCards)
      <3>1. HoleCards \in SUBSET dealtCards /\ communityCards \in SUBSET dealtCards
        BY <2>1
      <3> QED BY <2>5, <3>1, FS_Subset
    <2>8. Cardinality(HoleCards \cup communityCards)
            = 2 * SeatedPlayers + Cardinality(communityCards)
      <3>1. HoleCards \cap communityCards = {}
        BY <2>1
      <3>2. Cardinality(HoleCards \cup communityCards)
              = Cardinality(HoleCards) + Cardinality(communityCards)
                  - Cardinality(HoleCards \cap communityCards)
        BY <2>7, FS_Union
      <3>3. Cardinality({}) = 0
        BY FS_EmptySet
      <3>5. Cardinality(HoleCards \cap communityCards) = 0
        BY <3>1, <3>3, Zenon
      <3>4. Cardinality(HoleCards) \in Nat /\ Cardinality(communityCards) \in Nat
        BY <2>7, FS_CardinalityType
      <3> QED BY <2>1, <3>2, <3>4, <3>5
    <2>9. deck \cap dealtCards = {}
      BY <2>1
    <2>10. HoleCards \cup communityCards \subseteq dealtCards
      BY <2>1
    <2>11. HoleCards = UNION {holeCards[p] : p \in Players}
      BY DEF HoleCards
    <2>12. /\ {cards[i] : i \in DOMAIN cards} \cap dealtCards = {}
           /\ (UNION {holeCards[p] : p \in Players}) \cup communityCards
                \subseteq dealtCards
      BY <2>4, <2>9, <2>10, <2>11, Zenon
    <2>13. Cardinality((UNION {holeCards[p] : p \in Players}) \cup communityCards)
             = 2 * SeatedPlayers + Cardinality(communityCards)
      BY <2>8, <2>11, Zenon
    <2> QED BY <2>6, <2>12, <2>13, Zenon DEF EveryCardOnce
  <1> QED BY <1>1, CardsInvariant, PTL

-----------------------------------------------------------------------------
(* Cards in order *)

(* c lists the elements of S, n of them, each once. *)
Listing(c, n, S) ==
  /\ c \in [1..n -> S]
  /\ \A i, j \in 1..n : c[i] = c[j] => i = j
  /\ \A x \in S : \E i \in 1..n : c[i] = x

Front(c, k) == {c[i] : i \in 1..k}

(* As many elements as places. *)
LEMMA FrontCount ==
  ASSUME NEW n \in Nat, NEW S, NEW c, Listing(c, n, S), NEW k \in 0..n
  PROVE  /\ IsFiniteSet(Front(c, k)) /\ Cardinality(Front(c, k)) = k
         /\ Front(c, k) \subseteq S
  <1> DEFINE F == Front(c, k)
             h == [i \in 1..k |-> c[i]]
  <1>1. \A i \in 1..k : i \in 1..n
    OBVIOUS
  <1>2. /\ h \in [1..k -> F] /\ \A i, j \in 1..k : h[i] = h[j] => i = j
        /\ \A z \in F : \E i \in 1..k : h[i] = z
    BY <1>1 DEF Listing, Front
  <1>3. F \subseteq S
    BY <1>1 DEF Listing, Front
  <1>4. IsFiniteSet(1..k) /\ Cardinality(1..k) = k
    BY FS_Interval
  <1> HIDE DEF F, h
  <1>5. IsFiniteSet(F) /\ Cardinality(F) = Cardinality(1..k)
    BY <1>2, <1>4, SameCount
  <1> QED BY <1>3, <1>4, <1>5 DEF F

LEMMA ListingCount ==
  ASSUME NEW n \in Nat, NEW S, NEW c, Listing(c, n, S)
  PROVE  IsFiniteSet(S) /\ Cardinality(S) = n
  <1>1. n \in 0..n
    OBVIOUS
  <1>2. Front(c, n) = S
    BY DEF Front, Listing
  <1> QED BY <1>1, <1>2, FrontCount

(* Cards from the highest to the lowest, and their ranks. *)
Falling(c, n) == \A i, j \in 1..n : i < j => c[i].rank >= c[j].rank
RanksIn(c, n) == [i \in 1..n |-> c[i].rank]

LEMMA SortedRanksAre ==
  ASSUME NEW n \in Nat, NEW S, \A x \in S : x.rank \in Nat,
         NEW c, Listing(c, n, S), Falling(c, n)
  PROVE  SortedRanks(S) = RanksIn(c, n)
  <1> USE DEF Falling, RanksIn
  <1> DEFINE Above(r) == {x \in S : x.rank > r}
             AtLeast(r) == {x \in S : x.rank >= r}
             here(r, i) == Cardinality(Above(r)) < i /\ i <= Cardinality(AtLeast(r))
  <1>1. IsFiniteSet(S) /\ Cardinality(S) = n
    BY ListingCount
  <1>2. \A i \in 1..n : c[i] \in S /\ c[i].rank \in Nat /\ c[i].rank \in RanksOf(S)
    BY DEF Listing, RanksOf
  <1>3. \A x \in S : \E i \in 1..n : c[i] = x
    BY DEF Listing
  <1>4. ASSUME NEW r
        PROVE  /\ IsFiniteSet(Above(r)) /\ Cardinality(Above(r)) \in Nat
               /\ IsFiniteSet(AtLeast(r)) /\ Cardinality(AtLeast(r)) \in Nat
    <2>1. Above(r) \in SUBSET S /\ AtLeast(r) \in SUBSET S
      OBVIOUS
    <2> HIDE DEF Above, AtLeast
    <2> QED BY <1>1, <2>1, FS_Subset, FS_CardinalityType
  <1>5. ASSUME NEW i \in 1..n
        PROVE  /\ IsFiniteSet(Front(c, i)) /\ Cardinality(Front(c, i)) = i
               /\ IsFiniteSet(Front(c, i - 1)) /\ Cardinality(Front(c, i - 1)) = i - 1
               /\ \A j \in 1..n : c[j] \in Front(c, i - 1) <=> j < i
               /\ \A j \in 1..n : c[j] \in Front(c, i) <=> j <= i
               /\ Front(c, i) \subseteq S
    <2>1. i \in 0..n /\ i - 1 \in 0..n
      OBVIOUS
    <2>2. \A j \in 1..n : c[j] \in Front(c, i - 1) <=> j < i
      BY DEF Front, Listing
    <2>3. \A j \in 1..n : c[j] \in Front(c, i) <=> j <= i
      BY DEF Front, Listing
    <2> QED BY <2>1, <2>2, <2>3, FrontCount
  <1>6. ASSUME NEW i \in 1..n, NEW r \in Nat, NEW x \in S,
               r > c[i].rank, x.rank >= r
        PROVE  x \in Front(c, i - 1)
    <2>1. PICK j \in 1..n : c[j] = x
      BY <1>3
    <2>2. c[i].rank \in Nat /\ c[j].rank \in Nat /\ c[j].rank > c[i].rank
      BY <1>2, <1>6, <2>1
    <2>3. j < i
      BY <2>2
    <2> QED BY <1>5, <2>1, <2>3
  <1>7. ASSUME NEW i \in 1..n, NEW x \in Front(c, i)
        PROVE  x \in S /\ x.rank \in Nat /\ x.rank >= c[i].rank
    <2>1. PICK j \in 1..i : c[j] = x
      BY DEF Front
    <2>2. j \in 1..n /\ c[j].rank \in Nat /\ c[i].rank \in Nat
      BY <1>2
    <2>3. j = i \/ j < i
      OBVIOUS
    <2> QED BY <1>2, <2>1, <2>2, <2>3
  <1>8. ASSUME NEW i \in 1..n PROVE here(c[i].rank, i)
    <2> DEFINE r == c[i].rank
    <2>1. \A x \in Above(r) : x \in Front(c, i - 1)
      <3> SUFFICES ASSUME NEW x \in Above(r) PROVE x \in Front(c, i - 1)
        OBVIOUS
      <3>1. x \in S /\ x.rank \in Nat /\ r \in Nat /\ x.rank > r
        BY <1>2
      <3> QED BY <1>6, <3>1
    <2>2. \A x \in Front(c, i) : x \in AtLeast(r)
      BY <1>7
    <2>3. Cardinality(Above(r)) <= Cardinality(Front(c, i - 1))
      <3>1. Above(r) \in SUBSET Front(c, i - 1)
        BY <2>1
      <3> HIDE DEF Above
      <3> QED BY <1>5, <3>1, FS_Subset
    <2>4. Cardinality(Front(c, i)) <= Cardinality(AtLeast(r))
      <3>1. Front(c, i) \in SUBSET AtLeast(r)
        BY <2>2
      <3> HIDE DEF AtLeast
      <3> QED BY <1>4, <3>1, FS_Subset
    <2> HIDE DEF Above, AtLeast, r
    <2>5. Cardinality(Front(c, i - 1)) = i - 1 /\ Cardinality(Front(c, i)) = i
      BY <1>5
    <2>6. Cardinality(Above(r)) \in Nat /\ Cardinality(AtLeast(r)) \in Nat
      BY <1>4
    <2>7. Cardinality(Above(r)) < i /\ i <= Cardinality(AtLeast(r))
      BY <2>3, <2>4, <2>5, <2>6
    <2> QED BY <2>7 DEF r
  <1>9. ASSUME NEW i \in 1..n, NEW r \in RanksOf(S), here(r, i)
        PROVE  r = c[i].rank
    <2>1. r \in Nat /\ c[i].rank \in Nat
      BY <1>2 DEF RanksOf
    <2>2. CASE r > c[i].rank
      <3>1. AtLeast(r) \in SUBSET Front(c, i - 1)
        BY <1>6, <2>1, <2>2
      <3> HIDE DEF AtLeast, Above
      <3>2. Cardinality(AtLeast(r)) <= Cardinality(Front(c, i - 1))
        BY <1>5, <3>1, FS_Subset
      <3>3. Cardinality(Front(c, i - 1)) = i - 1 /\ Cardinality(AtLeast(r)) \in Nat
        BY <1>4, <1>5
      <3>4. i <= Cardinality(AtLeast(r))
        BY <1>9
      <3> QED BY <3>2, <3>3, <3>4
    <2>3. CASE r < c[i].rank
      <3>1. Front(c, i) \in SUBSET Above(r)
        BY <1>7, <2>1, <2>3
      <3> HIDE DEF AtLeast, Above
      <3>2. Cardinality(Front(c, i)) <= Cardinality(Above(r))
        BY <1>4, <3>1, FS_Subset
      <3>3. Cardinality(Front(c, i)) = i /\ Cardinality(Above(r)) \in Nat
        BY <1>4, <1>5
      <3>4. Cardinality(Above(r)) < i
        BY <1>9
      <3> QED BY <3>2, <3>3, <3>4
    <2> QED BY <2>1, <2>2, <2>3
  <1> HIDE DEF here
  <1>10. ASSUME NEW i \in 1..n
         PROVE  (CHOOSE r \in RanksOf(S) : here(r, i)) = c[i].rank
    <2>1. c[i].rank \in RanksOf(S) /\ here(c[i].rank, i)
      BY <1>2, <1>8
    <2>2. \A r \in RanksOf(S) : here(r, i) => r = c[i].rank
      BY <1>9
    <2> QED BY <2>1, <2>2
  <1>11. SortedRanks(S) = [i \in 1..n |-> CHOOSE r \in RanksOf(S) : here(r, i)]
    BY <1>1 DEF SortedRanks, here
  <1> HIDE DEF here
  <1> QED BY <1>10, <1>11

(* How often the ranks of g occur in h falls from each to the next, or is  *)
(* the same and the rank falls: those are its groups.                      *)
Ahead(h, r, s) ==
  \/ CountOf(h, r) > CountOf(h, s)
  \/ CountOf(h, r) = CountOf(h, s) /\ r > s

LEMMA GroupsAre ==
  ASSUME NEW h, \A x \in h : x.rank \in Nat,
         \A r \in RanksOf(h) : CountOf(h, r) \in Nat,
         NEW m \in Nat, NEW g, Listing(g, m, RanksOf(h)),
         \A i, j \in 1..m : i < j => Ahead(h, g[i], g[j])
  PROVE  Groups(h) = [i \in 1..m |-> g[i]]
  <1> DEFINE R == RanksOf(h)
             Fore(r) == {s \in R : Ahead(h, s, r)}
  <1>1. Cardinality(R) = m
    BY ListingCount
  <1>2. R \subseteq Nat
    BY DEF RanksOf
  <1>3. \A i \in 1..m : g[i] \in R
    BY DEF Listing
  <1>4. \A r \in R : \E i \in 1..m : g[i] = r
    BY DEF Listing
  <1> HIDE DEF R
  <1>5. \A r, s \in R : ~(Ahead(h, r, s) /\ Ahead(h, s, r)) /\ ~Ahead(h, r, r)
    BY <1>2 DEF Ahead, R
  <1>6. \A i, j \in 1..m : Ahead(h, g[j], g[i]) <=> j < i
    <2> SUFFICES ASSUME NEW i \in 1..m, NEW j \in 1..m
                 PROVE  Ahead(h, g[j], g[i]) <=> j < i
      OBVIOUS
    <2>1. j < i \/ j = i \/ i < j
      OBVIOUS
    <2> QED BY <1>3, <1>5, <2>1
  <1>7. ASSUME NEW i \in 1..m PROVE Cardinality(Fore(g[i])) = i - 1
    <2>1. Fore(g[i]) = Front(g, i - 1)
      <3>1. ASSUME NEW s \in Fore(g[i]) PROVE s \in Front(g, i - 1)
        <4>1. PICK j \in 1..m : g[j] = s
          BY <1>4
        <4>2. j < i
          BY <1>6, <4>1
        <4> QED BY <4>1, <4>2 DEF Front
      <3>2. ASSUME NEW s \in Front(g, i - 1) PROVE s \in Fore(g[i])
        <4>1. PICK j \in 1..(i - 1) : g[j] = s
          BY DEF Front
        <4>2. j \in 1..m /\ j < i
          OBVIOUS
        <4> QED BY <1>3, <1>6, <4>1, <4>2
      <3> QED BY <3>1, <3>2
    <2>2. i - 1 \in 0..m
      OBVIOUS
    <2> HIDE DEF Fore
    <2> QED BY <2>1, <2>2, FrontCount
  <1>8. ASSUME NEW i \in 1..m
        PROVE  (CHOOSE r \in R : Cardinality(Fore(r)) = i - 1) = g[i]
    <2> HIDE DEF Fore
    <2>1. \A r \in R : Cardinality(Fore(r)) = i - 1 => r = g[i]
      BY <1>4, <1>7
    <2> QED BY <1>3, <1>7, <2>1
  <1>9. Groups(h) = [i \in 1..m |-> CHOOSE r \in R : Cardinality(Fore(r)) = i - 1]
    BY <1>1 DEF Groups, Ahead, R
  <1> HIDE DEF Fore
  <1> QED BY <1>8, <1>9

-----------------------------------------------------------------------------
(* Five cards *)

IsHand(h) == h \in SUBSET FullDeck /\ IsFiniteSet(h) /\ Cardinality(h) = 5

LEMMA CardsOfHand ==
  ASSUME NEW h, IsHand(h), NEW x \in h
  PROVE  /\ x.rank \in Nat /\ x.rank \in 2..14 /\ x.rank \in Ranks /\ x.suit \in Suits
         /\ x = [rank |-> x.rank, suit |-> x.suit]
  <1>1. x \in [rank : Ranks, suit : Suits]
    BY DEF IsHand, FullDeck
  <1>2. x.rank \in Ranks /\ x.suit \in Suits
    BY <1>1
  <1>3. x.rank \in 2..14
    BY <1>2, DeckAssumption DEF Ace
  <1>5. x.rank \in Nat
    BY <1>3
  <1>4. x = [rank |-> x.rank, suit |-> x.suit]
    BY <1>1
  <1> QED BY <1>2, <1>3, <1>4, <1>5

(* The best card of a set, and what is left without it. *)
LEMMA PickBest ==
  ASSUME NEW n \in Nat, NEW S, IsFiniteSet(S), Cardinality(S) = n + 1,
         NEW key, \A x \in S : key[x] \in Nat
  PROVE  \E x \in S : /\ \A y \in S : key[y] <= key[x]
                      /\ IsFiniteSet(S \ {x}) /\ Cardinality(S \ {x}) = n
  <1>1. S # {}
    BY FS_EmptySet
  <1>2. PICK x \in S : \A y \in S : key[y] <= key[x]
    BY <1>1, SomebodyIsBest
  <1>3. IsFiniteSet(S \ {x}) /\ Cardinality(S \ {x}) = Cardinality(S) - 1
    BY <1>2, FS_RemoveElement
  <1>4. Cardinality(S \ {x}) = n
    BY <1>3
  <1> QED BY <1>2, <1>3, <1>4, Zenon

(* Five cards in the order of a key. *)
LEMMA FiveInOrder ==
  ASSUME NEW h, IsFiniteSet(h), Cardinality(h) = 5, NEW key,
         \A x \in h : key[x] \in Nat
  PROVE  \E c : /\ Listing(c, 5, h)
                /\ \A i, j \in 1..5 : i < j => key[c[i]] >= key[c[j]]
  <1>1. PICK a \in h : /\ \A y \in h : key[y] <= key[a]
                       /\ IsFiniteSet(h \ {a}) /\ Cardinality(h \ {a}) = 4
    BY PickBest
  <1>2. PICK b \in h \ {a} : /\ \A y \in h \ {a} : key[y] <= key[b]
                             /\ IsFiniteSet((h \ {a}) \ {b})
                             /\ Cardinality((h \ {a}) \ {b}) = 3
    BY <1>1, PickBest
  <1> DEFINE S3 == (h \ {a}) \ {b}
  <1>3. IsFiniteSet(S3) /\ Cardinality(S3) = 2 + 1 /\ \A x \in S3 : key[x] \in Nat
    BY <1>2
  <1>4. PICK d \in S3 : /\ \A y \in S3 : key[y] <= key[d]
                        /\ IsFiniteSet(S3 \ {d}) /\ Cardinality(S3 \ {d}) = 2
    <2> HIDE DEF S3
    <2> QED BY <1>3, PickBest
  <1> DEFINE S4 == S3 \ {d}
  <1>5. IsFiniteSet(S4) /\ Cardinality(S4) = 1 + 1 /\ \A x \in S4 : key[x] \in Nat
    BY <1>4
  <1>6. PICK e \in S4 : /\ \A y \in S4 : key[y] <= key[e]
                        /\ IsFiniteSet(S4 \ {e}) /\ Cardinality(S4 \ {e}) = 1
    <2> HIDE DEF S4
    <2> QED BY <1>5, PickBest
  <1>7. \E f \in S4 \ {e} : S4 \ {e} = {f}
    <2> HIDE DEF S4
    <2> QED BY <1>6, FS_Singleton, Zenon
  <1>8. PICK f \in S4 \ {e} : S4 \ {e} = {f}
    BY <1>7
  <1> DEFINE c == [i \in 1..5 |-> CASE i = 1 -> a [] i = 2 -> b [] i = 3 -> d
                                    [] i = 4 -> e [] OTHER -> f]
  <1>9. /\ c[1] = a /\ c[2] = b /\ c[3] = d /\ c[4] = e /\ c[5] = f
        /\ DOMAIN c = 1..5 /\ \A i \in 1..5 : i \in {1, 2, 3, 4, 5}
    OBVIOUS
  <1>10. /\ a \in h /\ b \in h /\ d \in h /\ e \in h /\ f \in h
         /\ a # b /\ a # d /\ a # e /\ a # f /\ b # d /\ b # e /\ b # f
         /\ d # e /\ d # f /\ e # f
         /\ \A x \in h : x \in {a, b, d, e, f}
    BY <1>8
  <1>11. /\ key[a] >= key[b] /\ key[a] >= key[d] /\ key[a] >= key[e] /\ key[a] >= key[f]
         /\ key[b] >= key[d] /\ key[b] >= key[e] /\ key[b] >= key[f]
         /\ key[d] >= key[e] /\ key[d] >= key[f] /\ key[e] >= key[f]
    <2>1. /\ key[a] \in Nat /\ key[b] \in Nat /\ key[d] \in Nat
          /\ key[e] \in Nat /\ key[f] \in Nat
      BY <1>10
    <2>2. key[b] <= key[a] /\ key[d] <= key[a] /\ key[e] <= key[a] /\ key[f] <= key[a]
      BY <1>1, <1>10
    <2>3. key[d] <= key[b] /\ key[e] <= key[b] /\ key[f] <= key[b]
      BY <1>2, <1>10
    <2>4. key[e] <= key[d] /\ key[f] <= key[d]
      BY <1>4, <1>8
    <2>5. key[f] <= key[e]
      BY <1>6, <1>8
    <2> QED BY <2>1, <2>2, <2>3, <2>4, <2>5
  <1>12. c \in [1..5 -> h]
    BY <1>10
  <1> HIDE DEF c, S3, S4
  <1>13. \A i, j \in 1..5 : c[i] = c[j] => i = j
    BY <1>9, <1>10
  <1>14. \A x \in h : \E i \in 1..5 : c[i] = x
    BY <1>9, <1>10
  <1>15. Listing(c, 5, h)
    BY <1>12, <1>13, <1>14 DEF Listing
  <1>16. \A i, j \in 1..5 : i < j => key[c[i]] >= key[c[j]]
    BY <1>9, <1>11
  <1> QED BY <1>15, <1>16

(* Counting among five cards. *)
In(c, i, T) == IF c[i] \in T THEN 1 ELSE 0

LEMMA FrontIn ==
  ASSUME NEW n \in Nat, NEW h, NEW c, Listing(c, n, h), NEW T \in SUBSET h,
         NEW k \in 1..n
  PROVE  Cardinality(T \cap Front(c, k)) = Cardinality(T \cap Front(c, k - 1)) + In(c, k, T)
  <1>1. k - 1 \in 0..n
    OBVIOUS
  <1>2. IsFiniteSet(Front(c, k - 1))
    BY <1>1, FrontCount
  <1> DEFINE F == T \cap Front(c, k - 1)
  <1>3. IsFiniteSet(F)
    <2>1. F \in SUBSET Front(c, k - 1)
      OBVIOUS
    <2> HIDE DEF F
    <2> QED BY <1>2, <2>1, FS_Subset
  <1>4. Front(c, k) = Front(c, k - 1) \cup {c[k]} /\ c[k] \notin Front(c, k - 1)
    <2>1. \A i \in 1..k : i = k \/ i \in 1..(k - 1)
      OBVIOUS
    <2>2. \A i \in 1..(k - 1) : i \in 1..k /\ i \in 1..n /\ i # k
      OBVIOUS
    <2> QED BY <2>1, <2>2 DEF Front, Listing
  <1>5. CASE c[k] \in T
    <2>1. T \cap Front(c, k) = F \cup {c[k]} /\ c[k] \notin F
      BY <1>4, <1>5
    <2> HIDE DEF F
    <2>2. Cardinality(F \cup {c[k]}) = Cardinality(F) + 1
      BY <1>3, <2>1, FS_AddElement
    <2> QED BY <1>5, <2>1, <2>2 DEF In, F
  <1>6. CASE c[k] \notin T
    <2>1. T \cap Front(c, k) = F
      BY <1>4, <1>6
    <2>2. Cardinality(F) \in Nat
      <3> HIDE DEF F
      <3> QED BY <1>3, FS_CardinalityType
    <2> QED BY <1>6, <2>1, <2>2 DEF In
  <1> QED BY <1>5, <1>6

LEMMA FiveCount ==
  ASSUME NEW h, NEW c, Listing(c, 5, h), NEW T \in SUBSET h
  PROVE  Cardinality(T) = In(c, 1, T) + In(c, 2, T) + In(c, 3, T) + In(c, 4, T)
                            + In(c, 5, T)
  <1> DEFINE N(k) == Cardinality(T \cap Front(c, k))
  <1>1. \A k \in 1..5 : N(k) = N(k - 1) + In(c, k, T)
    BY FrontIn
  <1>2. N(0) = 0
    <2>1. T \cap Front(c, 0) = {}
      BY DEF Front
    <2>2. Cardinality({}) = 0
      BY FS_EmptySet
    <2> QED BY <2>1, <2>2, Zenon
  <1>3. N(5) = Cardinality(T)
    <2>1. T \cap Front(c, 5) = T
      BY DEF Front, Listing
    <2> QED BY <2>1, Zenon
  <1> HIDE DEF N
  <1>4. /\ N(1) = N(0) + In(c, 1, T) /\ N(2) = N(1) + In(c, 2, T)
        /\ N(3) = N(2) + In(c, 3, T) /\ N(4) = N(3) + In(c, 4, T)
        /\ N(5) = N(4) + In(c, 5, T)
    <2>1. \A k \in {1, 2, 3, 4, 5} : N(k) = N(k - 1) + In(c, k, T)
      BY <1>1
    <2> QED BY <2>1
  <1>5. \A k \in 1..5 : In(c, k, T) \in Nat
    BY DEF In
  <1> QED BY <1>2, <1>3, <1>4, <1>5

Has(c, i, r) == IF c[i].rank = r THEN 1 ELSE 0

LEMMA CountOfFive ==
  ASSUME NEW h, NEW c, Listing(c, 5, h), NEW r
  PROVE  /\ CountOf(h, r) = Has(c, 1, r) + Has(c, 2, r) + Has(c, 3, r) + Has(c, 4, r)
                              + Has(c, 5, r)
         /\ CountOf(h, r) \in Nat
  <1> DEFINE T == {x \in h : x.rank = r}
  <1>1. \A i \in {1, 2, 3, 4, 5} : In(c, i, T) = Has(c, i, r)
    BY DEF In, Has, Listing
  <1>2. CountOf(h, r) = Cardinality(T) /\ T \in SUBSET h
    BY DEF CountOf
  <1> HIDE DEF T
  <1>3. CountOf(h, r) = In(c, 1, T) + In(c, 2, T) + In(c, 3, T) + In(c, 4, T)
                          + In(c, 5, T)
    BY <1>2, FiveCount
  <1>4. \A i \in {1, 2, 3, 4, 5} : Has(c, i, r) \in Nat
    BY DEF Has
  <1> QED BY <1>1, <1>3, <1>4

(* What is known of the five cards of a hand. *)
LEMMA ListedHand ==
  ASSUME NEW h, IsHand(h), NEW c, Listing(c, 5, h)
  PROVE  /\ \A i \in 1..5 : c[i] \in h /\ c[i].rank \in 2..14 /\ c[i].rank \in Ranks
         /\ \A i, j \in 1..5 : c[i].suit = c[j].suit /\ c[i].rank = c[j].rank => i = j
         /\ RanksOf(h) = {c[1].rank, c[2].rank, c[3].rank, c[4].rank, c[5].rank}
         /\ RanksOf(h) \subseteq 2..14 /\ RanksOf(h) \subseteq Ranks
  <1>1. \A i \in 1..5 : c[i] \in h /\ c[i].rank \in 2..14 /\ c[i].rank \in Ranks
    BY CardsOfHand DEF Listing
  <1>2. ASSUME NEW i \in 1..5, NEW j \in 1..5,
               c[i].suit = c[j].suit, c[i].rank = c[j].rank
        PROVE  i = j
    <2>1. /\ c[i] = [rank |-> c[i].rank, suit |-> c[i].suit]
          /\ c[j] = [rank |-> c[j].rank, suit |-> c[j].suit]
      BY <1>1, CardsOfHand
    <2>2. c[i] = c[j]
      BY <1>2, <2>1
    <2> QED BY <2>2 DEF Listing
  <1>3. \A x \in h : \E i \in {1, 2, 3, 4, 5} : x = c[i]
    <2>1. 1..5 = {1, 2, 3, 4, 5}
      OBVIOUS
    <2> QED BY <2>1 DEF Listing
  <1>4. RanksOf(h) = {c[1].rank, c[2].rank, c[3].rank, c[4].rank, c[5].rank}
    <2>1. ASSUME NEW r \in RanksOf(h)
          PROVE  r \in {c[1].rank, c[2].rank, c[3].rank, c[4].rank, c[5].rank}
      BY <1>3 DEF RanksOf
    <2>2. \A i \in {1, 2, 3, 4, 5} : c[i].rank \in RanksOf(h)
      BY <1>1 DEF RanksOf
    <2> QED BY <2>1, <2>2
  <1>5. \A r \in RanksOf(h) : r \in 2..14 /\ r \in Ranks
    BY <1>1, <1>4
  <1> QED BY <1>1, <1>2, <1>4, <1>5

(* There are not five suits. *)
LEMMA NoFiveOfAKind ==
  ASSUME NEW h, IsHand(h), NEW c, Listing(c, 5, h),
         \A i \in 1..5 : c[i].rank = c[1].rank
  PROVE  FALSE
  <1> DEFINE s == [i \in 1..5 |-> c[i].suit]
             T == {s[i] : i \in 1..5}
  <1>1. \A i, j \in 1..5 : s[i] = s[j] => i = j
    BY ListedHand
  <1>2. T \in SUBSET Suits
    <2>1. \A i \in 1..5 : c[i].suit \in Suits
      BY CardsOfHand DEF Listing
    <2> QED BY <2>1
  <1>3. s \in [1..5 -> T] /\ \A z \in T : \E i \in 1..5 : s[i] = z
    OBVIOUS
  <1> HIDE DEF s, T
  <1>4. Listing(s, 5, T)
    BY <1>1, <1>3 DEF Listing
  <1>5. Cardinality(T) = 5
    BY <1>4, ListingCount
  <1>6. Cardinality(T) <= Cardinality(Suits) /\ Cardinality(Suits) \in Nat
    BY <1>2, DeckAssumption, FS_Subset, FS_CardinalityType
  <1>7. Cardinality(Suits) <= 4
    BY DeckAssumption
  <1> QED BY <1>5, <1>6, <1>7

(* The shapes of a hand, its cards listed by how many there are of the     *)
(* rank first and by the rank then.                                        *)
FourAndOne(c) ==
  /\ c[1].rank = c[2].rank /\ c[2].rank = c[3].rank /\ c[3].rank = c[4].rank
  /\ c[5].rank # c[1].rank
ThreeAndTwo(c) ==
  /\ c[1].rank = c[2].rank /\ c[2].rank = c[3].rank /\ c[4].rank = c[5].rank
  /\ c[4].rank # c[1].rank
ThreeAlone(c) ==
  /\ c[1].rank = c[2].rank /\ c[2].rank = c[3].rank /\ c[4].rank > c[5].rank
  /\ c[4].rank # c[1].rank /\ c[5].rank # c[1].rank
TwoAndTwo(c) ==
  /\ c[1].rank = c[2].rank /\ c[3].rank = c[4].rank /\ c[1].rank > c[3].rank
  /\ c[5].rank # c[1].rank /\ c[5].rank # c[3].rank
TwoAlone(c) ==
  /\ c[1].rank = c[2].rank /\ c[3].rank > c[4].rank /\ c[4].rank > c[5].rank
  /\ c[3].rank # c[1].rank /\ c[4].rank # c[1].rank /\ c[5].rank # c[1].rank
AllApart(c) ==
  /\ c[1].rank > c[2].rank /\ c[2].rank > c[3].rank /\ c[3].rank > c[4].rank
  /\ c[4].rank > c[5].rank

(* How many of five numbers are r, and their order. *)
Among(r, a, b, d, e, f) ==
  (IF a = r THEN 1 ELSE 0) + (IF b = r THEN 1 ELSE 0) + (IF d = r THEN 1 ELSE 0)
    + (IF e = r THEN 1 ELSE 0) + (IF f = r THEN 1 ELSE 0)
KeyOf(r, a, b, d, e, f) == 15 * Among(r, a, b, d, e, f) + r
FrequentFirst(a, b, d, e, f) ==
  /\ KeyOf(a, a, b, d, e, f) >= KeyOf(b, a, b, d, e, f)
  /\ KeyOf(b, a, b, d, e, f) >= KeyOf(d, a, b, d, e, f)
  /\ KeyOf(d, a, b, d, e, f) >= KeyOf(e, a, b, d, e, f)
  /\ KeyOf(e, a, b, d, e, f) >= KeyOf(f, a, b, d, e, f)

LEMMA FiveNumbers ==
  ASSUME NEW a \in 2..14, NEW b \in 2..14, NEW d \in 2..14, NEW e \in 2..14,
         NEW f \in 2..14, ~(a = b /\ b = d /\ d = e /\ e = f),
         FrequentFirst(a, b, d, e, f)
  PROVE  \/ a = b /\ b = d /\ d = e /\ f # a
         \/ a = b /\ b = d /\ e = f /\ e # a
         \/ a = b /\ b = d /\ e > f /\ e # a /\ f # a
         \/ a = b /\ d = e /\ a > d /\ f # a /\ f # d
         \/ a = b /\ d > e /\ e > f /\ d # a /\ e # a /\ f # a
         \/ a > b /\ b > d /\ d > e /\ e > f
  <1>1. /\ a \in Int /\ b \in Int /\ d \in Int /\ e \in Int /\ f \in Int
        /\ a >= 2 /\ b >= 2 /\ d >= 2 /\ e >= 2 /\ f >= 2
        /\ a <= 14 /\ b <= 14 /\ d <= 14 /\ e <= 14 /\ f <= 14
    OBVIOUS
  <1> QED BY <1>1 DEF FrequentFirst, KeyOf, Among

LEMMA HandShape ==
  ASSUME NEW h, IsHand(h)
  PROVE  \E c : /\ Listing(c, 5, h)
                /\ \/ FourAndOne(c) \/ ThreeAndTwo(c) \/ ThreeAlone(c)
                   \/ TwoAndTwo(c) \/ TwoAlone(c) \/ AllApart(c)
  <1> DEFINE key == [x \in h |-> 15 * CountOf(h, x.rank) + x.rank]
  <1>1. PICK d : Listing(d, 5, h)
    <2>1. \A x \in h : [y \in h |-> 0][x] \in Nat
      OBVIOUS
    <2> QED BY <2>1, FiveInOrder DEF IsHand
  <1>2. \A x \in h : key[x] \in Nat
    <2> SUFFICES ASSUME NEW x \in h PROVE key[x] \in Nat
      OBVIOUS
    <2>1. x.rank \in Nat
      BY CardsOfHand
    <2>2. CountOf(h, x.rank) \in Nat
      BY <1>1, CountOfFive
    <2>3. key[x] = 15 * CountOf(h, x.rank) + x.rank
      OBVIOUS
    <2> HIDE DEF key
    <2> QED BY <2>1, <2>2, <2>3
  <1>3. PICK c : /\ Listing(c, 5, h)
                 /\ \A i, j \in 1..5 : i < j => key[c[i]] >= key[c[j]]
    <2> HIDE DEF key
    <2> QED BY <1>2, FiveInOrder DEF IsHand
  <1>4. \A i \in 1..5 : c[i] \in h /\ c[i].rank \in 2..14
    BY <1>3, ListedHand
  <1>5. \A i \in 1..5 : key[c[i]] = 15 * CountOf(h, c[i].rank) + c[i].rank
    BY <1>4
  <1> HIDE DEF key
  <1> DEFINE r1 == c[1].rank
             r2 == c[2].rank
             r3 == c[3].rank
             r4 == c[4].rank
             r5 == c[5].rank
  <1>6. \A r : CountOf(h, r) = Among(r, r1, r2, r3, r4, r5)
    BY <1>3, CountOfFive DEF Has, Among
  <1>7. /\ r1 \in 2..14 /\ r2 \in 2..14 /\ r3 \in 2..14 /\ r4 \in 2..14 /\ r5 \in 2..14
    BY <1>4
  <1>8. ~(r1 = r2 /\ r2 = r3 /\ r3 = r4 /\ r4 = r5)
    <2> SUFFICES ASSUME r1 = r2, r2 = r3, r3 = r4, r4 = r5 PROVE FALSE
      OBVIOUS
    <2>1. \A i \in {1, 2, 3, 4, 5} : c[i].rank = c[1].rank
      OBVIOUS
    <2>2. \A i \in 1..5 : c[i].rank = c[1].rank
      BY <2>1
    <2> QED BY <1>3, <2>2, NoFiveOfAKind
  <1>9. FrequentFirst(r1, r2, r3, r4, r5)
    <2>1. /\ key[c[1]] >= key[c[2]] /\ key[c[2]] >= key[c[3]]
          /\ key[c[3]] >= key[c[4]] /\ key[c[4]] >= key[c[5]]
      BY <1>3
    <2>2. \A i \in {1, 2, 3, 4, 5} : key[c[i]] = KeyOf(c[i].rank, r1, r2, r3, r4, r5)
      BY <1>5, <1>6 DEF KeyOf
    <2> QED BY <2>1, <2>2 DEF FrequentFirst
  <1>10. \/ r1 = r2 /\ r2 = r3 /\ r3 = r4 /\ r5 # r1
         \/ r1 = r2 /\ r2 = r3 /\ r4 = r5 /\ r4 # r1
         \/ r1 = r2 /\ r2 = r3 /\ r4 > r5 /\ r4 # r1 /\ r5 # r1
         \/ r1 = r2 /\ r3 = r4 /\ r1 > r3 /\ r5 # r1 /\ r5 # r3
         \/ r1 = r2 /\ r3 > r4 /\ r4 > r5 /\ r3 # r1 /\ r4 # r1 /\ r5 # r1
         \/ r1 > r2 /\ r2 > r3 /\ r3 > r4 /\ r4 > r5
    <2> HIDE DEF r1, r2, r3, r4, r5
    <2> QED BY <1>7, <1>8, <1>9, FiveNumbers
  <1> QED BY <1>3, <1>10 DEF FourAndOne, ThreeAndTwo, ThreeAlone, TwoAndTwo, TwoAlone,
                             AllApart

-----------------------------------------------------------------------------
(* Values *)

(* The i-th significant card, and significant cards that are digits. *)
At(s, i) == IF i <= Len(s) THEN s[i] ELSE 0
AreDigits(s) == \A i \in 1..5 : At(s, i) \in Nat /\ At(s, i) < Radix

(* What the value of a hand is meant to compare. *)
Outranks(k, s, l, t) ==
  \/ k > l
  \/ /\ k = l
     /\ \E i \in 1..5 : At(s, i) > At(t, i) /\ \A j \in 1..(i - 1) : At(s, j) = At(t, j)

(* One more digit. *)
Shift(x, a) == x * Radix + a
DigitRule(x, y, a, b) ==
  /\ Shift(x, a) > Shift(y, b) <=> x > y \/ (x = y /\ a > b)
  /\ Shift(x, a) = Shift(y, b) <=> x = y /\ a = b
  /\ Shift(x, a) \in Nat /\ Shift(y, b) \in Nat
  /\ x > 0 => Shift(x, a) > 0

LEMMA OneDigit ==
  ASSUME NEW x \in Nat, NEW y \in Nat, NEW a \in Nat, NEW b \in Nat,
         a < Radix, b < Radix
  PROVE  DigitRule(x, y, a, b)
  <1>1. Radix \in Nat /\ Radix > 0
    BY RadixAssumption
  <1>2. \A u, v \in Nat : u > v => u * Radix >= v * Radix + Radix
    <2> SUFFICES ASSUME NEW u \in Nat, NEW v \in Nat, u > v
                 PROVE  u * Radix >= v * Radix + Radix
      OBVIOUS
    <2> DEFINE d == u - v - 1
    <2>1. d \in Nat /\ u = v + 1 + d
      OBVIOUS
    <2> HIDE DEF d
    <2>2. (v + 1 + d) * Radix = v * Radix + Radix + d * Radix /\ d * Radix \in Nat
      BY <1>1, <2>1
    <2>3. v * Radix \in Nat
      BY <1>1
    <2> QED BY <1>1, <2>1, <2>2, <2>3
  <1> DEFINE X == x * Radix
             Y == y * Radix
  <1>3. X \in Nat /\ Y \in Nat
    BY <1>1
  <1>4. /\ x > y => X >= Y + Radix
        /\ y > x => Y >= X + Radix
        /\ x = y => X = Y
        /\ x > 0 => X >= Radix
    BY <1>1, <1>2
  <1> HIDE DEF X, Y
  <1>5. /\ X + a > Y + b <=> x > y \/ (x = y /\ a > b)
        /\ X + a = Y + b <=> x = y /\ a = b
        /\ X + a \in Nat /\ Y + b \in Nat /\ (x > 0 => X + a > 0)
    BY <1>1, <1>3, <1>4
  <1> QED BY <1>5 DEF X, Y, Shift, DigitRule

(* The value compares the rank of the hand first and then the significant  *)
(* cards, one after the other.                                             *)
LEMMA ValueOrder ==
  ASSUME NEW k \in Nat, NEW l \in Nat, NEW s, AreDigits(s), NEW t, AreDigits(t)
  PROVE  /\ calculateHandValue(k, s) > calculateHandValue(l, t) <=> Outranks(k, s, l, t)
         /\ calculateHandValue(k, s) \in Nat
         /\ k > 0 => calculateHandValue(k, s) # 0
  <1> DEFINE a(i) == At(s, i)
             b(i) == At(t, i)
             x1 == Shift(k, a(1))
             x2 == Shift(x1, a(2))
             x3 == Shift(x2, a(3))
             x4 == Shift(x3, a(4))
             x5 == Shift(x4, a(5))
             y1 == Shift(l, b(1))
             y2 == Shift(y1, b(2))
             y3 == Shift(y2, b(3))
             y4 == Shift(y3, b(4))
             y5 == Shift(y4, b(5))
  <1>1. /\ a(1) \in Nat /\ a(1) < Radix /\ b(1) \in Nat /\ b(1) < Radix
        /\ a(2) \in Nat /\ a(2) < Radix /\ b(2) \in Nat /\ b(2) < Radix
        /\ a(3) \in Nat /\ a(3) < Radix /\ b(3) \in Nat /\ b(3) < Radix
        /\ a(4) \in Nat /\ a(4) < Radix /\ b(4) \in Nat /\ b(4) < Radix
        /\ a(5) \in Nat /\ a(5) < Radix /\ b(5) \in Nat /\ b(5) < Radix
    BY DEF AreDigits
  <1>2. calculateHandValue(k, s) = x5 /\ calculateHandValue(l, t) = y5
    BY DEF calculateHandValue, At, Shift
  <1>3. Outranks(k, s, l, t) <=>
          \/ k > l
          \/ k = l /\ a(1) > b(1)
          \/ k = l /\ a(1) = b(1) /\ a(2) > b(2)
          \/ k = l /\ a(1) = b(1) /\ a(2) = b(2) /\ a(3) > b(3)
          \/ k = l /\ a(1) = b(1) /\ a(2) = b(2) /\ a(3) = b(3) /\ a(4) > b(4)
          \/ /\ k = l /\ a(1) = b(1) /\ a(2) = b(2) /\ a(3) = b(3) /\ a(4) = b(4)
             /\ a(5) > b(5)
    <2>1. 1..5 = {1, 2, 3, 4, 5} /\ 1..4 = {1, 2, 3, 4} /\ 1..3 = {1, 2, 3}
          /\ 1..2 = {1, 2} /\ 1..1 = {1} /\ 1..0 = {}
      OBVIOUS
    <2> DEFINE P(i) == a(i) > b(i) /\ \A j \in 1..(i - 1) : a(j) = b(j)
    <2>2. /\ P(1) <=> a(1) > b(1)
          /\ P(2) <=> a(2) > b(2) /\ a(1) = b(1)
          /\ P(3) <=> a(3) > b(3) /\ a(1) = b(1) /\ a(2) = b(2)
          /\ P(4) <=> a(4) > b(4) /\ a(1) = b(1) /\ a(2) = b(2) /\ a(3) = b(3)
          /\ P(5) <=> /\ a(5) > b(5) /\ a(1) = b(1) /\ a(2) = b(2) /\ a(3) = b(3)
                      /\ a(4) = b(4)
      BY <2>1
    <2>3. Outranks(k, s, l, t) <=> k > l \/ (k = l /\ \E i \in {1, 2, 3, 4, 5} : P(i))
      BY <2>1 DEF Outranks
    <2>4. (\E i \in {1, 2, 3, 4, 5} : P(i)) <=> P(1) \/ P(2) \/ P(3) \/ P(4) \/ P(5)
      OBVIOUS
    <2> HIDE DEF P, a, b
    <2> QED BY <2>2, <2>3, <2>4
  <1> HIDE DEF a, b
  <1>4. /\ x1 > y1 <=> k > l \/ (k = l /\ a(1) > b(1))
        /\ x1 = y1 <=> k = l /\ a(1) = b(1)
        /\ x1 \in Nat /\ y1 \in Nat /\ (k > 0 => x1 > 0)
    <2>1. DigitRule(k, l, a(1), b(1))
      BY <1>1, OneDigit
    <2> QED BY <2>1 DEF DigitRule
  <1> HIDE DEF x1, y1
  <1>5. /\ x2 > y2 <=> x1 > y1 \/ (x1 = y1 /\ a(2) > b(2))
        /\ x2 = y2 <=> x1 = y1 /\ a(2) = b(2)
        /\ x2 \in Nat /\ y2 \in Nat /\ (x1 > 0 => x2 > 0)
    <2>1. DigitRule(x1, y1, a(2), b(2))
      BY <1>1, <1>4, OneDigit
    <2> QED BY <2>1 DEF DigitRule
  <1> HIDE DEF x2, y2
  <1>6. /\ x3 > y3 <=> x2 > y2 \/ (x2 = y2 /\ a(3) > b(3))
        /\ x3 = y3 <=> x2 = y2 /\ a(3) = b(3)
        /\ x3 \in Nat /\ y3 \in Nat /\ (x2 > 0 => x3 > 0)
    <2>1. DigitRule(x2, y2, a(3), b(3))
      BY <1>1, <1>5, OneDigit
    <2> QED BY <2>1 DEF DigitRule
  <1> HIDE DEF x3, y3
  <1>7. /\ x4 > y4 <=> x3 > y3 \/ (x3 = y3 /\ a(4) > b(4))
        /\ x4 = y4 <=> x3 = y3 /\ a(4) = b(4)
        /\ x4 \in Nat /\ y4 \in Nat /\ (x3 > 0 => x4 > 0)
    <2>1. DigitRule(x3, y3, a(4), b(4))
      BY <1>1, <1>6, OneDigit
    <2> QED BY <2>1 DEF DigitRule
  <1> HIDE DEF x4, y4
  <1>8. /\ x5 > y5 <=> x4 > y4 \/ (x4 = y4 /\ a(5) > b(5))
        /\ x5 = y5 <=> x4 = y4 /\ a(5) = b(5)
        /\ x5 \in Nat /\ y5 \in Nat /\ (x4 > 0 => x5 > 0)
    <2>1. DigitRule(x4, y4, a(5), b(5))
      BY <1>1, <1>7, OneDigit
    <2> QED BY <2>1 DEF DigitRule
  <1> HIDE DEF x5, y5
  <1>9. calculateHandValue(k, s) > calculateHandValue(l, t) <=> Outranks(k, s, l, t)
    BY <1>2, <1>3, <1>4, <1>5, <1>6, <1>7, <1>8
  <1>10. k > 0 => x5 # 0
    BY <1>4, <1>5, <1>6, <1>7, <1>8
  <1> QED BY <1>2, <1>8, <1>9, <1>10

(* How many cards of a hand the rules compare. *)
Compared(k) ==
  CASE k \in {5, 9} -> 1
    [] k \in {7, 8} -> 2
    [] k \in {3, 4} -> 3
    [] k = 2        -> 4
    [] OTHER        -> 5

(* A strength as the rules have it: a category and ranks. *)
IsStrength(k, s) ==
  /\ k \in 1..9 /\ s \in Seq(2..14) /\ Len(s) = Compared(k)
  /\ \A i \in 1..Len(s) : s[i] < Radix

LEMMA StrengthDigits ==
  ASSUME NEW k, NEW s, IsStrength(k, s)
  PROVE  AreDigits(s) /\ k \in Nat /\ k > 0 /\ Len(s) \in 1..5
  <1>1. Len(s) \in 1..5
    BY DEF IsStrength, Compared
  <1>2. \A i \in 1..Len(s) : s[i] \in Nat /\ s[i] >= 2 /\ s[i] < Radix
    BY DEF IsStrength
  <1>3. Radix > 0 /\ Radix \in Nat
    BY <1>1, <1>2, RadixAssumption
  <1>4. \A i \in 1..5 : At(s, i) \in Nat /\ At(s, i) < Radix
    BY <1>1, <1>2, <1>3 DEF At
  <1> QED BY <1>1, <1>4 DEF AreDigits, IsStrength

(* The rules compare two strengths as the values are meant to. *)
LEMMA BeatsOrder ==
  ASSUME NEW k, NEW s, IsStrength(k, s), NEW l, NEW t, IsStrength(l, t)
  PROVE  Beats(<<k>> \o s, <<l>> \o t) <=> Outranks(k, s, l, t)
  <1> DEFINE u == <<k>> \o s
             v == <<l>> \o t
             m == Len(s)
             n == Len(t)
  <1>1. /\ k \in Nat /\ l \in Nat /\ m \in 1..5 /\ n \in 1..5 /\ (k = l => m = n)
        /\ s \in Seq(Nat) /\ t \in Seq(Nat)
    <2>1. k \in Nat /\ l \in Nat /\ m \in 1..5 /\ n \in 1..5
      BY StrengthDigits
    <2>2. k = l => m = n
      BY DEF IsStrength
    <2>3. s \in Seq(2..14) /\ t \in Seq(2..14) /\ 2..14 \subseteq Nat
      BY DEF IsStrength
    <2>4. s \in Seq(Nat) /\ t \in Seq(Nat)
      BY <2>3, SeqMonotonic
    <2> QED BY <2>1, <2>2, <2>4
  <1>2. /\ DOMAIN u = 1..(m + 1) /\ u[1] = k /\ \A i \in 1..m : u[i + 1] = s[i]
        /\ DOMAIN v = 1..(n + 1) /\ v[1] = l /\ \A i \in 1..n : v[i + 1] = t[i]
    BY <1>1
  <1>3. \A i \in 1..m : s[i] \in Nat /\ At(s, i) = s[i]
    BY <1>1 DEF At
  <1>4. \A i \in 1..n : t[i] \in Nat /\ At(t, i) = t[i]
    BY <1>1 DEF At
  <1>5. \A i \in 1..5 : (i > m => At(s, i) = 0) /\ (i > n => At(t, i) = 0)
    BY <1>1 DEF At
  <1> HIDE DEF u, v, m, n
  <1>6. ASSUME Beats(u, v) PROVE Outranks(k, s, l, t)
    <2>1. PICK i \in DOMAIN u \cap DOMAIN v :
            u[i] > v[i] /\ \A j \in 1..(i - 1) : u[j] = v[j]
      BY <1>6 DEF Beats
    <2>2. i \in 1..(m + 1) /\ i \in 1..(n + 1)
      BY <1>2
    <2>3. CASE i = 1
      <3>1. u[1] > v[1]
        BY <2>1, <2>3
      <3>2. k > l
        BY <1>2, <3>1
      <3> QED BY <3>2 DEF Outranks
    <2>4. CASE i # 1
      <3> DEFINE h == i - 1
      <3>0. /\ i \in Int /\ m \in Int /\ n \in Int /\ m <= 5 /\ 1 <= i /\ i # 1
            /\ i <= m + 1 /\ i <= n + 1
        BY <1>1, <2>2, <2>4
      <3>1. h \in 1..m /\ h \in 1..n /\ i = h + 1 /\ h \in 1..5
        BY <3>0
      <3> HIDE DEF h
      <3>2. k = l
        <4>1. 1 \in 1..(i - 1)
          BY <3>1
        <4> QED BY <1>2, <2>1, <4>1
      <3>3. s[h] > t[h]
        BY <1>2, <2>1, <3>1
      <3>4. ASSUME NEW j \in 1..(h - 1) PROVE At(s, j) = At(t, j)
        <4>1. j \in 1..m /\ j \in 1..n /\ j + 1 \in 1..(i - 1)
          BY <1>1, <3>1
        <4>2. u[j + 1] = v[j + 1]
          BY <2>1, <4>1
        <4>3. u[j + 1] = s[j] /\ v[j + 1] = t[j]
          BY <1>2, <4>1
        <4> QED BY <1>3, <1>4, <4>1, <4>2, <4>3
      <3>5. At(s, h) > At(t, h)
        BY <1>3, <1>4, <3>1, <3>3
      <3> QED BY <3>1, <3>2, <3>4, <3>5 DEF Outranks
    <2> QED BY <2>3, <2>4
  <1>7. ASSUME Outranks(k, s, l, t) PROVE Beats(u, v)
    <2>1. CASE k > l
      <3>1. 1 \in DOMAIN u \cap DOMAIN v /\ u[1] > v[1] /\ 1..(1 - 1) = {}
        BY <1>1, <1>2, <2>1
      <3> QED BY <3>1 DEF Beats
    <2>2. CASE ~(k > l)
      <3>1. PICK i \in 1..5 : At(s, i) > At(t, i) /\ \A j \in 1..(i - 1) : At(s, j) = At(t, j)
        BY <1>7, <2>2 DEF Outranks
      <3>2. k = l /\ m = n
        BY <1>1, <1>7, <2>2 DEF Outranks
      <3>3. i \in 1..m
        BY <1>1, <1>5, <3>1, <3>2
      <3>4. i + 1 \in DOMAIN u \cap DOMAIN v /\ u[i + 1] > v[i + 1]
        BY <1>1, <1>2, <1>3, <1>4, <3>1, <3>2, <3>3
      <3>5. ASSUME NEW j \in 1..((i + 1) - 1) PROVE u[j] = v[j]
        <4>1. CASE j = 1
          BY <1>2, <3>2, <4>1
        <4>2. CASE j # 1
          <5> DEFINE h == j - 1
          <5>1. h \in 1..(i - 1) /\ h \in 1..m /\ h \in 1..n /\ j = h + 1
            BY <1>1, <3>2, <3>3, <4>2
          <5> HIDE DEF h
          <5>2. s[h] = t[h]
            BY <1>3, <1>4, <3>1, <5>1
          <5> QED BY <1>2, <5>1, <5>2
        <4> QED BY <4>1, <4>2
      <3> QED BY <3>4, <3>5 DEF Beats
    <2> QED BY <2>1, <2>2
  <1> QED BY <1>6, <1>7 DEF u, v

-----------------------------------------------------------------------------
(* The checks *)

Checks(h) ==
  <<checkRoyalFlush(h), checkStraightFlush(h), checkFourOfAKind(h), checkFullHouse(h),
    checkFlush(h), checkStraight(h), checkThreeOfAKind(h), checkTwoPair(h),
    checkOnePair(h), checkHighCard(h)>>

(* The first check that does not fail makes the value. *)
LEMMA FirstCheck ==
  ASSUME NEW h, NEW k \in 1..10, Checks(h)[k] # NoHand,
         \A j \in 1..10 : j < k => Checks(h)[j] = NoHand
  PROVE  evaluateFiveCardHand(h) = Checks(h)[k]
  <1> DEFINE S == {i \in 1..Len(Checks(h)) : Checks(h)[i] # NoHand}
  <1>1. Len(Checks(h)) = 10
    BY DEF Checks
  <1>2. S \in SUBSET Nat /\ k \in S /\ \A i \in S : k <= i
    BY <1>1
  <1>3. evaluateFiveCardHand(h) = Checks(h)[Min(S)]
    BY DEF evaluateFiveCardHand, Checks
  <1> HIDE DEF S
  <1>4. Min(S) \in S /\ \A y \in S : Min(S) <= y
    BY <1>2, MinNatural
  <1>5. Min(S) = k
    <2> DEFINE m == Min(S)
    <2>1. m \in Nat /\ k \in Nat /\ m <= k /\ k <= m
      BY <1>2, <1>4
    <2> HIDE DEF m
    <2>2. m = k
      BY <2>1
    <2> QED BY <2>2 DEF m
  <1> QED BY <1>3, <1>5

(* The ranks of a hand that are the last of its listing. *)
LEMMA KickersAre ==
  ASSUME NEW h, IsHand(h), NEW c, Listing(c, 5, h), NEW m \in 0..5, NEW Q,
         \A i \in 1..5 : c[i].rank \in Q <=> i <= m,
         \A i, j \in 1..5 : m < i /\ i < j => c[i].rank >= c[j].rank
  PROVE  Kickers(h, Q) = [i \in 1..(5 - m) |-> c[i + m].rank]
  <1> DEFINE S == {x \in h : x.rank \notin Q}
             n == 5 - m
             d == [i \in 1..n |-> c[i + m]]
  <1>1. n \in Nat /\ \A i \in 1..n : i + m \in 1..5 /\ ~(i + m <= m)
    OBVIOUS
  <1>2. \A i \in 1..5 : c[i] \in h
    BY ListedHand
  <1>3. \A x \in S : x.rank \in Nat
    BY CardsOfHand
  <1>4. d \in [1..n -> S]
    BY <1>1, <1>2
  <1>5. \A i, j \in 1..n : d[i] = d[j] => i = j
    <2> SUFFICES ASSUME NEW i \in 1..n, NEW j \in 1..n, d[i] = d[j] PROVE i = j
      OBVIOUS
    <2>1. c[i + m] = c[j + m]
      OBVIOUS
    <2>2. i + m = j + m
      BY <1>1, <2>1 DEF Listing
    <2> QED BY <2>2
  <1>6. ASSUME NEW x \in S PROVE \E i \in 1..n : d[i] = x
    <2>1. PICK j \in 1..5 : c[j] = x
      BY DEF Listing
    <2>2. ~(j <= m)
      BY <2>1
    <2>3. j - m \in 1..n /\ (j - m) + m = j
      BY <2>2
    <2> QED BY <2>1, <2>3
  <1>7. Listing(d, n, S)
    BY <1>4, <1>5, <1>6 DEF Listing
  <1>8. \A i \in 1..n : d[i].rank = c[i + m].rank
    OBVIOUS
  <1>9. Falling(d, n)
    <2> SUFFICES ASSUME NEW i \in 1..n, NEW j \in 1..n, i < j
                 PROVE  d[i].rank >= d[j].rank
      BY DEF Falling
    <2>1. m < i + m /\ i + m < j + m /\ i + m \in 1..5 /\ j + m \in 1..5
      OBVIOUS
    <2>2. c[i + m].rank >= c[j + m].rank
      BY <2>1
    <2> QED BY <2>2
  <1> HIDE DEF S, d
  <1>10. SortedRanks(S) = RanksIn(d, n)
    <2> HIDE DEF n
    <2> QED BY <1>1, <1>3, <1>7, <1>9, SortedRanksAre
  <1>11. Kickers(h, Q) = SortedRanks(S)
    BY DEF Kickers, S
  <1> QED BY <1>8, <1>10, <1>11 DEF RanksIn

(* The cards of a hand by their ranks. *)
LEMMA RanksInOrder ==
  ASSUME NEW h, IsHand(h)
  PROVE  \E d : /\ Listing(d, 5, h) /\ Falling(d, 5)
                /\ SortedRanks(h) = RanksIn(d, 5)
  <1> DEFINE key == [x \in h |-> x.rank]
  <1>1. \A x \in h : key[x] \in Nat /\ key[x] = x.rank
    BY CardsOfHand
  <1> HIDE DEF key
  <1>2. PICK d : /\ Listing(d, 5, h)
                 /\ \A i, j \in 1..5 : i < j => key[d[i]] >= key[d[j]]
    BY <1>1, FiveInOrder DEF IsHand
  <1>3. \A i \in 1..5 : key[d[i]] = d[i].rank
    BY <1>1, <1>2 DEF Listing
  <1>4. Falling(d, 5)
    BY <1>2, <1>3 DEF Falling
  <1>5. \A x \in h : x.rank \in Nat
    BY CardsOfHand
  <1>6. SortedRanks(h) = RanksIn(d, 5)
    BY <1>2, <1>4, <1>5, SortedRanksAre
  <1> QED BY <1>2, <1>4, <1>6

(* Two cards of one rank make neither a flush nor a straight. *)
LEMMA PairedHand ==
  ASSUME NEW h, IsHand(h), NEW x \in h, NEW y \in h, x # y, x.rank = y.rank
  PROVE  ~isFlush(h) /\ ~isStraight(h) /\ ~Suited(h)
  <1>1. x.suit # y.suit
    <2>1. /\ x = [rank |-> x.rank, suit |-> x.suit]
          /\ y = [rank |-> y.rank, suit |-> y.suit]
      BY CardsOfHand
    <2> QED BY <2>1
  <1>2. ~isFlush(h)
    BY <1>1 DEF isFlush
  <1>3. ~Suited(h)
    <2> DEFINE T == {z.suit : z \in h}
    <2>1. x.suit \in T /\ y.suit \in T
      OBVIOUS
    <2> HIDE DEF T
    <2>2. ASSUME Cardinality(T) = 1, IsFiniteSet(T) PROVE FALSE
      <3>1. \E z \in T : T = {z}
        BY <2>2, FS_Singleton, Zenon
      <3> QED BY <1>1, <2>1, <3>1
    <2>3. IsFiniteSet(T)
      <3>1. T \in SUBSET Suits
        BY CardsOfHand DEF T
      <3> QED BY <3>1, DeckAssumption, FS_Subset
    <2>4. Suited(h) <=> Cardinality(T) = 1
      BY DEF Suited, T
    <2> QED BY <2>2, <2>3, <2>4
  <1>4. ~isStraight(h)
    <2>1. PICK d : /\ Listing(d, 5, h) /\ Falling(d, 5)
                   /\ SortedRanks(h) = RanksIn(d, 5)
      BY RanksInOrder
    <2>2. PICK i \in 1..5 : d[i] = x
      BY <2>1 DEF Listing
    <2>3. PICK j \in 1..5 : d[j] = y
      BY <2>1 DEF Listing
    <2>4. i # j /\ d[i].rank = d[j].rank
      BY <2>2, <2>3
    <2>5. \A n \in {1, 2, 3, 4, 5} : d[n].rank \in Nat
      BY <2>1, ListedHand
    <2> DEFINE r == SortedRanks(h)
    <2>6. Len(r) = 5 /\ \A n \in {1, 2, 3, 4, 5} : r[n] = d[n].rank
      BY <2>1 DEF RanksIn
    <2> HIDE DEF r
    <2>7. ASSUME \A n \in 2..Len(r) : r[n] + 1 = r[n - 1] PROVE FALSE
      <3>1. /\ r[2] + 1 = r[1] /\ r[3] + 1 = r[2] /\ r[4] + 1 = r[3] /\ r[5] + 1 = r[4]
        BY <2>6, <2>7
      <3>2. i \in {1, 2, 3, 4, 5} /\ j \in {1, 2, 3, 4, 5}
        OBVIOUS
      <3> QED BY <2>4, <2>5, <2>6, <3>1, <3>2
    <2>8. ASSUME r = <<Ace, 5, 4, 3, 2>> PROVE FALSE
      <3>1. r[1] = 14 /\ r[2] = 5 /\ r[3] = 4 /\ r[4] = 3 /\ r[5] = 2
        BY <2>8 DEF Ace
      <3>2. i \in {1, 2, 3, 4, 5} /\ j \in {1, 2, 3, 4, 5}
        OBVIOUS
      <3> QED BY <2>4, <2>6, <3>1, <3>2
    <2> QED BY <2>7, <2>8 DEF isStraight, isAceLowStraight, r
  <1> QED BY <1>2, <1>3, <1>4

-----------------------------------------------------------------------------
(* The shapes, as the code and as the rules see them *)

(* The ranks the rules compare in hands of one category. *)
Detail(h) ==
  IF ~Connected(h) THEN Groups(h)
  ELSE IF Wheel(h) THEN << 5 >> ELSE <<Max(RanksOf(h))>>

(* The value of a hand whose category is k and that is compared by s. *)
ValueOf(k, s) ==
  IF k = StraightFlush /\ s = <<Ace>>
  THEN calculateHandValue(RoyalFlush, <<Ace, 13, 12, 11, 10>>)
  ELSE calculateHandValue(k, s)

(* The code and the rules agree on a hand. *)
Judged(h, k, s) ==
  /\ IsStrength(k, s) /\ Category(h) = k /\ Detail(h) = s
  /\ evaluateFiveCardHand(h) = ValueOf(k, s)

LEMMA ExtremesOfOne ==
  ASSUME NEW a \in Int
  PROVE  Max({a}) = a /\ Min({a}) = a
  BY DEF Max, Min

LEMMA ExtremesOfTwo ==
  ASSUME NEW a \in Int, NEW b \in Int, a > b
  PROVE  Max({a, b}) = a /\ Min({a, b}) = b
  <1>1. \A x \in {a, b} : (\A y \in {a, b} : x >= y) <=> x = a
    OBVIOUS
  <1>2. \A x \in {a, b} : (\A y \in {a, b} : x =< y) <=> x = b
    OBVIOUS
  <1> QED BY <1>1, <1>2 DEF Max, Min

(* u is what s and t make together. *)
Appended(s, t, u) ==
  /\ Len(u) = Len(s) + Len(t)
  /\ \A i \in 1..Len(s) : u[i] = s[i]
  /\ \A i \in 1..Len(t) : u[i + Len(s)] = t[i]

LEMMA Joined ==
  ASSUME NEW s \in Seq(Int), NEW t \in Seq(Int), NEW u \in Seq(Int), Appended(s, t, u)
  PROVE  s \o t = u
  <1> USE DEF Appended
  <1> DEFINE m == Len(s)
             n == Len(t)
             v == s \o t
  <1>1. m \in Nat /\ n \in Nat
    OBVIOUS
  <1>2. /\ v \in Seq(Int) /\ u \in Seq(Int) /\ Len(v) = m + n /\ Len(u) = m + n
    OBVIOUS
  <1>3. ASSUME NEW i \in 1..(m + n) PROVE v[i] = u[i]
    <2>1. CASE i <= m
      BY <1>1, <2>1
    <2>2. CASE i > m
      <3>1. i - m \in 1..n /\ (i - m) + m = i
        BY <1>1, <2>2
      <3>2. u[i] = t[i - m]
         BY <3>1
      <3> QED BY <1>1, <2>2, <3>1, <3>2
    <2> QED BY <1>1, <2>1, <2>2
  <1> HIDE DEF v
  <1>4. v = u
    BY <1>1, <1>2, <1>3, SeqEqual
  <1> QED BY <1>4 DEF v

LEMMA OneAndOne ==
  ASSUME NEW a \in Int, NEW b \in Int
  PROVE  <<a>> \o <<b>> = <<a, b>>
  <1> DEFINE s == <<a>>
             t == <<b>>
             u == <<a, b>>
  <1>1. /\ s \in Seq(Int) /\ Len(s) = 1 /\ s[1] = a
        /\ t \in Seq(Int) /\ Len(t) = 1 /\ t[1] = b
        /\ u \in Seq(Int) /\ Len(u) = 2 /\ u[1] = a /\ u[2] = b
    OBVIOUS
  <1> HIDE DEF s, t, u
  <1>2. Appended(s, t, u)
    BY <1>1 DEF Appended
  <1>3. s \o t = u
    BY <1>1, <1>2, Joined
  <1> QED BY <1>3 DEF s, t, u

LEMMA OneAndTwo ==
  ASSUME NEW a \in Int, NEW b \in Int, NEW d \in Int
  PROVE  <<a>> \o <<b, d>> = <<a, b, d>>
  <1> DEFINE s == <<a>>
             t == <<b, d>>
             u == <<a, b, d>>
  <1>1. /\ s \in Seq(Int) /\ Len(s) = 1 /\ s[1] = a
        /\ t \in Seq(Int) /\ Len(t) = 2 /\ t[1] = b /\ t[2] = d
        /\ u \in Seq(Int) /\ Len(u) = 3 /\ u[1] = a /\ u[2] = b /\ u[3] = d
    OBVIOUS
  <1> HIDE DEF s, t, u
  <1>2. Appended(s, t, u)
    BY <1>1 DEF Appended
  <1>3. s \o t = u
    BY <1>1, <1>2, Joined
  <1> QED BY <1>3 DEF s, t, u

LEMMA OneAndThree ==
  ASSUME NEW a \in Int, NEW b \in Int, NEW d \in Int, NEW e \in Int
  PROVE  <<a>> \o <<b, d, e>> = <<a, b, d, e>>
  <1> DEFINE s == <<a>>
             t == <<b, d, e>>
             u == <<a, b, d, e>>
  <1>1. /\ s \in Seq(Int) /\ Len(s) = 1 /\ s[1] = a
        /\ t \in Seq(Int) /\ Len(t) = 3 /\ t[1] = b /\ t[2] = d /\ t[3] = e
        /\ u \in Seq(Int) /\ Len(u) = 4 /\ u[1] = a /\ u[2] = b /\ u[3] = d /\ u[4] = e
    OBVIOUS
  <1> HIDE DEF s, t, u
  <1>2. Appended(s, t, u)
    BY <1>1 DEF Appended
  <1>3. s \o t = u
    BY <1>1, <1>2, Joined
  <1> QED BY <1>3 DEF s, t, u

LEMMA TwoAndOne ==
  ASSUME NEW a \in Int, NEW b \in Int, NEW d \in Int
  PROVE  <<a, b>> \o <<d>> = <<a, b, d>>
  <1> DEFINE s == <<a, b>>
             t == <<d>>
             u == <<a, b, d>>
  <1>1. /\ s \in Seq(Int) /\ Len(s) = 2 /\ s[1] = a /\ s[2] = b
        /\ t \in Seq(Int) /\ Len(t) = 1 /\ t[1] = d
        /\ u \in Seq(Int) /\ Len(u) = 3 /\ u[1] = a /\ u[2] = b /\ u[3] = d
    OBVIOUS
  <1> HIDE DEF s, t, u
  <1>2. Appended(s, t, u)
    BY <1>1 DEF Appended
  <1>3. s \o t = u
    BY <1>1, <1>2, Joined
  <1> QED BY <1>3 DEF s, t, u

LEMMA OfCountIs ==
  ASSUME NEW h, NEW n
  PROVE  OfCount(h, n) = {r \in RanksOf(h) : CountOf(h, r) = n}
  BY DEF OfCount, getRankCounts, CountOf

(* Ranks of a hand are a strength. *)
LEMMA StrengthOfRanks ==
  ASSUME NEW h, IsHand(h), NEW k \in 1..9, NEW s \in Seq(RanksOf(h)),
         Len(s) = Compared(k)
  PROVE  IsStrength(k, s)
  <1>1. RanksOf(h) \subseteq 2..14 /\ RanksOf(h) \subseteq Ranks
    BY CardsOfHand DEF RanksOf
  <1>2. \A i \in 1..Len(s) : s[i] \in RanksOf(h)
    OBVIOUS
  <1>3. s \in Seq(2..14)
    BY <1>1
  <1>4. \A i \in 1..Len(s) : s[i] < Radix
    BY <1>1, <1>2, RadixAssumption
  <1> QED BY <1>3, <1>4 DEF IsStrength

(* The check that makes the value, when it is not the one for a royal      *)
(* flush.                                                                  *)
LEMMA CheckMakes ==
  ASSUME NEW h, NEW k, NEW s, IsStrength(k, s), ~(k = 9 /\ s = << 14 >>),
         NEW i \in 1..10, Checks(h)[i] = calculateHandValue(k, s),
         \A j \in 1..10 : j < i => Checks(h)[j] = NoHand
  PROVE  evaluateFiveCardHand(h) = ValueOf(k, s)
  <1>1. AreDigits(s) /\ k \in Nat /\ k > 0
    BY StrengthDigits
  <1>2. calculateHandValue(k, s) # 0
    BY <1>1, ValueOrder
  <1>3. Checks(h)[i] # NoHand
    BY <1>2 DEF NoHand
  <1>4. evaluateFiveCardHand(h) = Checks(h)[i]
    BY <1>3, FirstCheck
  <1> QED BY <1>4 DEF ValueOf, StraightFlush, Ace

(* A hand with a pair: its groups are what the rules compare, and only the *)
(* checks that count ranks may succeed.                                    *)
LEMMA Paired ==
  ASSUME NEW h, IsHand(h), NEW c, Listing(c, 5, h), c[1].rank = c[2].rank,
         NEW m \in 1..4, NEW g, Listing(g, m, RanksOf(h)),
         \A i, j \in 1..m : i < j => Ahead(h, g[i], g[j])
  PROVE  /\ Groups(h) = g /\ Detail(h) = g /\ ~Connected(h) /\ ~Suited(h)
         /\ Checks(h)[1] = NoHand /\ Checks(h)[2] = NoHand
         /\ Checks(h)[5] = NoHand /\ Checks(h)[6] = NoHand
  <1>1. c[1] \in h /\ c[2] \in h /\ c[1] # c[2]
    BY DEF Listing
  <1>2. ~isFlush(h) /\ ~isStraight(h) /\ ~Suited(h)
    BY <1>1, PairedHand
  <1>3. Groups(h) = g
    <2>1. \A x \in h : x.rank \in Nat
      BY CardsOfHand
    <2>2. \A r \in RanksOf(h) : CountOf(h, r) \in Nat
      BY CountOfFive
    <2>3. Groups(h) = [i \in 1..m |-> g[i]]
      BY <2>1, <2>2, GroupsAre
    <2>4. g = [i \in 1..m |-> g[i]]
      BY DEF Listing
    <2> QED BY <2>3, <2>4
  <1>4. ~Connected(h)
    <2>1. Cardinality(RanksOf(h)) = m /\ m # 5
      BY ListingCount
    <2> QED BY <2>1 DEF Connected
  <1>5. /\ Checks(h)[1] = NoHand /\ Checks(h)[2] = NoHand
        /\ Checks(h)[5] = NoHand /\ Checks(h)[6] = NoHand
    <2>1. /\ checkRoyalFlush(h) = NoHand /\ checkStraightFlush(h) = NoHand
          /\ checkFlush(h) = NoHand /\ checkStraight(h) = NoHand
      BY <1>2 DEF checkRoyalFlush, checkStraightFlush, checkFlush, checkStraight,
                  isRoyalFlush, isStraightFlush
    <2> QED BY <2>1 DEF Checks
  <1> QED BY <1>2, <1>3, <1>4, <1>5 DEF Detail

LEMMA JudgedFourOfAKind ==
  ASSUME NEW h, IsHand(h), NEW c, Listing(c, 5, h), FourAndOne(c)
  PROVE  Judged(h, 8, <<c[1].rank, c[5].rank>>)
  <1> DEFINE a == c[1].rank
             b == c[5].rank
             g == <<a, b>>
  <1>1. /\ c[1].rank = a /\ c[2].rank = a /\ c[3].rank = a /\ c[4].rank = a
        /\ c[5].rank = b /\ a # b /\ a \in 2..14 /\ b \in 2..14
    BY ListedHand DEF FourAndOne
  <1>2. RanksOf(h) = {a, b}
    BY <1>1, ListedHand
  <1> HIDE DEF a, b
  <1>3. CountOf(h, a) = 4 /\ CountOf(h, b) = 1
    BY <1>1, CountOfFive DEF Has
  <1>4. Listing(g, 2, RanksOf(h)) /\ \A i, j \in 1..2 : i < j => Ahead(h, g[i], g[j])
    BY <1>1, <1>2, <1>3 DEF Listing, Ahead
  <1> HIDE DEF g
  <1>5. /\ Groups(h) = g /\ Detail(h) = g /\ ~Connected(h) /\ ~Suited(h)
        /\ Checks(h)[1] = NoHand /\ Checks(h)[2] = NoHand
    BY <1>1, <1>4, Paired
  <1>6. Checks(h)[3] = calculateHandValue(8, g)
    <2>1. OfCount(h, 4) = {a}
      BY <1>1, <1>2, <1>3, OfCountIs
    <2>2. FirstOf(h, 4) = a
      <3>1. a \in Int
        BY <1>1
      <3> QED BY <2>1, <3>1, ExtremesOfOne DEF FirstOf
    <2>3. Kickers(h, {a}) = [i \in 1..(5 - 4) |-> c[i + 4].rank]
      <3>1. \A i \in 1..5 : c[i].rank \in {a} <=> i <= 4
        BY <1>1
      <3>2. \A i, j \in 1..5 : 4 < i /\ i < j => c[i].rank >= c[j].rank
        OBVIOUS
      <3> QED BY <3>1, <3>2, KickersAre
    <2>4. Kickers(h, {a}) = <<b>>
      BY <1>1, <2>3
    <2>5. <<a>> \o <<b>> = g
      BY <1>1, OneAndOne DEF g
    <2> QED BY <2>1, <2>2, <2>4, <2>5 DEF Checks, checkFourOfAKind, FourOfAKind
  <1>7. IsStrength(8, g)
    <2>1. g \in Seq(RanksOf(h)) /\ Len(g) = Compared(8)
      BY <1>2 DEF g, Compared
    <2> QED BY <2>1, StrengthOfRanks
  <1>8. Category(h) = 8
    BY <1>3, <1>5 DEF Category, g
  <1>9. evaluateFiveCardHand(h) = ValueOf(8, g)
    <2>1. \A j \in 1..10 : j < 3 => Checks(h)[j] = NoHand
      BY <1>5
    <2> QED BY <1>6, <1>7, <2>1, CheckMakes
  <1> QED BY <1>5, <1>7, <1>8, <1>9 DEF Judged, g, a, b

LEMMA JudgedFullHouse ==
  ASSUME NEW h, IsHand(h), NEW c, Listing(c, 5, h), ThreeAndTwo(c)
  PROVE  Judged(h, 7, <<c[1].rank, c[4].rank>>)
  <1> DEFINE a == c[1].rank
             b == c[4].rank
             g == <<a, b>>
  <1>1. /\ c[1].rank = a /\ c[2].rank = a /\ c[3].rank = a /\ c[4].rank = b
        /\ c[5].rank = b /\ a # b /\ a \in 2..14 /\ b \in 2..14
    BY ListedHand DEF ThreeAndTwo
  <1>2. RanksOf(h) = {a, b}
    BY <1>1, ListedHand
  <1> HIDE DEF a, b
  <1>3. CountOf(h, a) = 3 /\ CountOf(h, b) = 2
    BY <1>1, CountOfFive DEF Has
  <1>4. Listing(g, 2, RanksOf(h)) /\ \A i, j \in 1..2 : i < j => Ahead(h, g[i], g[j])
    BY <1>1, <1>2, <1>3 DEF Listing, Ahead
  <1> HIDE DEF g
  <1>5. /\ Groups(h) = g /\ Detail(h) = g /\ ~Connected(h) /\ ~Suited(h)
        /\ Checks(h)[1] = NoHand /\ Checks(h)[2] = NoHand
        /\ Checks(h)[5] = NoHand /\ Checks(h)[6] = NoHand
    BY <1>1, <1>4, Paired
  <1>6. OfCount(h, 4) = {} /\ OfCount(h, 3) = {a} /\ OfCount(h, 2) = {b}
    BY <1>1, <1>2, <1>3, OfCountIs
  <1>7. Checks(h)[3] = NoHand /\ Checks(h)[4] = calculateHandValue(7, g)
    <2>1. FirstOf(h, 3) = a /\ FirstOf(h, 2) = b
      BY <1>1, <1>6, ExtremesOfOne DEF FirstOf
    <2> QED BY <1>6, <2>1 DEF Checks, checkFourOfAKind, checkFullHouse, FullHouse, g
  <1>8. IsStrength(7, g)
    <2>1. g \in Seq(RanksOf(h)) /\ Len(g) = Compared(7)
      BY <1>2 DEF g, Compared
    <2> QED BY <2>1, StrengthOfRanks
  <1>9. Category(h) = 7
    BY <1>3, <1>5 DEF Category, g
  <1>10. evaluateFiveCardHand(h) = ValueOf(7, g)
    <2>1. \A j \in 1..10 : j < 4 => Checks(h)[j] = NoHand
      BY <1>5, <1>7
    <2> QED BY <1>7, <1>8, <2>1, CheckMakes
  <1> QED BY <1>5, <1>8, <1>9, <1>10 DEF Judged, g, a, b

LEMMA JudgedThreeOfAKind ==
  ASSUME NEW h, IsHand(h), NEW c, Listing(c, 5, h), ThreeAlone(c)
  PROVE  Judged(h, 4, <<c[1].rank, c[4].rank, c[5].rank>>)
  <1> DEFINE a == c[1].rank
             b == c[4].rank
             d == c[5].rank
             g == <<a, b, d>>
  <1>1. /\ c[1].rank = a /\ c[2].rank = a /\ c[3].rank = a /\ c[4].rank = b
        /\ c[5].rank = d /\ a # b /\ a # d /\ b > d
        /\ a \in 2..14 /\ b \in 2..14 /\ d \in 2..14
    BY ListedHand DEF ThreeAlone
  <1>2. RanksOf(h) = {a, b, d}
    BY <1>1, ListedHand
  <1> HIDE DEF a, b, d
  <1>3. CountOf(h, a) = 3 /\ CountOf(h, b) = 1 /\ CountOf(h, d) = 1
    BY <1>1, CountOfFive DEF Has
  <1>4. Listing(g, 3, RanksOf(h)) /\ \A i, j \in 1..3 : i < j => Ahead(h, g[i], g[j])
    BY <1>1, <1>2, <1>3 DEF Listing, Ahead
  <1> HIDE DEF g
  <1>5. /\ Groups(h) = g /\ Detail(h) = g /\ ~Connected(h) /\ ~Suited(h)
        /\ Checks(h)[1] = NoHand /\ Checks(h)[2] = NoHand
        /\ Checks(h)[5] = NoHand /\ Checks(h)[6] = NoHand
    BY <1>1, <1>4, Paired
  <1>6. OfCount(h, 4) = {} /\ OfCount(h, 3) = {a} /\ OfCount(h, 2) = {}
    BY <1>1, <1>2, <1>3, OfCountIs
  <1>7. /\ Checks(h)[3] = NoHand /\ Checks(h)[4] = NoHand
        /\ Checks(h)[7] = calculateHandValue(4, g)
    <2>1. FirstOf(h, 3) = a
      <3>1. a \in Int
        BY <1>1
      <3> QED BY <1>6, <3>1, ExtremesOfOne DEF FirstOf
    <2>3. Kickers(h, {a}) = [i \in 1..(5 - 3) |-> c[i + 3].rank]
      <3>1. \A i \in 1..5 : c[i].rank \in {a} <=> i <= 3
        BY <1>1
      <3>2. \A i, j \in 1..5 : 3 < i /\ i < j => c[i].rank >= c[j].rank
        BY <1>1
      <3> QED BY <3>1, <3>2, KickersAre
    <2>4. Kickers(h, {a}) = <<b, d>>
      BY <1>1, <2>3
    <2>5. <<a>> \o <<b, d>> = g
      BY <1>1, OneAndTwo DEF g
    <2> QED BY <1>6, <2>1, <2>4, <2>5 DEF Checks, checkFourOfAKind, checkFullHouse,
                                         checkThreeOfAKind, ThreeOfAKind
  <1>8. IsStrength(4, g)
    <2>1. g \in Seq(RanksOf(h)) /\ Len(g) = Compared(4)
      BY <1>2 DEF g, Compared
    <2> QED BY <2>1, StrengthOfRanks
  <1>9. Category(h) = 4
    BY <1>3, <1>5 DEF Category, g
  <1>10. evaluateFiveCardHand(h) = ValueOf(4, g)
    <2>1. \A j \in 1..10 : j < 7 => Checks(h)[j] = NoHand
      BY <1>5, <1>7
    <2> QED BY <1>7, <1>8, <2>1, CheckMakes
  <1> QED BY <1>5, <1>8, <1>9, <1>10 DEF Judged, g, a, b, d

LEMMA JudgedTwoPair ==
  ASSUME NEW h, IsHand(h), NEW c, Listing(c, 5, h), TwoAndTwo(c)
  PROVE  Judged(h, 3, <<c[1].rank, c[3].rank, c[5].rank>>)
  <1> DEFINE a == c[1].rank
             b == c[3].rank
             d == c[5].rank
             g == <<a, b, d>>
  <1>1. /\ c[1].rank = a /\ c[2].rank = a /\ c[3].rank = b /\ c[4].rank = b
        /\ c[5].rank = d /\ a > b /\ a # d /\ b # d
        /\ a \in 2..14 /\ b \in 2..14 /\ d \in 2..14
    BY ListedHand DEF TwoAndTwo
  <1>2. RanksOf(h) = {a, b, d}
    BY <1>1, ListedHand
  <1> HIDE DEF a, b, d
  <1>3. CountOf(h, a) = 2 /\ CountOf(h, b) = 2 /\ CountOf(h, d) = 1
    BY <1>1, CountOfFive DEF Has
  <1>4. Listing(g, 3, RanksOf(h)) /\ \A i, j \in 1..3 : i < j => Ahead(h, g[i], g[j])
    BY <1>1, <1>2, <1>3 DEF Listing, Ahead
  <1> HIDE DEF g
  <1>5. /\ Groups(h) = g /\ Detail(h) = g /\ ~Connected(h) /\ ~Suited(h)
        /\ Checks(h)[1] = NoHand /\ Checks(h)[2] = NoHand
        /\ Checks(h)[5] = NoHand /\ Checks(h)[6] = NoHand
    BY <1>1, <1>4, Paired
  <1>6. OfCount(h, 4) = {} /\ OfCount(h, 3) = {} /\ OfCount(h, 2) = {a, b}
    BY <1>1, <1>2, <1>3, OfCountIs
  <1>7. /\ Checks(h)[3] = NoHand /\ Checks(h)[4] = NoHand /\ Checks(h)[7] = NoHand
        /\ Checks(h)[8] = calculateHandValue(3, g)
    <2>1. Max({a, b}) = a /\ Min({a, b}) = b
      <3>1. a \in Int /\ b \in Int /\ a > b
        BY <1>1
      <3> QED BY <3>1, ExtremesOfTwo
    <2>2. Cardinality({a, b}) = 2
      <3>1. Listing(<<a, b>>, 2, {a, b})
        BY <1>1 DEF Listing
      <3> QED BY <3>1, ListingCount
    <2>3. Kickers(h, {a, b}) = [i \in 1..(5 - 4) |-> c[i + 4].rank]
      <3>1. \A i \in 1..5 : c[i].rank \in {a, b} <=> i <= 4
        BY <1>1
      <3>2. \A i, j \in 1..5 : 4 < i /\ i < j => c[i].rank >= c[j].rank
        BY <1>1
      <3> QED BY <3>1, <3>2, KickersAre
    <2>4. Kickers(h, {a, b}) = <<d>>
      BY <1>1, <2>3
    <2>5. <<a, b>> \o <<d>> = g
      BY <1>1, TwoAndOne DEF g
    <2> QED BY <1>6, <2>1, <2>2, <2>4, <2>5
            DEF Checks, checkFourOfAKind, checkFullHouse, checkThreeOfAKind,
                checkTwoPair, TwoPair
  <1>8. IsStrength(3, g)
    <2>1. g \in Seq(RanksOf(h)) /\ Len(g) = Compared(3)
      BY <1>2 DEF g, Compared
    <2> QED BY <2>1, StrengthOfRanks
  <1>9. Category(h) = 3
    BY <1>3, <1>5 DEF Category, g
  <1>10. evaluateFiveCardHand(h) = ValueOf(3, g)
    <2>1. \A j \in 1..10 : j < 8 => Checks(h)[j] = NoHand
      BY <1>5, <1>7
    <2> QED BY <1>7, <1>8, <2>1, CheckMakes
  <1> QED BY <1>5, <1>8, <1>9, <1>10 DEF Judged, g, a, b, d

LEMMA JudgedOnePair ==
  ASSUME NEW h, IsHand(h), NEW c, Listing(c, 5, h), TwoAlone(c)
  PROVE  Judged(h, 2, <<c[1].rank, c[3].rank, c[4].rank, c[5].rank>>)
  <1> DEFINE a == c[1].rank
             b == c[3].rank
             d == c[4].rank
             e == c[5].rank
             g == <<a, b, d, e>>
  <1>1. /\ c[1].rank = a /\ c[2].rank = a /\ c[3].rank = b /\ c[4].rank = d
        /\ c[5].rank = e /\ a # b /\ a # d /\ a # e /\ b > d /\ d > e /\ b > e
        /\ a \in 2..14 /\ b \in 2..14 /\ d \in 2..14 /\ e \in 2..14
    BY ListedHand DEF TwoAlone
  <1>2. RanksOf(h) = {a, b, d, e}
    BY <1>1, ListedHand
  <1> HIDE DEF a, b, d, e
  <1>3. CountOf(h, a) = 2 /\ CountOf(h, b) = 1 /\ CountOf(h, d) = 1 /\ CountOf(h, e) = 1
    BY <1>1, CountOfFive DEF Has
  <1>4. Listing(g, 4, RanksOf(h)) /\ \A i, j \in 1..4 : i < j => Ahead(h, g[i], g[j])
    BY <1>1, <1>2, <1>3 DEF Listing, Ahead
  <1> HIDE DEF g
  <1>5. /\ Groups(h) = g /\ Detail(h) = g /\ ~Connected(h) /\ ~Suited(h)
        /\ Checks(h)[1] = NoHand /\ Checks(h)[2] = NoHand
        /\ Checks(h)[5] = NoHand /\ Checks(h)[6] = NoHand
    BY <1>1, <1>4, Paired
  <1>6. OfCount(h, 4) = {} /\ OfCount(h, 3) = {} /\ OfCount(h, 2) = {a}
    BY <1>1, <1>2, <1>3, OfCountIs
  <1>7. /\ Checks(h)[3] = NoHand /\ Checks(h)[4] = NoHand /\ Checks(h)[7] = NoHand
        /\ Checks(h)[8] = NoHand /\ Checks(h)[9] = calculateHandValue(2, g)
    <2>1. FirstOf(h, 2) = a
      <3>1. a \in Int
        BY <1>1
      <3> QED BY <1>6, <3>1, ExtremesOfOne DEF FirstOf
    <2>2. Cardinality({a}) = 1
      BY FS_Singleton, Zenon
    <2>3. Kickers(h, {a}) = [i \in 1..(5 - 2) |-> c[i + 2].rank]
      <3>1. \A i \in 1..5 : c[i].rank \in {a} <=> i <= 2
        BY <1>1
      <3>2. \A i, j \in 1..5 : 2 < i /\ i < j => c[i].rank >= c[j].rank
        BY <1>1
      <3> QED BY <3>1, <3>2, KickersAre
    <2>4. Kickers(h, {a}) = <<b, d, e>>
      BY <1>1, <2>3
    <2>5. <<a>> \o <<b, d, e>> = g
      BY <1>1, OneAndThree DEF g
    <2> QED BY <1>6, <2>1, <2>2, <2>4, <2>5
            DEF Checks, checkFourOfAKind, checkFullHouse, checkThreeOfAKind,
                checkTwoPair, checkOnePair, OnePair
  <1>8. IsStrength(2, g)
    <2>1. g \in Seq(RanksOf(h)) /\ Len(g) = Compared(2)
      BY <1>2 DEF g, Compared
    <2> QED BY <2>1, StrengthOfRanks
  <1>9. Category(h) = 2
    BY <1>3, <1>5 DEF Category, g
  <1>10. evaluateFiveCardHand(h) = ValueOf(2, g)
    <2>1. \A j \in 1..10 : j < 9 => Checks(h)[j] = NoHand
      BY <1>5, <1>7
    <2> QED BY <1>7, <1>8, <2>1, CheckMakes
  <1> QED BY <1>5, <1>8, <1>9, <1>10 DEF Judged, g, a, b, d, e

LEMMA FlushIsSuited ==
  ASSUME NEW h, IsHand(h)
  PROVE  isFlush(h) <=> Suited(h)
  <1> DEFINE T == {x.suit : x \in h}
  <1>1. T \in SUBSET Suits
    BY CardsOfHand
  <1>2. IsFiniteSet(T)
    <2> HIDE DEF T
    <2> QED BY <1>1, DeckAssumption, FS_Subset
  <1>3. PICK y : y \in h
    <2>1. h # {}
      BY FS_EmptySet DEF IsHand
    <2> QED BY <2>1
  <1>4. ASSUME isFlush(h) PROVE Cardinality(T) = 1
    <2>1. T = {y.suit}
      BY <1>3, <1>4 DEF isFlush
    <2> HIDE DEF T
    <2> QED BY <2>1, FS_Singleton, Zenon
  <1>5. ASSUME Cardinality(T) = 1 PROVE isFlush(h)
    <2>1. \E z : T = {z}
      <3> HIDE DEF T
      <3> QED BY <1>2, <1>5, FS_Singleton, Zenon
    <2>2. \A x \in h : x.suit \in T
      OBVIOUS
    <2> HIDE DEF T
    <2> QED BY <2>1, <2>2 DEF isFlush
  <1>6. Suited(h) <=> Cardinality(T) = 1
    BY DEF Suited
  <1> QED BY <1>4, <1>5, <1>6

(* Five different ranks, from the highest to the lowest. *)
Royal(a, b, d, e, f) == a = 14 /\ b = 13 /\ d = 12 /\ e = 11 /\ f = 10
Low(a, b, d, e, f) == a = 14 /\ b = 5 /\ d = 4 /\ e = 3 /\ f = 2

LEMMA FiveApart ==
  ASSUME NEW h, IsHand(h), NEW c, Listing(c, 5, h), AllApart(c),
         NEW a, a = c[1].rank, NEW b, b = c[2].rank, NEW d, d = c[3].rank,
         NEW e, e = c[4].rank, NEW f, f = c[5].rank
  PROVE  /\ a \in 2..14 /\ b \in 2..14 /\ d \in 2..14 /\ e \in 2..14 /\ f \in 2..14
         /\ a > b /\ b > d /\ d > e /\ e > f
         /\ RanksOf(h) = {a, b, d, e, f}
         /\ SortedRanks(h) = <<a, b, d, e, f>> /\ Groups(h) = <<a, b, d, e, f>>
         /\ \A r \in RanksOf(h) : CountOf(h, r) = 1
         /\ Cardinality(RanksOf(h)) = 5
         /\ Max(RanksOf(h)) = a /\ Min(RanksOf(h)) = f
  <1> DEFINE g == <<a, b, d, e, f>>
  <1>1. a \in 2..14 /\ b \in 2..14 /\ d \in 2..14 /\ e \in 2..14 /\ f \in 2..14
    BY ListedHand
  <1>2. a > b /\ b > d /\ d > e /\ e > f
    BY DEF AllApart
  <1>3. /\ a \in Int /\ b \in Int /\ d \in Int /\ e \in Int /\ f \in Int
    BY <1>1
  <1>4. a > d /\ a > e /\ a > f /\ b > e /\ b > f /\ d > f
    BY <1>2, <1>3
  <1>5. RanksOf(h) = {a, b, d, e, f}
    BY ListedHand
  <1>6. \A r \in {a, b, d, e, f} : CountOf(h, r) = 1
    <2>1. \A r : /\ Has(c, 1, r) = (IF a = r THEN 1 ELSE 0)
                 /\ Has(c, 2, r) = (IF b = r THEN 1 ELSE 0)
                 /\ Has(c, 3, r) = (IF d = r THEN 1 ELSE 0)
                 /\ Has(c, 4, r) = (IF e = r THEN 1 ELSE 0)
                 /\ Has(c, 5, r) = (IF f = r THEN 1 ELSE 0)
      BY DEF Has
    <2>2. \A r \in {a, b, d, e, f} :
            CountOf(h, r) = Has(c, 1, r) + Has(c, 2, r) + Has(c, 3, r) + Has(c, 4, r)
                              + Has(c, 5, r)
      BY CountOfFive
    <2>3. \A r \in {a, b, d, e, f} :
            Has(c, 1, r) + Has(c, 2, r) + Has(c, 3, r) + Has(c, 4, r) + Has(c, 5, r) = 1
      BY <1>2, <1>3, <1>4, <2>1
    <2> QED BY <2>2, <2>3
  <1>7. /\ g \in [1..5 -> {a, b, d, e, f}]
        /\ g[1] = a /\ g[2] = b /\ g[3] = d /\ g[4] = e /\ g[5] = f
    OBVIOUS
  <1> HIDE DEF g
  <1>8. Listing(g, 5, RanksOf(h)) /\ \A i, j \in 1..5 : i < j => Ahead(h, g[i], g[j])
    <2>1. \A i, j \in 1..5 : i < j => g[i] > g[j] /\ g[i] # g[j]
      BY <1>2, <1>3, <1>4, <1>7
    <2>2. \A i, j \in 1..5 : g[i] = g[j] => i = j
      BY <1>2, <1>3, <1>4, <1>7
    <2>3. \A x \in {a, b, d, e, f} : \E i \in 1..5 : g[i] = x
      BY <1>7
    <2>4. \A i \in 1..5 : CountOf(h, g[i]) = 1
      BY <1>6, <1>7
    <2> QED BY <1>5, <1>7, <2>1, <2>2, <2>3, <2>4 DEF Listing, Ahead
  <1>9. SortedRanks(h) = g
    <2>1. \A i \in {1, 2, 3, 4, 5} : c[i].rank = g[i]
      BY <1>7
    <2>2. RanksIn(c, 5) = g
      BY <1>7, <2>1 DEF RanksIn
    <2>3. Falling(c, 5)
      BY <1>2, <1>3, <1>4 DEF Falling
    <2>4. \A x \in h : x.rank \in Nat
      BY CardsOfHand
    <2> QED BY <2>2, <2>3, <2>4, SortedRanksAre
  <1>10. Groups(h) = g
    <2>1. \A x \in h : x.rank \in Nat
      BY CardsOfHand
    <2>2. \A r \in RanksOf(h) : CountOf(h, r) \in Nat
      BY CountOfFive
    <2>3. Groups(h) = [i \in 1..5 |-> g[i]]
      BY <1>8, <2>1, <2>2, GroupsAre
    <2> QED BY <1>7, <2>3
  <1>11. Cardinality(RanksOf(h)) = 5
    BY <1>8, ListingCount
  <1>12. Max(RanksOf(h)) = a /\ Min(RanksOf(h)) = f
    <2>1. \A x \in {a, b, d, e, f} : (\A y \in {a, b, d, e, f} : x >= y) <=> x = a
      BY <1>2, <1>3, <1>4
    <2>2. \A x \in {a, b, d, e, f} : (\A y \in {a, b, d, e, f} : x =< y) <=> x = f
      BY <1>2, <1>3, <1>4
    <2> QED BY <1>5, <2>1, <2>2 DEF Max, Min
  <1> QED BY <1>1, <1>2, <1>5, <1>6, <1>9, <1>10, <1>11, <1>12 DEF g

(* Five ranks in a row: what the code and what the rules look at. *)
LEMMA RowOfFive ==
  ASSUME NEW h, IsHand(h), NEW c, Listing(c, 5, h), AllApart(c),
         NEW a, a = c[1].rank, NEW b, b = c[2].rank, NEW d, d = c[3].rank,
         NEW e, e = c[4].rank, NEW f, f = c[5].rank
  PROVE  /\ isAceLowStraight(h) <=> Low(a, b, d, e, f)
         /\ Wheel(h) <=> Low(a, b, d, e, f)
         /\ isStraight(h) <=> a - f = 4 \/ Low(a, b, d, e, f)
         /\ Connected(h) <=> a - f = 4 \/ Low(a, b, d, e, f)
         /\ isRoyalFlush(h) <=> isFlush(h) /\ Royal(a, b, d, e, f)
         /\ StraightTop(h) = IF Low(a, b, d, e, f) THEN << 5 >> ELSE <<a>>
  <1>1. /\ a \in 2..14 /\ b \in 2..14 /\ d \in 2..14 /\ e \in 2..14 /\ f \in 2..14
        /\ a > b /\ b > d /\ d > e /\ e > f
        /\ RanksOf(h) = {a, b, d, e, f}
        /\ SortedRanks(h) = <<a, b, d, e, f>>
        /\ Cardinality(RanksOf(h)) = 5
        /\ Max(RanksOf(h)) = a /\ Min(RanksOf(h)) = f
    BY FiveApart
  <1>2. a \in Int /\ b \in Int /\ d \in Int /\ e \in Int /\ f \in Int
    BY <1>1
  <1>3. isAceLowStraight(h) <=> Low(a, b, d, e, f)
    BY <1>1 DEF isAceLowStraight, Low, Ace
  <1>4. Wheel(h) <=> Low(a, b, d, e, f)
    <2>1. {a, b, d, e, f} = {14, 2, 3, 4, 5} => Low(a, b, d, e, f)
      <3> SUFFICES ASSUME {a, b, d, e, f} = {14, 2, 3, 4, 5} PROVE Low(a, b, d, e, f)
        OBVIOUS
      <3>1. /\ a \in {14, 2, 3, 4, 5} /\ b \in {14, 2, 3, 4, 5} /\ d \in {14, 2, 3, 4, 5}
            /\ e \in {14, 2, 3, 4, 5} /\ f \in {14, 2, 3, 4, 5}
            /\ 14 \in {a, b, d, e, f}
        OBVIOUS
      <3> QED BY <1>1, <1>2, <3>1 DEF Low
    <2>2. Low(a, b, d, e, f) => {a, b, d, e, f} = {14, 2, 3, 4, 5}
      BY DEF Low
    <2> QED BY <1>1, <2>1, <2>2 DEF Wheel, Ace
  <1>5. Connected(h) <=> a - f = 4 \/ Low(a, b, d, e, f)
    BY <1>1, <1>4 DEF Connected
  <1>6. isStraight(h) <=> a - f = 4 \/ Low(a, b, d, e, f)
    <2> DEFINE r == SortedRanks(h)
    <2>1. Len(r) = 5 /\ r[1] = a /\ r[2] = b /\ r[3] = d /\ r[4] = e /\ r[5] = f
      BY <1>1
    <2> HIDE DEF r
    <2>2. (\A i \in 2..Len(r) : r[i] + 1 = r[i - 1])
            <=> b + 1 = a /\ d + 1 = b /\ e + 1 = d /\ f + 1 = e
      <3>1. 2..Len(r) = {2, 3, 4, 5}
        BY <2>1
      <3>2. /\ r[2] + 1 = r[2 - 1] <=> b + 1 = a
            /\ r[3] + 1 = r[3 - 1] <=> d + 1 = b
            /\ r[4] + 1 = r[4 - 1] <=> e + 1 = d
            /\ r[5] + 1 = r[5 - 1] <=> f + 1 = e
        BY <2>1
      <3> QED BY <3>1, <3>2
    <2>3. a - f = 4 <=> b + 1 = a /\ d + 1 = b /\ e + 1 = d /\ f + 1 = e
      BY <1>1, <1>2
    <2> QED BY <1>3, <2>2, <2>3 DEF isStraight, r
  <1>7. isRoyalFlush(h) <=> isFlush(h) /\ Royal(a, b, d, e, f)
    BY <1>1 DEF isRoyalFlush, Royal, Ace
  <1>8. StraightTop(h) = IF Low(a, b, d, e, f) THEN << 5 >> ELSE <<a>>
    BY <1>1, <1>3 DEF StraightTop
  <1> QED BY <1>3, <1>4, <1>5, <1>6, <1>7, <1>8

LEMMA JudgedApart ==
  ASSUME NEW h, IsHand(h), NEW c, Listing(c, 5, h), AllApart(c)
  PROVE  \E k, s : Judged(h, k, s)
  <1> DEFINE a == c[1].rank
             b == c[2].rank
             d == c[3].rank
             e == c[4].rank
             f == c[5].rank
             g == <<a, b, d, e, f>>
             low == Low(a, b, d, e, f)
             row == a - f = 4 \/ low
             t == IF low THEN << 5 >> ELSE <<a>>
  <1>1. /\ a \in 2..14 /\ b \in 2..14 /\ d \in 2..14 /\ e \in 2..14 /\ f \in 2..14
        /\ a > b /\ b > d /\ d > e /\ e > f
        /\ RanksOf(h) = {a, b, d, e, f}
        /\ SortedRanks(h) = g /\ Groups(h) = g
        /\ \A r \in RanksOf(h) : CountOf(h, r) = 1
        /\ Max(RanksOf(h)) = a
    BY FiveApart
  <1>2. /\ isStraight(h) <=> row
        /\ Connected(h) <=> row
        /\ Wheel(h) <=> low
        /\ isRoyalFlush(h) <=> isFlush(h) /\ Royal(a, b, d, e, f)
        /\ StraightTop(h) = t
    BY RowOfFive
  <1>3. isFlush(h) <=> Suited(h)
    BY FlushIsSuited
  <1> HIDE DEF a, b, d, e, f
  <1>4. a \in Int /\ b \in Int /\ d \in Int /\ e \in Int /\ f \in Int
    BY <1>1
  <1>5. /\ Checks(h)[3] = NoHand /\ Checks(h)[4] = NoHand /\ Checks(h)[7] = NoHand
        /\ Checks(h)[8] = NoHand /\ Checks(h)[9] = NoHand
    <2>1. OfCount(h, 4) = {} /\ OfCount(h, 3) = {} /\ OfCount(h, 2) = {}
      BY <1>1, OfCountIs
    <2>2. Cardinality({}) = 0
      BY FS_EmptySet
    <2> QED BY <2>1, <2>2
            DEF Checks, checkFourOfAKind, checkFullHouse, checkThreeOfAKind,
                checkTwoPair, checkOnePair
  <1>6. /\ Checks(h)[1] = IF isRoyalFlush(h) THEN calculateHandValue(10, g) ELSE NoHand
        /\ Checks(h)[2] = IF isFlush(h) /\ row THEN calculateHandValue(9, t) ELSE NoHand
        /\ Checks(h)[5] = IF isFlush(h) THEN calculateHandValue(6, g) ELSE NoHand
        /\ Checks(h)[6] = IF row THEN calculateHandValue(5, t) ELSE NoHand
        /\ Checks(h)[10] = calculateHandValue(1, g)
    BY <1>1, <1>2
    DEF Checks, checkRoyalFlush, checkStraightFlush, checkFlush, checkStraight,
        checkHighCard, isStraightFlush, RoyalFlush, StraightFlush, Flush, Straight,
        HighCard
  <1>7. Category(h) = IF isFlush(h) THEN IF row THEN 9 ELSE 6 ELSE IF row THEN 5 ELSE 1
    <2> DEFINE shape == [i \in DOMAIN Groups(h) |-> CountOf(h, Groups(h)[i])]
    <2>1. shape[1] = 1 /\ shape[2] = 1
      BY <1>1
    <2> HIDE DEF shape
    <2>2. /\ shape # <<4, 1>> /\ shape # <<3, 2>> /\ shape # <<3, 1, 1>>
          /\ shape # <<2, 2, 1>> /\ shape # <<2, 1, 1, 1>>
      BY <2>1
    <2>3. Category(h) = CASE Connected(h) /\ Suited(h) -> 9
                          [] shape = <<4, 1>> -> 8
                          [] shape = <<3, 2>> -> 7
                          [] Suited(h) /\ ~Connected(h) -> 6
                          [] Connected(h) /\ ~Suited(h) -> 5
                          [] shape = <<3, 1, 1>> -> 4
                          [] shape = <<2, 2, 1>> -> 3
                          [] shape = <<2, 1, 1, 1>> -> 2
                          [] OTHER -> 1
      BY DEF Category, shape
    <2> HIDE DEF row
    <2> QED BY <1>2, <1>3, <2>2, <2>3
  <1>8. Detail(h) = IF row THEN t ELSE g
    BY <1>1, <1>2 DEF Detail
  <1>9. IsStrength(6, g) /\ IsStrength(1, g)
    <2>1. g \in Seq(RanksOf(h)) /\ Len(g) = Compared(6) /\ Len(g) = Compared(1)
      BY <1>1 DEF Compared
    <2> HIDE DEF g
    <2> QED BY <2>1, StrengthOfRanks
  <1>10. IsStrength(9, t) /\ IsStrength(5, t)
    <2>1. PICK r \in RanksOf(h) : t = <<r>>
      <3>1. low => 5 \in RanksOf(h)
        BY <1>1 DEF Low
      <3> QED BY <1>1, <3>1
    <2>2. t \in Seq(RanksOf(h)) /\ Len(t) = 1
      BY <2>1
    <2> HIDE DEF t
    <2>3. Len(t) = Compared(9) /\ Len(t) = Compared(5)
      BY <2>2 DEF Compared
    <2>4. 9 \in 1..9 /\ 5 \in 1..9
      OBVIOUS
    <2>5. IsStrength(9, t)
      BY <2>2, <2>3, <2>4, StrengthOfRanks
    <2>6. IsStrength(5, t)
      BY <2>2, <2>3, <2>4, StrengthOfRanks
    <2> QED BY <2>5, <2>6
  <1>11. Royal(a, b, d, e, f) => row /\ ~low /\ t = << 14 >> /\ g = <<14, 13, 12, 11, 10>>
    BY DEF Royal, Low
  <1>12. row /\ t = << 14 >> => Royal(a, b, d, e, f)
    <2> SUFFICES ASSUME row, t = << 14 >> PROVE Royal(a, b, d, e, f)
      OBVIOUS
    <2>1. t[1] = 14
      OBVIOUS
    <2>2. ~low /\ a = 14
      BY <2>1
    <2> QED BY <1>1, <1>4, <2>2 DEF Royal
  <1> HIDE DEF g, t, row, low
  <1>13. CASE isFlush(h) /\ row /\ Royal(a, b, d, e, f)
    <2>1. AreDigits(g)
      BY <1>9, StrengthDigits
    <2>2. calculateHandValue(10, g) # 0
      BY <2>1, ValueOrder
    <2>3. Checks(h)[1] # NoHand /\ Checks(h)[1] = calculateHandValue(10, g)
      BY <1>2, <1>6, <1>13, <2>2 DEF NoHand
    <2>4. evaluateFiveCardHand(h) = Checks(h)[1]
      BY <2>3, FirstCheck
    <2>5. evaluateFiveCardHand(h) = ValueOf(9, t)
      BY <1>11, <1>13, <2>3, <2>4 DEF ValueOf, StraightFlush, RoyalFlush, Ace
    <2>6. Judged(h, 9, t)
      BY <1>7, <1>8, <1>10, <1>13, <2>5 DEF Judged
    <2> QED BY <2>6
  <1>14. CASE isFlush(h) /\ row /\ ~Royal(a, b, d, e, f)
    <2>1. Checks(h)[1] = NoHand /\ Checks(h)[2] = calculateHandValue(9, t)
      BY <1>2, <1>6, <1>14
    <2>2. \A j \in 1..10 : j < 2 => Checks(h)[j] = NoHand
      BY <2>1
    <2>3. t # << 14 >>
      BY <1>12, <1>14
    <2>4. evaluateFiveCardHand(h) = ValueOf(9, t)
      BY <1>10, <2>1, <2>2, <2>3, CheckMakes
    <2>5. Judged(h, 9, t)
      BY <1>7, <1>8, <1>10, <1>14, <2>4 DEF Judged
    <2> QED BY <2>5
  <1>15. CASE isFlush(h) /\ ~row
    <2>1. /\ Checks(h)[1] = NoHand /\ Checks(h)[2] = NoHand
          /\ Checks(h)[5] = calculateHandValue(6, g)
      BY <1>2, <1>6, <1>11, <1>15
    <2>2. \A j \in 1..10 : j < 5 => Checks(h)[j] = NoHand
      BY <1>5, <2>1
    <2>3. evaluateFiveCardHand(h) = ValueOf(6, g)
      BY <1>9, <2>1, <2>2, CheckMakes
    <2>4. Judged(h, 6, g)
      BY <1>7, <1>8, <1>9, <1>15, <2>3 DEF Judged
    <2> QED BY <2>4
  <1>16. CASE ~isFlush(h) /\ row
    <2>1. /\ Checks(h)[1] = NoHand /\ Checks(h)[2] = NoHand /\ Checks(h)[5] = NoHand
          /\ Checks(h)[6] = calculateHandValue(5, t)
      BY <1>2, <1>6, <1>16
    <2>2. \A j \in 1..10 : j < 6 => Checks(h)[j] = NoHand
      BY <1>5, <2>1
    <2>3. evaluateFiveCardHand(h) = ValueOf(5, t)
      BY <1>10, <2>1, <2>2, CheckMakes
    <2>4. Judged(h, 5, t)
      BY <1>7, <1>8, <1>10, <1>16, <2>3 DEF Judged
    <2> QED BY <2>4
  <1>17. CASE ~isFlush(h) /\ ~row
    <2>1. /\ Checks(h)[1] = NoHand /\ Checks(h)[2] = NoHand /\ Checks(h)[5] = NoHand
          /\ Checks(h)[6] = NoHand /\ Checks(h)[10] = calculateHandValue(1, g)
      BY <1>2, <1>6, <1>17
    <2>2. \A j \in 1..10 : j < 10 => Checks(h)[j] = NoHand
      BY <1>5, <2>1
    <2>3. evaluateFiveCardHand(h) = ValueOf(1, g)
      BY <1>9, <2>1, <2>2, CheckMakes
    <2>4. Judged(h, 1, g)
      BY <1>7, <1>8, <1>9, <1>17, <2>3 DEF Judged
    <2> QED BY <2>4
  <1> QED BY <1>13, <1>14, <1>15, <1>16, <1>17

LEMMA HandJudged ==
  ASSUME NEW h, IsHand(h)
  PROVE  \E k, s : Judged(h, k, s)
  <1>1. PICK c : /\ Listing(c, 5, h)
                 /\ \/ FourAndOne(c) \/ ThreeAndTwo(c) \/ ThreeAlone(c)
                    \/ TwoAndTwo(c) \/ TwoAlone(c) \/ AllApart(c)
    BY HandShape
  <1>2. CASE FourAndOne(c)
    BY <1>1, <1>2, JudgedFourOfAKind
  <1>3. CASE ThreeAndTwo(c)
    BY <1>1, <1>3, JudgedFullHouse
  <1>4. CASE ThreeAlone(c)
    BY <1>1, <1>4, JudgedThreeOfAKind
  <1>5. CASE TwoAndTwo(c)
    BY <1>1, <1>5, JudgedTwoPair
  <1>6. CASE TwoAlone(c)
    BY <1>1, <1>6, JudgedOnePair
  <1>7. CASE AllApart(c)
    BY <1>1, <1>7, JudgedApart
  <1> QED BY <1>1, <1>2, <1>3, <1>4, <1>5, <1>6, <1>7

(* The value of a royal flush is above every other value, as the best      *)
(* straight flush is above every other hand.                               *)
LEMMA ValuesCompare ==
  ASSUME NEW k, NEW s, IsStrength(k, s), NEW l, NEW t, IsStrength(l, t)
  PROVE  /\ ValueOf(k, s) > ValueOf(l, t) <=> Beats(<<k>> \o s, <<l>> \o t)
         /\ ValueOf(k, s) \in Nat
  <1> DEFINE w == <<Ace, 13, 12, 11, 10>>
             V == ValueOf(k, s)
             W == ValueOf(l, t)
  <1>1. /\ AreDigits(s) /\ k \in Nat /\ k <= 9 /\ Len(s) \in 1..5
        /\ AreDigits(t) /\ l \in Nat /\ l <= 9 /\ Len(t) \in 1..5
    <2>1. k \in 1..9 /\ l \in 1..9
      BY DEF IsStrength
    <2> QED BY <2>1, StrengthDigits
  <1>2. Beats(<<k>> \o s, <<l>> \o t) <=> Outranks(k, s, l, t)
    BY BeatsOrder
  <1>3. (k = 9 => Len(s) = 1 /\ s[1] \in 2..14) /\ (l = 9 => Len(t) = 1 /\ t[1] \in 2..14)
    BY DEF IsStrength, Compared
  <1>4. s = << 14 >> \/ t = << 14 >> => AreDigits(w)
    <2> SUFFICES ASSUME s = << 14 >> \/ t = << 14 >> PROVE AreDigits(w)
      OBVIOUS
    <2>1. (s = << 14 >> => s[1] = 14 /\ Len(s) = 1) /\ (t = << 14 >> => t[1] = 14 /\ Len(t) = 1)
      OBVIOUS
    <2>2. 14 < Radix
      BY <2>1 DEF IsStrength
    <2>3. w[1] = 14 /\ w[2] = 13 /\ w[3] = 12 /\ w[4] = 11 /\ w[5] = 10 /\ Len(w) = 5
      BY DEF Ace
    <2> HIDE DEF w
    <2>4. Radix \in Nat
      BY RadixAssumption
    <2> QED BY <2>2, <2>3, <2>4 DEF AreDigits, At
  <1>5. /\ V = IF k = 9 /\ s = << 14 >> THEN calculateHandValue(10, w)
               ELSE calculateHandValue(k, s)
        /\ W = IF l = 9 /\ t = << 14 >> THEN calculateHandValue(10, w)
               ELSE calculateHandValue(l, t)
    BY DEF ValueOf, StraightFlush, RoyalFlush, Ace
  <1> HIDE DEF w, V, W
  <1>6. CASE ~(k = 9 /\ s = << 14 >>) /\ ~(l = 9 /\ t = << 14 >>)
    <2>1. /\ calculateHandValue(k, s) > calculateHandValue(l, t) <=> Outranks(k, s, l, t)
          /\ calculateHandValue(k, s) \in Nat
      BY <1>1, ValueOrder
    <2> QED BY <1>2, <1>5, <1>6, <2>1 DEF V, W
  <1>7. CASE k = 9 /\ s = << 14 >> /\ ~(l = 9 /\ t = << 14 >>)
    <2>1. /\ calculateHandValue(10, w) > calculateHandValue(l, t) <=> Outranks(10, w, l, t)
          /\ calculateHandValue(10, w) \in Nat
      BY <1>1, <1>4, <1>7, ValueOrder
    <2>2. Outranks(10, w, l, t)
      BY <1>1 DEF Outranks
    <2>3. Outranks(k, s, l, t)
      <3>1. CASE k > l
        BY <3>1 DEF Outranks
      <3>2. CASE ~(k > l)
        <4>1. k = l
          BY <1>1, <1>7, <3>2
        <4>2. t[1] # 14
          <5>1. t = <<t[1]>>
            BY <1>3, <1>7, <4>1 DEF IsStrength
          <5> QED BY <1>7, <4>1, <5>1
        <4>3. At(s, 1) = 14 /\ At(t, 1) = t[1] /\ t[1] \in 2..14
          BY <1>3, <1>7, <4>1 DEF At
        <4>4. At(s, 1) > At(t, 1)
          BY <4>2, <4>3
        <4>5. 1 \in 1..5 /\ 1..(1 - 1) = {}
          OBVIOUS
        <4> QED BY <4>1, <4>4, <4>5 DEF Outranks
      <3> QED BY <3>1, <3>2
    <2> QED BY <1>2, <1>5, <1>7, <2>1, <2>2, <2>3 DEF V, W
  <1>8. CASE ~(k = 9 /\ s = << 14 >>) /\ l = 9 /\ t = << 14 >>
    <2>1. /\ calculateHandValue(k, s) > calculateHandValue(10, w) <=> Outranks(k, s, 10, w)
          /\ calculateHandValue(k, s) \in Nat
      BY <1>1, <1>4, <1>8, ValueOrder
    <2>2. ~Outranks(k, s, 10, w)
      BY <1>1 DEF Outranks
    <2>3. ~Outranks(k, s, l, t)
      <3>1. ASSUME k = l, NEW i \in 1..5 PROVE ~(At(s, i) > At(t, i))
        <4>1. Len(s) = 1 /\ s[1] \in 2..14 /\ Len(t) = 1
          BY <1>3, <1>8, <3>1
        <4>2. t[1] = 14
          BY <1>8
        <4>3. CASE i = 1
          BY <4>1, <4>2, <4>3 DEF At
        <4>4. CASE i # 1
          <5>1. ~(i <= 1)
            BY <4>4
          <5> QED BY <4>1, <5>1 DEF At
        <4> QED BY <4>3, <4>4
      <3>2. ~(k > l)
        BY <1>1, <1>8
      <3> QED BY <3>1, <3>2 DEF Outranks
    <2> QED BY <1>2, <1>5, <1>8, <2>1, <2>2, <2>3 DEF V, W
  <1>9. CASE k = 9 /\ s = << 14 >> /\ l = 9 /\ t = << 14 >>
    <2>1. calculateHandValue(10, w) \in Nat
      BY <1>1, <1>4, <1>9, ValueOrder
    <2>2. ~Outranks(k, s, l, t)
      <3>1. \A i \in 1..5 : At(s, i) \in Nat
        BY <1>1 DEF AreDigits
      <3>2. \A i \in 1..5 : ~(At(s, i) > At(t, i))
        BY <1>9, <3>1
      <3> QED BY <1>9, <3>2 DEF Outranks
    <2> QED BY <1>2, <1>5, <1>9, <2>1, <2>2 DEF V, W
  <1> QED BY <1>6, <1>7, <1>8, <1>9

-----------------------------------------------------------------------------
(* The best five of seven *)

LEMMA HandsCompare ==
  ASSUME NEW h, IsHand(h), NEW j, IsHand(j)
  PROVE  /\ evaluateFiveCardHand(h) > evaluateFiveCardHand(j)
              <=> Beats(RuleStrength(h), RuleStrength(j))
         /\ evaluateFiveCardHand(h) \in Nat
  <1>1. PICK k, s : Judged(h, k, s)
    BY HandJudged
  <1>2. PICK l, t : Judged(j, l, t)
    BY HandJudged
  <1>3. IsStrength(k, s) /\ IsStrength(l, t)
    BY <1>1, <1>2 DEF Judged
  <1>4. RuleStrength(h) = <<k>> \o s /\ RuleStrength(j) = <<l>> \o t
    BY <1>1, <1>2 DEF Judged, RuleStrength, Detail
  <1>5. evaluateFiveCardHand(h) = ValueOf(k, s) /\ evaluateFiveCardHand(j) = ValueOf(l, t)
    BY <1>1, <1>2 DEF Judged
  <1>6. /\ ValueOf(k, s) > ValueOf(l, t) <=> Beats(<<k>> \o s, <<l>> \o t)
        /\ ValueOf(k, s) \in Nat
    BY <1>3, ValuesCompare
  <1> QED BY <1>4, <1>5, <1>6

(* Five cards can be chosen from five or more. *)
LEMMA FiveOf ==
  ASSUME NEW S \in SUBSET FullDeck, IsFiniteSet(S), Cardinality(S) >= 5
  PROVE  /\ kSubset(5, S) # {} /\ IsFiniteSet(kSubset(5, S))
         /\ \A h \in kSubset(5, S) : IsHand(h)
  <1> DEFINE n == Cardinality(S)
  <1>1. n \in Nat
    BY FS_CardinalityType
  <1>2. \E c : Listing(c, n, S)
    <2>1. IsFiniteSet(1..n) /\ Cardinality(1..n) = n
      BY <1>1, FS_Interval
    <2>2. ExistsBijection(1..n, S)
      BY <2>1, FS_SameCardinalityBij
    <2>3. PICK c : c \in Bijection(1..n, S)
      BY <2>2 DEF ExistsBijection
    <2>4. /\ c \in [1..n -> S] /\ \A i, j \in 1..n : c[i] = c[j] => i = j
          /\ \A x \in S : \E i \in 1..n : c[i] = x
      BY <2>3 DEF Bijection, Injection, Surjection, IsInjective
    <2> QED BY <2>4 DEF Listing
  <1>3. PICK c : Listing(c, n, S)
    BY <1>2
  <1>4. 5 \in 0..n
    BY <1>1
  <1> HIDE DEF n
  <1>5. Cardinality(Front(c, 5)) = 5 /\ Front(c, 5) \subseteq S
    BY <1>1, <1>3, <1>4, FrontCount
  <1>6. Front(c, 5) \in kSubset(5, S)
    BY <1>5 DEF kSubset
  <1>7. IsFiniteSet(kSubset(5, S))
    <2>1. IsFiniteSet(SUBSET S)
      BY FS_SUBSET
    <2>2. kSubset(5, S) \in SUBSET (SUBSET S)
      BY DEF kSubset
    <2> QED BY <2>1, <2>2, FS_Subset
  <1>8. ASSUME NEW h \in kSubset(5, S) PROVE IsHand(h)
    <2>1. h \in SUBSET S /\ Cardinality(h) = 5
      BY DEF kSubset
    <2>2. IsFiniteSet(h)
      BY <2>1, FS_Subset
    <2> QED BY <2>1, <2>2 DEF IsHand
  <1> QED BY <1>6, <1>7, <1>8

(* The hand that makes the value is one that the rules hold to be the best. *)
StrongestOf(S) ==
  CHOOSE s \in {RuleStrength(h) : h \in kSubset(5, S)} :
    \A t \in {RuleStrength(h) : h \in kSubset(5, S)} : ~Beats(t, s)

LEMMA BestHand ==
  ASSUME NEW S \in SUBSET FullDeck, IsFiniteSet(S), Cardinality(S) >= 5
  PROVE  \E h : /\ IsHand(h) /\ RuleStrength(h) = StrongestOf(S)
                /\ evaluateFiveCardHand(h)
                     = Max({evaluateFiveCardHand(j) : j \in kSubset(5, S)})
  <1> DEFINE H == kSubset(5, S)
             value == [h \in H |-> evaluateFiveCardHand(h)]
             V == {value[h] : h \in H}
             R == {RuleStrength(h) : h \in H}
  <1>1. H # {} /\ IsFiniteSet(H) /\ \A h \in H : IsHand(h)
    BY FiveOf
  <1> HIDE DEF H
  <1>2. \A h \in H : value[h] = evaluateFiveCardHand(h) /\ value[h] \in Nat
    BY <1>1, HandsCompare
  <1>3. V = {evaluateFiveCardHand(h) : h \in H}
    BY <1>2
  <1>4. V \in SUBSET Int /\ V # {}
    BY <1>1, <1>2
  <1>5. IsFiniteSet(V)
    <2>1. DOMAIN value = H
      OBVIOUS
    <2> HIDE DEF value
    <2> QED BY <1>1, <2>1, FiniteImage
  <1>6. \A h, j \in H : value[h] > value[j] <=> Beats(RuleStrength(h), RuleStrength(j))
    BY <1>1, <1>2, HandsCompare
  <1> HIDE DEF value
  <1>7. Max(V) \in V /\ \A y \in V : Max(V) >= y
    <2> HIDE DEF V
    <2> QED BY <1>4, <1>5, MaxInteger
  <1>8. PICK m \in H : value[m] = Max(V)
    BY <1>7
  <1>9. \A j \in H : ~Beats(RuleStrength(j), RuleStrength(m))
    <2>1. \A j \in H : ~(value[j] > value[m])
      BY <1>2, <1>7, <1>8
    <2> QED BY <1>6, <2>1
  <1>10. RuleStrength(m) \in R /\ \A t \in R : ~Beats(t, RuleStrength(m))
    BY <1>9
  <1>11. StrongestOf(S) = CHOOSE s \in R : \A t \in R : ~Beats(t, s)
    BY DEF StrongestOf, H
  <1>12. StrongestOf(S) \in R /\ \A t \in R : ~Beats(t, StrongestOf(S))
    <2> HIDE DEF R
    <2> QED BY <1>10, <1>11
  <1>13. PICK h \in H : RuleStrength(h) = StrongestOf(S)
    BY <1>12
  <1>14. value[h] = Max(V)
    <2>1. ~Beats(RuleStrength(m), RuleStrength(h))
      BY <1>12, <1>13
    <2>2. ~(value[m] > value[h])
      BY <1>6, <2>1
    <2>3. value[h] \in V /\ value[h] \in Nat /\ value[m] \in Nat
      BY <1>2
    <2>4. value[m] >= value[h]
      BY <1>7, <1>8, <2>3
    <2> QED BY <1>8, <2>2, <2>3, <2>4
  <1> QED BY <1>1, <1>2, <1>3, <1>13, <1>14 DEF H

(* How many cards a street has put on the board. *)
OnBoard ==
  CASE phase = "flop"  -> 3
    [] phase = "turn"  -> 4
    [] phase = "river" -> 5
    [] OTHER           -> 0

(* The board is as long as the street says, and who has been evaluated has *)
(* been evaluated with five cards on it, which are still there.            *)
BoardInv ==
  /\ phase \in {"waiting", "preflop", "flop", "turn", "river", "hand_complete"}
  /\ phase # "hand_complete" => Cardinality(communityCards) = OnBoard
  /\ inHand \subseteq Players
  /\ \A p \in DOMAIN handEvaluations :
       /\ phase = "hand_complete" /\ p \in Players /\ Cardinality(communityCards) = 5
       /\ handEvaluations[p] = evaluateHand(holeCards[p], communityCards)

LEMMA BoardStep ==
  ASSUME CardsInv, BoardInv, NEW from, NEW n \in Nat, NEW to, Street(from, n, to),
         from \notin {"waiting", "hand_complete"}, to # "hand_complete",
         to \in {"waiting", "preflop", "flop", "turn", "river", "hand_complete"},
         ToCome >= n + 1, OnBoard' = OnBoard + n
  PROVE  BoardInv'
  <1>1. /\ communityCards' = communityCards \cup Taken(Left(cards, 1), n)
        /\ phase = from /\ phase' = to /\ UNCHANGED <<inHand, handEvaluations>>
    BY DEF Street
  <1>2. /\ IsFiniteSet(FullDeck) /\ IsDeck(cards) /\ Len(cards) >= ToCome
        /\ dealtCards = FullDeck \ InDeck(cards)
        /\ communityCards \subseteq dealtCards \ HoleCards
    BY <1>1 DEF CardsInv
  <1>3. Len(cards) \in Nat /\ ToCome \in Nat
    BY <1>2 DEF IsDeck, ToCome
  <1> DEFINE rest == Left(cards, 1)
             m == Len(rest)
             T == Taken(rest, n)
  <1>4. 1 \in Nat /\ 1 <= Len(cards)
    BY <1>2, <1>3
  <1>5. /\ IsDeck(rest) /\ m = Len(cards) - 1 /\ InDeck(rest) \subseteq InDeck(cards)
    BY <1>2, <1>4, TakeFrom
  <1> HIDE DEF rest
  <1>6. m \in Nat /\ n <= m
    BY <1>2, <1>3, <1>5
  <1>7. T \subseteq InDeck(cards) /\ IsFiniteSet(T) /\ Cardinality(T) = n
    <2> DEFINE a == m - n + 1
    <2>1. a \in Nat \ {0} /\ a <= m + 1 /\ m + 1 - a = n
      BY <1>6
    <2>2. T = Span(rest, a, m)
      BY DEF Taken, Span
    <2> HIDE DEF a
    <2>3. /\ IsFiniteSet(Span(rest, a, m))
          /\ a <= m + 1 => Cardinality(Span(rest, a, m)) = m + 1 - a
      BY <1>5, <1>6, <2>1, DeckCount
    <2>4. Span(rest, a, m) \subseteq InDeck(rest)
      BY <1>6, <2>1 DEF Span, InDeck
    <2> QED BY <1>5, <2>1, <2>2, <2>3, <2>4
  <1> HIDE DEF T
  <1>8. IsFiniteSet(communityCards) /\ communityCards \cap T = {}
    <2>1. communityCards \in SUBSET FullDeck
      BY <1>2
    <2> QED BY <1>2, <1>7, <2>1, FS_Subset
  <1>9. Cardinality(communityCards') = Cardinality(communityCards) + n
    <2>1. Cardinality(communityCards \cup T)
            = Cardinality(communityCards) + Cardinality(T)
                - Cardinality(communityCards \cap T)
      BY <1>7, <1>8, FS_Union
    <2>2. Cardinality({}) = 0
      BY FS_EmptySet
    <2>3. Cardinality(communityCards \cap T) = 0
      BY <1>8, <2>2, Zenon
    <2>4. Cardinality(communityCards) \in Nat
      BY <1>8, FS_CardinalityType
    <2>5. communityCards' = communityCards \cup T
      BY <1>1 DEF T, rest
    <2> QED BY <1>7, <2>1, <2>3, <2>4, <2>5
  <1>10. Cardinality(communityCards') = OnBoard'
    BY <1>1, <1>9 DEF BoardInv
  <1>11. DOMAIN handEvaluations = {}
    BY <1>1 DEF BoardInv
  <1> QED BY <1>1, <1>10, <1>11 DEF BoardInv

LEMMA BoardInvariant == DealingSpec => []BoardInv
  <1>1. DealingInit => BoardInv
    <2>1. Cardinality({}) = 0
      BY FS_EmptySet
    <2> QED BY <2>1 DEF DealingInit, BoardInv, OnBoard
  <1>2. CardsInv /\ BoardInv /\ [DealingNext]_dealingVars => BoardInv'
    <2> SUFFICES ASSUME CardsInv, BoardInv, [DealingNext]_dealingVars PROVE BoardInv'
      OBVIOUS
    <2>1. CASE StartHand
      <3>1. Cardinality({}) = 0
        BY FS_EmptySet
      <3>2. /\ communityCards' = {} /\ inHand' = Players /\ handEvaluations' = <<>>
            /\ phase' = "preflop"
        BY <2>1 DEF StartHand
      <3> QED BY <3>1, <3>2 DEF BoardInv, OnBoard
    <2>2. CASE DealFlop
      <3>1. Street("preflop", 3, "flop") /\ phase = "preflop" /\ phase' = "flop"
        BY <2>2 DEF DealFlop, Street
      <3>2. ToCome = 8 /\ OnBoard = 0 /\ OnBoard' = 3
        BY <3>1 DEF ToCome, OnBoard
      <3> QED BY <3>1, <3>2, BoardStep
    <2>3. CASE DealTurn
      <3>1. Street("flop", 1, "turn") /\ phase = "flop" /\ phase' = "turn"
        BY <2>3 DEF DealTurn, Street
      <3>2. ToCome = 4 /\ OnBoard = 3 /\ OnBoard' = 4
        BY <3>1 DEF ToCome, OnBoard
      <3> QED BY <3>1, <3>2, BoardStep
    <2>4. CASE DealRiver
      <3>1. Street("turn", 1, "river") /\ phase = "turn" /\ phase' = "river"
        BY <2>4 DEF DealRiver, Street
      <3>2. ToCome = 2 /\ OnBoard = 4 /\ OnBoard' = 5
        BY <3>1 DEF ToCome, OnBoard
      <3> QED BY <3>1, <3>2, BoardStep
    <2>5. ASSUME NEW p \in Players, FoldCards(p) PROVE BoardInv'
      <3>1. /\ phase \in {"preflop", "flop", "turn", "river"}
            /\ inHand' = inHand \ {p} /\ UNCHANGED <<communityCards, handEvaluations>>
            /\ phase' = phase \/ phase' = "hand_complete"
        BY <2>5 DEF FoldCards
      <3>2. DOMAIN handEvaluations = {}
        BY <3>1 DEF BoardInv
      <3>3. phase' = phase => OnBoard' = OnBoard
        BY DEF OnBoard
      <3> QED BY <3>1, <3>2, <3>3 DEF BoardInv
    <2>6. CASE Showdown
      <3>1. /\ phase = "river" /\ phase' = "hand_complete"
            /\ UNCHANGED <<holeCards, communityCards, inHand>>
            /\ handEvaluations' =
                 [p \in inHand |-> evaluateHand(holeCards[p], communityCards)]
        BY <2>6 DEF Showdown
      <3>2. Cardinality(communityCards) = 5
        BY <3>1 DEF BoardInv, OnBoard
      <3> QED BY <3>1, <3>2 DEF BoardInv
    <2>7. CASE UNCHANGED dealingVars
      BY <2>7 DEF dealingVars, BoardInv, OnBoard
    <2> QED BY <2>1, <2>2, <2>3, <2>4, <2>5, <2>6, <2>7 DEF DealingNext
  <1> QED BY <1>1, <1>2, CardsInvariant, PTL DEF DealingSpec

(* Whatever the shuffle and however many players there are, the values the *)
(* engine divides the pots by order the players at the showdown as the     *)
(* rules order the best five of their cards.  The checks of the evaluator  *)
(* come in the right order, none of them misses a card that counts or      *)
(* counts one that does not, and the value, digits to a radix above every  *)
(* rank, lets no lower card make up for a higher one.                      *)
THEOREM EvaluatorFollowsTheRules == DealingSpec => []RankedByTheRules
  <1>1. CardsInv /\ BoardInv => RankedByTheRules
    <2> SUFFICES ASSUME CardsInv, BoardInv,
                        NEW p \in DOMAIN handEvaluations, NEW q \in DOMAIN handEvaluations
                 PROVE  (handEvaluations[p] > handEvaluations[q]) <=>
                          Beats(BestByTheRules(p), BestByTheRules(q))
      BY DEF RankedByTheRules
    <2>1. ASSUME NEW o \in DOMAIN handEvaluations
          PROVE  \E h : /\ IsHand(h) /\ RuleStrength(h) = BestByTheRules(o)
                        /\ evaluateFiveCardHand(h) = handEvaluations[o]
      <3> DEFINE S == holeCards[o] \cup communityCards
      <3>1. /\ phase = "hand_complete" /\ o \in Players
            /\ Cardinality(communityCards) = 5
            /\ handEvaluations[o] = evaluateHand(holeCards[o], communityCards)
        BY DEF BoardInv
      <3>2. /\ IsFiniteSet(FullDeck) /\ dealtCards \subseteq FullDeck
            /\ HoleCards \subseteq dealtCards /\ communityCards \subseteq dealtCards
        BY <3>1 DEF CardsInv
      <3>3. holeCards[o] \subseteq HoleCards
        BY <3>1 DEF HoleCards
      <3>4. S \in SUBSET FullDeck /\ communityCards \in SUBSET S
        BY <3>2, <3>3
      <3>5. handEvaluations[o]
              = Max({evaluateFiveCardHand(j) : j \in kSubset(5, S)})
        BY <3>1 DEF evaluateHand, generateCombinations
      <3>6. BestByTheRules(o) = StrongestOf(S)
        BY DEF BestByTheRules, StrongestOf
      <3> HIDE DEF S
      <3>7. IsFiniteSet(S)
        BY <3>2, <3>4, FS_Subset
      <3>8. Cardinality(S) >= 5
        <4>1. Cardinality(communityCards) <= Cardinality(S)
          BY <3>4, <3>7, FS_Subset
        <4>2. Cardinality(S) \in Nat
          BY <3>7, FS_CardinalityType
        <4> QED BY <3>1, <4>1, <4>2
      <3>9. \E h : /\ IsHand(h) /\ RuleStrength(h) = StrongestOf(S)
                   /\ evaluateFiveCardHand(h)
                        = Max({evaluateFiveCardHand(j) : j \in kSubset(5, S)})
        BY <3>4, <3>7, <3>8, BestHand
      <3> QED BY <3>5, <3>6, <3>9
    <2>2. PICK h : /\ IsHand(h) /\ RuleStrength(h) = BestByTheRules(p)
                   /\ evaluateFiveCardHand(h) = handEvaluations[p]
      BY <2>1
    <2>3. PICK j : /\ IsHand(j) /\ RuleStrength(j) = BestByTheRules(q)
                   /\ evaluateFiveCardHand(j) = handEvaluations[q]
      BY <2>1
    <2>4. evaluateFiveCardHand(h) > evaluateFiveCardHand(j)
            <=> Beats(RuleStrength(h), RuleStrength(j))
      BY <2>2, <2>3, HandsCompare
    <2> QED BY <2>2, <2>3, <2>4
  <1> QED BY <1>1, CardsInvariant, BoardInvariant, PTL

=============================================================================
