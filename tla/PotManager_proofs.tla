-------------------------- MODULE PotManager_proofs -------------------------
(***************************************************************************)
(* Lemmas on the operators of PotManager: extrema of sets of numbers, sums *)
(* as numbers of chips, and the pots before and after each operation:      *)
(* every sum of chips is the same before and after a rebuilding of the     *)
(* pots, and a distribution pays out what the pots hold.                   *)
(***************************************************************************)
EXTENDS PotManager, FiniteSetTheorems, TLAPS

(* A set of naturals that is not empty has a least element. *)
LEMMA LeastNatural ==
  ASSUME NEW S \in SUBSET Nat, S # {}
  PROVE  \E x \in S : \A y \in S : x <= y
  <1> DEFINE F == {0..x : x \in S}
             R == StrictSubsetOrdering(Nat)
  <1>1. F \subseteq FiniteSubsetsOf(Nat)
    <2>1. \A x \in S : IsFiniteSet(0..x) /\ 0..x \subseteq Nat
      BY FS_Interval
    <2> QED BY <2>1 DEF FiniteSubsetsOf
  <1>2. PICK T \in F : \A U \in F : <<U, T>> \notin R
    <2>1. F # {}
      OBVIOUS
    <2>2. IsWellFoundedOn(R, FiniteSubsetsOf(Nat))
      BY FS_StrictSubsetOrderingWellFounded
    <2> HIDE DEF F, R
    <2> QED BY <2>1, <2>2, <1>1, WFMin
  <1>3. PICK x \in S : T = 0..x
    OBVIOUS
  <1>4. ASSUME NEW y \in S, y < x PROVE FALSE
    <2>1. 0..y \in F /\ 0..y \subseteq T /\ 0..y # T
      BY <1>3, <1>4
    <2>2. <<0..y, T>> \in R
      BY <2>1, <1>3 DEF StrictSubsetOrdering
    <2> QED BY <1>2, <2>1, <2>2
  <1> QED BY <1>4

(* A finite set of integers that is not empty has a greatest element. *)
LEMMA GreatestInteger ==
  ASSUME NEW S \in SUBSET Int, S # {}, IsFiniteSet(S)
  PROVE  \E x \in S : \A y \in S : x >= y
  <1> DEFINE Above(x) == {z \in S : z > x}
             F == {Above(x) : x \in S}
             R == StrictSubsetOrdering(S)
  <1>1. F \subseteq FiniteSubsetsOf(S)
    <2>1. \A x \in S : Above(x) \in SUBSET S
      OBVIOUS
    <2> QED BY <2>1, FS_FiniteSubsetsOfFinite
  <1>2. PICK T \in F : \A U \in F : <<U, T>> \notin R
    <2>1. F # {}
      OBVIOUS
    <2>2. IsWellFoundedOn(R, FiniteSubsetsOf(S))
      BY FS_StrictSubsetOrderingWellFounded
    <2> HIDE DEF F, R
    <2> QED BY <2>1, <2>2, <1>1, WFMin
  <1>3. PICK x \in S : T = Above(x)
    OBVIOUS
  <1>4. ASSUME NEW y \in S, y > x PROVE FALSE
    <2>1. Above(y) \in F
      OBVIOUS
    <2>3. Above(y) \subseteq Above(x)
      <3> SUFFICES ASSUME NEW z \in S, z > y PROVE z > x
        OBVIOUS
      <3>1. x \in Int /\ y \in Int /\ z \in Int
        OBVIOUS
      <3> QED BY <3>1, <1>4
    <2>4. y \in Above(x) /\ y \notin Above(y)
      <3>1. y \in Int
        OBVIOUS
      <3> QED BY <1>4, <3>1
    <2>2. <<Above(y), T>> \in R
      BY <2>3, <2>4, <1>3 DEF StrictSubsetOrdering
    <2> QED BY <1>2, <2>1, <2>2
  <1> QED BY <1>4

(* The two operators of FiniteSetsExt on such sets. *)
LEMMA MinNatural ==
  ASSUME NEW S \in SUBSET Nat, S # {}
  PROVE  Min(S) \in S /\ \A y \in S : Min(S) <= y
  BY LeastNatural DEF Min

(* Max, as the library defines it, is the greatest element. *)
LEMMA MaxInteger ==
  ASSUME NEW S \in SUBSET Int, S # {}, IsFiniteSet(S)
  PROVE  Max(S) \in S /\ \A y \in S : Max(S) >= y
  BY GreatestInteger DEF Max

(* The image of a finite set under a function is finite. *)
LEMMA FiniteImage ==
  ASSUME NEW f, IsFiniteSet(DOMAIN f)
  PROVE  IsFiniteSet({f[x] : x \in DOMAIN f})
  <1> DEFINE T == {f[x] : x \in DOMAIN f}
             h == [x \in DOMAIN f |-> f[x]]
  <1>1. h \in Surjection(DOMAIN f, T)
    BY DEF Surjection
  <1> QED BY <1>1, FS_Surjection

-----------------------------------------------------------------------------
(* Sums *)

(* The chips of a function of naturals on a finite domain are finitely     *)
(* many, so its sum is a natural number.                                   *)
LEMMA TotalType ==
  ASSUME NEW S, IsFiniteSet(S), NEW f \in [S -> Nat]
  PROVE  IsFiniteSet(Chips(f)) /\ Total(f) \in Nat
  <1> DEFINE h == [x \in S |-> {x} \X (1..f[x])]
             P == {h[x] : x \in DOMAIN h}
  <1>1. IsFiniteSet(P)
    BY FiniteImage
  <1>2. \A T \in P : IsFiniteSet(T)
    <2> SUFFICES ASSUME NEW x \in S PROVE IsFiniteSet({x} \X (1..f[x]))
      OBVIOUS
    <2>1. IsFiniteSet({x})
      BY FS_Singleton, Zenon
    <2>2. IsFiniteSet(1..f[x])
      BY FS_Interval
    <2> QED BY <2>1, <2>2, FS_Product
  <1>3. Chips(f) = UNION P
    BY DEF Chips
  <1>4. IsFiniteSet(Chips(f))
    <2> HIDE DEF P
    <2> QED BY <1>1, <1>2, <1>3, FS_UNION
  <1> QED BY <1>4, FS_CardinalityType DEF Total

-----------------------------------------------------------------------------
(* The pots *)

(* The sets of pots whose players are players of P. *)
PotsOver(P) ==
  {pots \in SUBSET [level : Nat, amount : Nat, eligiblePlayers : SUBSET P] :
     pots # {} /\ IsFiniteSet(pots)}

(* One pot alone. *)
LEMMA SinglePotType ==
  ASSUME NEW P, NEW level \in Nat, NEW amount \in Nat, NEW E \in SUBSET P
  PROVE  {MakePot(level, amount, E)} \in PotsOver(P)
  <1> DEFINE x == MakePot(level, amount, E)
  <1>1. x \in [level : Nat, amount : Nat, eligiblePlayers : SUBSET P]
    BY DEF MakePot
  <1> HIDE DEF x
  <1>2. IsFiniteSet({x})
    BY FS_Singleton, Zenon
  <1>3. {x} \in PotsOver(P)
    BY <1>1, <1>2 DEF PotsOver
  <1> QED BY <1>3 DEF x

(* reset() leaves one empty pot. *)
LEMMA ResetPotsType ==
  ASSUME NEW P
  PROVE  resetPots \in PotsOver(P)
  BY SinglePotType DEF resetPots

(* There is a main pot. *)
LEMMA MainPotType ==
  ASSUME NEW P, NEW pots \in PotsOver(P)
  PROVE  MainPot(pots) \in pots
  <1> DEFINE L == {x.level : x \in pots}
  <1>1. L \in SUBSET Nat /\ L # {}
    BY DEF PotsOver
  <1>2. PICK l \in L : \A m \in L : l <= m
    <2> HIDE DEF L
    <2> QED BY <1>1, LeastNatural
  <1>3. PICK x \in pots : x.level = l
    OBVIOUS
  <1>4. \A y \in pots : x.level <= y.level
    BY <1>2, <1>3
  <1> QED BY <1>4 DEF MainPot

(* The amounts of well-typed pots add up to a natural number. *)
LEMMA PotTotalType ==
  ASSUME NEW P, NEW pots \in PotsOver(P)
  PROVE  getTotalPotAmount(pots) \in Nat
  <1>1. [x \in pots |-> x.amount] \in [pots -> Nat] /\ IsFiniteSet(pots)
    BY DEF PotsOver
  <1> QED BY <1>1, TotalType DEF getTotalPotAmount

(* addBet() keeps the pots well-typed, and there is still one. *)
LEMMA AddBetType ==
  ASSUME NEW P, NEW pots \in PotsOver(P), NEW p \in P, NEW amount \in Nat
  PROVE  addBet(pots, p, amount) \in PotsOver(P)
  <1> DEFINE main == MainPot(pots)
             new == MakePot(main.level, main.amount + amount,
                            main.eligiblePlayers \cup {p})
  <1>1. main \in [level : Nat, amount : Nat, eligiblePlayers : SUBSET P]
    BY MainPotType DEF PotsOver
  <1>2. new \in [level : Nat, amount : Nat, eligiblePlayers : SUBSET P]
    <2> HIDE DEF main
    <2> QED BY <1>1 DEF MakePot
  <1>3. addBet(pots, p, amount) = (pots \ {main}) \cup {new}
    BY DEF addBet
  <1> HIDE DEF main, new
  <1>4. IsFiniteSet((pots \ {main}) \cup {new})
    <2>1. IsFiniteSet(pots \ {main})
      BY FS_RemoveElement DEF PotsOver
    <2> QED BY <2>1, FS_AddElement
  <1> QED BY <1>2, <1>3, <1>4 DEF PotsOver

(* The amounts players put in are finitely many. *)
LEMMA LevelsType ==
  ASSUME NEW P, IsFiniteSet(P), NEW players \in SUBSET P, NEW totalBet \in [P -> Nat]
  PROVE  LET levels == {totalBet[p] : p \in players} \ {0}
         IN  levels \in SUBSET (Nat \ {0}) /\ IsFiniteSet(levels)
  <1> DEFINE levels == {totalBet[p] : p \in players} \ {0}
             f == [p \in players |-> totalBet[p]]
  <1>1. IsFiniteSet(players)
    BY FS_Subset
  <1>2. IsFiniteSet({f[p] : p \in DOMAIN f})
    BY <1>1, FiniteImage
  <1>3. {f[p] : p \in DOMAIN f} = {totalBet[p] : p \in players}
    OBVIOUS
  <1>4. IsFiniteSet(levels)
    BY <1>2, <1>3, FS_RemoveElement
  <1> QED BY <1>4

(* The rebuilt pots are pots again: no amount is negative, because the     *)
(* level below a level is below it.                                        *)
LEMMA CreateSidePotsType ==
  ASSUME NEW P, IsFiniteSet(P), NEW pots \in PotsOver(P),
         NEW players \in SUBSET P, NEW totalBet \in [P -> Nat], NEW isFolded
  PROVE  createSidePots(pots, players, totalBet, isFolded) \in PotsOver(P)
  <1> DEFINE eligible == {p \in players : ~isFolded[p]}
             levels == {totalBet[p] : p \in players} \ {0}
             reached(l) == {p \in players : totalBet[p] >= l}
             betSize(l) == l - PreviousAmount(levels, l)
             pot(l) == MakePot(l, betSize(l) * Cardinality(reached(l)),
                               reached(l) \cap eligible)
             Rec == [level : Nat, amount : Nat, eligiblePlayers : SUBSET P]
  <1>1. levels \subseteq Nat /\ IsFiniteSet(levels)
    BY LevelsType
  <1>2. rebuildMainPotWithCorrectEligibility(pots, eligible) \in PotsOver(P)
    <2>1. eligible \in SUBSET P
      OBVIOUS
    <2>2. getTotalPotAmount(pots) \in Nat
      BY PotTotalType
    <2> HIDE DEF eligible
    <2> QED BY <2>1, <2>2, SinglePotType
         DEF rebuildMainPotWithCorrectEligibility
  <1>3. ASSUME NEW l \in levels PROVE betSize(l) \in Nat
    <2> DEFINE S == {0} \cup {m \in levels : m < l}
    <2>1. S \in SUBSET Int /\ S # {} /\ IsFiniteSet(S)
      <3>1. IsFiniteSet({m \in levels : m < l})
        BY <1>1, FS_Subset
      <3>2. IsFiniteSet({m \in levels : m < l} \cup {0})
        BY <3>1, FS_AddElement
      <3> QED BY <1>1, <3>2
    <2>2. l \in Nat
      BY <1>1
    <2>3. \A m \in S : m \in Int /\ m <= l
      BY <2>2, <1>1
    <2> HIDE DEF S, levels
    <2>4. Max(S) \in S /\ 0 <= Max(S)
      BY <2>1, MaxInteger DEF S
    <2>5. l - Max(S) \in Nat
      BY <2>2, <2>3, <2>4
    <2> QED BY <2>5 DEF PreviousAmount, S
  <1>4. ASSUME NEW l \in levels PROVE pot(l) \in Rec
    <2>1. reached(l) \in SUBSET P /\ reached(l) \cap eligible \in SUBSET P
      OBVIOUS
    <2>2. Cardinality(reached(l)) \in Nat
      BY <2>1, FS_Subset, FS_CardinalityType
    <2>3. betSize(l) \in Nat /\ l \in Nat
      BY <1>1, <1>3
    <2> HIDE DEF betSize, reached, eligible, levels
    <2>4. betSize(l) * Cardinality(reached(l)) \in Nat
      BY <2>2, <2>3
    <2> QED BY <2>1, <2>3, <2>4 DEF MakePot
  <1>5. CASE Cardinality(eligible) <= 1 \/ Cardinality(levels) <= 1
    BY <1>2, <1>5 DEF createSidePots
  <1>6. CASE ~(Cardinality(eligible) <= 1 \/ Cardinality(levels) <= 1)
    <2> DEFINE f == [l \in levels |-> pot(l)]
               new == {pot(l) : l \in levels}
    <2>1. createSidePots(pots, players, totalBet, isFolded) = new
      BY <1>6 DEF createSidePots
    <2>2. levels # {}
      <3>1. Cardinality({}) = 0
        BY FS_EmptySet
      <3> HIDE DEF levels
      <3> QED BY <1>6, <3>1
    <2>3. IsFiniteSet(new)
      <3> HIDE DEF pot, levels
      <3>1. IsFiniteSet({f[l] : l \in DOMAIN f})
        BY <1>1, FiniteImage
      <3> QED BY <3>1
    <2>4. new \in SUBSET Rec
      <3> HIDE DEF pot, levels, Rec
      <3> QED BY <1>4
    <2> HIDE DEF pot, levels
    <2> QED BY <2>1, <2>2, <2>3, <2>4 DEF PotsOver
  <1> QED BY <1>5, <1>6

(* A share of a pot is a natural number when somebody gets it. *)
LEMMA ShareType ==
  ASSUME NEW W, IsFiniteSet(W), W # {}, NEW amount \in Nat, NEW seat, NEW p
  PROVE  Share(amount, W, seat, p) \in Nat
  <1>1. Cardinality(W) \in Nat \ {0}
    BY FS_CardinalityType, FS_EmptySet
  <1>2. \A n \in Nat \ {0} : amount \div n \in Nat
    OBVIOUS
  <1>3. amount \div Cardinality(W) \in Nat
    BY <1>1, <1>2
  <1> QED BY <1>3 DEF Share

(* Nobody wins a negative number of chips. *)
LEMMA WinningsType ==
  ASSUME NEW P, IsFiniteSet(P), NEW pots \in PotsOver(P), NEW strength,
         NEW remaining, NEW seat, NEW p
  PROVE  Winnings(pots, strength, remaining, seat, p) \in Nat
  <1> DEFINE W(x) == Recipients(x, strength, remaining)
             D == {x \in pots : p \in W(x)}
             f == [x \in D |-> Share(x.amount, W(x), seat, p)]
  <1>1. IsFiniteSet(D)
    BY FS_Subset DEF PotsOver
  <1>2. ASSUME NEW x \in D PROVE Share(x.amount, W(x), seat, p) \in Nat
    <2>1. x.amount \in Nat /\ x.eligiblePlayers \in SUBSET P /\ p \in W(x)
      BY DEF PotsOver
    <2>2. W(x) \in SUBSET x.eligiblePlayers
      BY DEF Recipients
    <2>3. IsFiniteSet(W(x)) /\ W(x) # {}
      BY <2>1, <2>2, FS_Subset
    <2> QED BY <2>1, <2>3, ShareType
  <1>3. f \in [D -> Nat]
    <2> HIDE DEF D, W
    <2> QED BY <1>2
  <1>4. Winnings(pots, strength, remaining, seat, p) = Total(f)
    BY DEF Winnings
  <1> HIDE DEF f, D
  <1> QED BY <1>1, <1>3, <1>4, TotalType

-----------------------------------------------------------------------------
(* Sums *)

(* Two finite sets with a bijection between them, given pointwise. *)
LEMMA SameCount ==
  ASSUME NEW S, IsFiniteSet(S), NEW T, NEW h \in [S -> T],
         \A x, y \in S : h[x] = h[y] => x = y,
         \A z \in T : \E x \in S : h[x] = z
  PROVE  IsFiniteSet(T) /\ Cardinality(T) = Cardinality(S)
  <1>1. h \in Bijection(S, T)
    BY DEF Bijection, Injection, Surjection, IsInjective
  <1>2. ExistsBijection(S, T)
    BY <1>1 DEF ExistsBijection
  <1> QED BY <1>2, FS_Bijection

(* The chips of a function, one by one. *)
LEMMA ChipsOf ==
  ASSUME NEW S, NEW f \in [S -> Nat]
  PROVE  /\ \A x \in S : \A i \in 1..f[x] : <<x, i>> \in Chips(f)
         /\ \A c \in Chips(f) : /\ c = <<c[1], c[2]>>
                                /\ c[1] \in S /\ c[2] \in 1..f[c[1]]
  BY DEF Chips

(* The parts C[x] make up the set U, and C[x] has f[x] elements. *)
Blocks(C, S, f, U) ==
  /\ f \in [S -> Nat]
  /\ \A x \in S : /\ IsFiniteSet(C[x]) /\ Cardinality(C[x]) = f[x]
                  /\ \A z \in C[x] : z \in U
  /\ \A x, y \in S : x # y => C[x] \cap C[y] = {}
  /\ \A z \in U : \E x \in S : z \in C[x]

(* A set that is divided into parts has as many elements as the sizes of   *)
(* the parts add up to.                                                    *)
LEMMA PartitionTotal ==
  ASSUME NEW S, IsFiniteSet(S), NEW f, NEW C, NEW U, Blocks(C, S, f, U)
  PROVE  IsFiniteSet(U) /\ Cardinality(U) = Total(f)
  <1> DEFINE e == [x \in S |-> CHOOSE b : b \in Bijection(1..f[x], C[x])]
             h == [c \in Chips(f) |-> e[c[1]][c[2]]]
  <1>0. /\ f \in [S -> Nat]
        /\ \A x \in S : /\ IsFiniteSet(C[x]) /\ Cardinality(C[x]) = f[x]
                        /\ \A z \in C[x] : z \in U
        /\ \A x, y \in S : x # y => C[x] \cap C[y] = {}
        /\ \A z \in U : \E x \in S : z \in C[x]
    BY DEF Blocks
  <1>1. ASSUME NEW x \in S
        PROVE  /\ \A i \in 1..f[x] : e[x][i] \in C[x]
               /\ \A i, j \in 1..f[x] : e[x][i] = e[x][j] => i = j
               /\ \A z \in C[x] : \E i \in 1..f[x] : e[x][i] = z
    <2>1. ExistsBijection(1..f[x], C[x])
      BY <1>0, FS_CardinalityType
    <2>2. e[x] \in Bijection(1..f[x], C[x])
      BY <2>1 DEF ExistsBijection
    <2> HIDE DEF e
    <2> QED BY <2>2 DEF Bijection, Injection, Surjection, IsInjective
  <1> HIDE DEF e
  <1>2. h \in [Chips(f) -> U]
    BY <1>0, <1>1, ChipsOf
  <1>3. ASSUME NEW c \in Chips(f), NEW d \in Chips(f), h[c] = h[d] PROVE c = d
    <2>1. /\ c = <<c[1], c[2]>> /\ c[1] \in S /\ c[2] \in 1..f[c[1]]
          /\ d = <<d[1], d[2]>> /\ d[1] \in S /\ d[2] \in 1..f[d[1]]
      BY <1>0, ChipsOf
    <2>2. e[c[1]][c[2]] = e[d[1]][d[2]]
      BY <1>3
    <2>3. e[c[1]][c[2]] \in C[c[1]] /\ e[d[1]][d[2]] \in C[d[1]]
      BY <1>1, <2>1
    <2>4. c[1] = d[1]
      BY <1>0, <2>1, <2>2, <2>3
    <2>5. c[2] = d[2]
      BY <1>1, <2>1, <2>2, <2>4
    <2> QED BY <2>1, <2>4, <2>5
  <1>4. ASSUME NEW z \in U PROVE \E c \in Chips(f) : h[c] = z
    <2>1. PICK x \in S : z \in C[x]
      BY <1>0
    <2>2. PICK i \in 1..f[x] : e[x][i] = z
      BY <1>1, <2>1
    <2>3. <<x, i>> \in Chips(f) /\ <<x, i>>[1] = x /\ <<x, i>>[2] = i
      BY <1>0, ChipsOf
    <2>4. h[<<x, i>>] = z
      BY <2>2, <2>3
    <2> QED BY <2>3, <2>4
  <1>5. IsFiniteSet(Chips(f))
    BY <1>0, TotalType
  <1> HIDE DEF h
  <1>6. IsFiniteSet(U) /\ Cardinality(U) = Cardinality(Chips(f))
    BY <1>2, <1>3, <1>4, <1>5, SameCount
  <1> QED BY <1>6 DEF Total

(* A sum of sums is a sum. *)
LEMMA TotalAdd ==
  ASSUME NEW S, IsFiniteSet(S), NEW f \in [S -> Nat], NEW g \in [S -> Nat],
         NEW h \in [S -> Nat], \A x \in S : h[x] = f[x] + g[x]
  PROVE  Total(h) = Total(f) + Total(g)
  <1> DEFINE F == Chips(f)
             R == Chips(h) \ F
             k == [c \in Chips(g) |-> <<c[1], c[2] + f[c[1]]>>]
  <1>1. F \subseteq Chips(h)
    <2> SUFFICES ASSUME NEW c \in F PROVE c \in Chips(h)
      OBVIOUS
    <2>1. c = <<c[1], c[2]>> /\ c[1] \in S /\ c[2] \in 1..f[c[1]]
      BY ChipsOf
    <2>2. c[2] \in 1..h[c[1]]
      BY <2>1
    <2>3. <<c[1], c[2]>> \in Chips(h)
      BY <2>1, <2>2, ChipsOf
    <2> QED BY <2>1, <2>3
  <1>2. ASSUME NEW c \in Chips(g)
        PROVE  /\ c = <<c[1], c[2]>> /\ c[1] \in S /\ c[2] \in 1..g[c[1]]
               /\ f[c[1]] \in Nat /\ k[c] = <<c[1], c[2] + f[c[1]]>>
               /\ k[c] \in R /\ c[2] \in Int
    <2>1. c = <<c[1], c[2]>> /\ c[1] \in S /\ c[2] \in 1..g[c[1]]
      BY ChipsOf
    <2>2. f[c[1]] \in Nat /\ g[c[1]] \in Nat /\ h[c[1]] = f[c[1]] + g[c[1]]
      BY <2>1
    <2> DEFINE x == c[1]
               i == c[2] + f[c[1]]
    <2>3. i \in 1..h[x] /\ i \notin 1..f[x] /\ x \in S
      BY <2>1, <2>2
    <2> HIDE DEF x, i
    <2>4. <<x, i>> \in Chips(h)
      BY <2>3, ChipsOf
    <2>5. <<x, i>> \notin F
      BY <2>3, ChipsOf
    <2>6. c[2] \in Int
      BY <2>1, <2>2
    <2> QED BY <2>1, <2>2, <2>4, <2>5, <2>6 DEF x, i
  <1>3. k \in [Chips(g) -> R]
    BY <1>2
  <1>4. ASSUME NEW c \in Chips(g), NEW d \in Chips(g), k[c] = k[d] PROVE c = d
    <2>1. c[1] = d[1] /\ c[2] + f[c[1]] = d[2] + f[d[1]]
      BY <1>2, <1>4
    <2> DEFINE i == c[2]
               j == d[2]
               n == f[c[1]]
    <2>2. i \in Int /\ j \in Int /\ n \in Nat /\ i + n = j + n
      BY <1>2, <2>1
    <2> HIDE DEF i, j, n
    <2>3. i = j
      BY <2>2
    <2> QED BY <1>2, <2>1, <2>3 DEF i, j
  <1>5. ASSUME NEW c \in R PROVE \E d \in Chips(g) : k[d] = c
    <2>1. c = <<c[1], c[2]>> /\ c[1] \in S /\ c[2] \in 1..h[c[1]]
      BY ChipsOf
    <2>2. c[2] \notin 1..f[c[1]]
      <3>1. CASE c[2] \in 1..f[c[1]]
        <4>1. <<c[1], c[2]>> \in Chips(f)
          BY <2>1, <3>1, ChipsOf
        <4> QED BY <2>1, <4>1
      <3> QED BY <3>1
    <2> DEFINE x == c[1]
               i == c[2] - f[c[1]]
    <2>3. x \in S /\ i \in 1..g[x] /\ i + f[x] = c[2]
      <3>1. f[c[1]] \in Nat /\ g[c[1]] \in Nat /\ h[c[1]] = f[c[1]] + g[c[1]]
        BY <2>1
      <3> QED BY <2>1, <2>2, <3>1
    <2> HIDE DEF x, i
    <2>4. <<x, i>> \in Chips(g) /\ <<x, i>>[1] = x /\ <<x, i>>[2] = i
      BY <2>3, ChipsOf
    <2>5. k[<<x, i>>] = c
      BY <2>1, <2>3, <2>4 DEF x
    <2> QED BY <2>4, <2>5
  <1>6. /\ IsFiniteSet(Chips(h)) /\ IsFiniteSet(F) /\ IsFiniteSet(Chips(g))
        /\ Total(h) \in Nat /\ Total(f) \in Nat /\ Total(g) \in Nat
    BY TotalType
  <1>7. Cardinality(R) = Total(g)
    <2> HIDE DEF k, R
    <2> QED BY <1>3, <1>4, <1>5, <1>6, SameCount DEF Total
  <1>8. Cardinality(R) = Total(h) - Total(f)
    <2>1. Chips(h) \cap F = F
      BY <1>1
    <2>2. Cardinality(Chips(h) \ F) = Cardinality(Chips(h)) - Cardinality(F)
      <3> DEFINE H == Chips(h)
      <3>1. IsFiniteSet(H) /\ H \cap F = F
        BY <1>6, <2>1
      <3> HIDE DEF F, H
      <3>2. Cardinality(H \ F) = Cardinality(H) - Cardinality(H \cap F)
        BY <3>1, FS_Difference
      <3> QED BY <3>1, <3>2 DEF H
    <2> QED BY <2>2 DEF Total
  <1> QED BY <1>6, <1>7, <1>8

(* Players without chips add nothing to a sum. *)
LEMMA TotalRestrict ==
  ASSUME NEW S, NEW f \in [S -> Nat], NEW T \in SUBSET S,
         \A x \in S \ T : f[x] = 0, NEW g \in [T -> Nat], \A x \in T : g[x] = f[x]
  PROVE  Total(f) = Total(g)
  <1>1. ASSUME NEW c \in Chips(f) PROVE c \in Chips(g)
    <2>1. c = <<c[1], c[2]>> /\ c[1] \in S /\ c[2] \in 1..f[c[1]]
      BY ChipsOf
    <2>2. f[c[1]] # 0
      BY <2>1
    <2>3. c[1] \in T /\ c[2] \in 1..g[c[1]]
      BY <2>1, <2>2
    <2>4. <<c[1], c[2]>> \in Chips(g)
      BY <2>3, ChipsOf
    <2> QED BY <2>1, <2>4
  <1>2. ASSUME NEW c \in Chips(g) PROVE c \in Chips(f)
    <2>1. c = <<c[1], c[2]>> /\ c[1] \in T /\ c[2] \in 1..g[c[1]]
      BY ChipsOf
    <2>2. c[1] \in S /\ c[2] \in 1..f[c[1]]
      BY <2>1
    <2>3. <<c[1], c[2]>> \in Chips(f)
      BY <2>2, ChipsOf
    <2> QED BY <2>1, <2>3
  <1>3. Chips(f) = Chips(g)
    BY <1>1, <1>2
  <1> QED BY <1>3 DEF Total

(* A sum of zeros. *)
LEMMA TotalZero ==
  ASSUME NEW S, NEW f \in [S -> Nat], \A x \in S : f[x] = 0
  PROVE  Total(f) = 0
  <1>1. Chips(f) = {}
    <2> SUFFICES ASSUME NEW c \in Chips(f) PROVE FALSE
      OBVIOUS
    <2>1. c[1] \in S /\ c[2] \in 1..f[c[1]]
      BY ChipsOf
    <2>2. f[c[1]] = 0
      BY <2>1
    <2> QED BY <2>1, <2>2
  <1> QED BY <1>1, FS_EmptySet DEF Total

(* Only x has chips. *)
LEMMA TotalSingle ==
  ASSUME NEW S, NEW f \in [S -> Nat], NEW x \in S,
         \A y \in S \ {x} : f[y] = 0
  PROVE  Total(f) = f[x]
  <1> DEFINE h == [i \in 1..f[x] |-> <<x, i>>]
  <1>1. h \in [1..f[x] -> Chips(f)]
    BY ChipsOf
  <1>2. \A i, j \in 1..f[x] : h[i] = h[j] => i = j
    OBVIOUS
  <1>3. ASSUME NEW c \in Chips(f) PROVE \E i \in 1..f[x] : h[i] = c
    <2>1. c = <<c[1], c[2]>> /\ c[1] \in S /\ c[2] \in 1..f[c[1]]
      BY ChipsOf
    <2>2. f[c[1]] # 0
      BY <2>1
    <2>3. c[1] = x
      BY <2>1, <2>2
    <2> QED BY <2>1, <2>3
  <1>4. IsFiniteSet(1..f[x]) /\ Cardinality(1..f[x]) = f[x]
    <2>1. f[x] \in Nat
      OBVIOUS
    <2> QED BY <2>1, FS_Interval
  <1> HIDE DEF h
  <1>5. Cardinality(Chips(f)) = Cardinality(1..f[x])
    BY <1>1, <1>2, <1>3, <1>4, SameCount
  <1> QED BY <1>4, <1>5 DEF Total

(* One player gets a chips more. *)
LEMMA TotalIncrease ==
  ASSUME NEW S, IsFiniteSet(S), NEW f \in [S -> Nat], NEW g \in [S -> Nat],
         NEW x \in S, NEW a \in Nat, g[x] = f[x] + a,
         \A y \in S \ {x} : g[y] = f[y]
  PROVE  Total(g) = Total(f) + a
  <1> DEFINE d == [y \in S |-> IF y = x THEN a ELSE 0]
  <1>1. d \in [S -> Nat] /\ \A y \in S : g[y] = f[y] + d[y]
    OBVIOUS
  <1>2. Total(d) = a
    <2>1. d[x] = a /\ \A y \in S \ {x} : d[y] = 0
      OBVIOUS
    <2> HIDE DEF d
    <2> QED BY <1>1, <2>1, TotalSingle
  <1> HIDE DEF d
  <1> QED BY <1>1, <1>2, TotalAdd

(* More chips for some and fewer for nobody. *)
LEMMA TotalMonotone ==
  ASSUME NEW S, IsFiniteSet(S), NEW f \in [S -> Nat], NEW g \in [S -> Nat],
         \A x \in S : f[x] <= g[x]
  PROVE  Total(f) <= Total(g)
  <1> DEFINE d == [x \in S |-> g[x] - f[x]]
  <1>1. d \in [S -> Nat]
    OBVIOUS
  <1>2. \A x \in S : g[x] = f[x] + d[x]
    OBVIOUS
  <1> HIDE DEF d
  <1>3. Total(g) = Total(f) + Total(d)
    BY <1>1, <1>2, TotalAdd
  <1> QED BY <1>1, <1>3, TotalType

(* row[s] is row s of the table m of numbers, with a row for every member  *)
(* of S and a column for every member of T, and r[s] is its sum.           *)
RowsOf(row, m, S, T) ==
  /\ m \in [S \X T -> Nat]
  /\ \A s \in S : /\ row[s] \in [T -> Nat]
                  /\ \A t \in T : row[s][t] = m[<<s, t>>]
ColumnsOf(col, m, S, T) ==
  /\ m \in [S \X T -> Nat]
  /\ \A t \in T : /\ col[t] \in [S -> Nat]
                  /\ \A s \in S : col[t][s] = m[<<s, t>>]
SumsOf(r, row, S) == \A s \in S : r[s] = Total(row[s])

(* The chips of a table of numbers, counted row by row. *)
LEMMA RowTotals ==
  ASSUME NEW S, IsFiniteSet(S), NEW T, IsFiniteSet(T), NEW m,
         NEW row, RowsOf(row, m, S, T),
         NEW r \in [S -> Nat], SumsOf(r, row, S)
  PROVE  Total(r) = Total(m)
  <1> DEFINE C == [s \in S |-> {c \in Chips(m) : c[1][1] = s}]
  <1>0. m \in [S \X T -> Nat]
    BY DEF RowsOf
  <1>1. ASSUME NEW s \in S
        PROVE  IsFiniteSet(C[s]) /\ Cardinality(C[s]) = r[s]
    <2> DEFINE f == row[s]
               h == [c \in Chips(f) |-> <<<<s, c[1]>>, c[2]>>]
    <2>1. f \in [T -> Nat] /\ \A t \in T : f[t] = m[<<s, t>>]
      BY DEF RowsOf
    <2>2. r[s] = Cardinality(Chips(f)) /\ IsFiniteSet(Chips(f))
      <3>1. r[s] = Total(f)
        BY DEF SumsOf
      <3> HIDE DEF f
      <3> QED BY <2>1, <3>1, TotalType DEF Total
    <2> HIDE DEF f
    <2>3. ASSUME NEW c \in Chips(f)
          PROVE  /\ c = <<c[1], c[2]>>
                 /\ h[c] = <<<<s, c[1]>>, c[2]>> /\ h[c] \in C[s]
      <3>1. c = <<c[1], c[2]>> /\ c[1] \in T /\ c[2] \in 1..f[c[1]]
        BY <2>1, ChipsOf
      <3>2. <<s, c[1]>> \in S \X T /\ c[2] \in 1..m[<<s, c[1]>>]
        BY <2>1, <3>1
      <3>3. <<<<s, c[1]>>, c[2]>> \in Chips(m)
        BY <1>0, <3>2, ChipsOf
      <3> QED BY <3>1, <3>3
    <2>4. h \in [Chips(f) -> C[s]]
      <3> HIDE DEF C
      <3> QED BY <2>3
    <2>5. \A c, d \in Chips(f) : h[c] = h[d] => c = d
      <3> SUFFICES ASSUME NEW c \in Chips(f), NEW d \in Chips(f), h[c] = h[d]
                   PROVE  c = d
        OBVIOUS
      <3>1. c[1] = d[1] /\ c[2] = d[2]
        BY <2>3
      <3> QED BY <2>3, <3>1
    <2>6. ASSUME NEW z \in C[s] PROVE \E c \in Chips(f) : h[c] = z
      <3>1. z \in Chips(m) /\ z[1][1] = s
        OBVIOUS
      <3>2. z = <<z[1], z[2]>> /\ z[1] \in S \X T /\ z[2] \in 1..m[z[1]]
        BY <1>0, <3>1, ChipsOf
      <3>3. PICK t \in T : z[1] = <<s, t>>
        BY <3>1, <3>2
      <3>4. <<t, z[2]>> \in Chips(f)
        BY <2>1, <3>2, <3>3, ChipsOf
      <3>5. h[<<t, z[2]>>] = <<<<s, t>>, z[2]>>
        BY <3>4
      <3> QED BY <3>2, <3>3, <3>4, <3>5
    <2> HIDE DEF h, C
    <2> QED BY <2>2, <2>4, <2>5, <2>6, SameCount
  <1>2. \A x, y \in S : x # y => C[x] \cap C[y] = {}
    OBVIOUS
  <1>3. \A s \in S : C[s] \subseteq Chips(m)
    OBVIOUS
  <1>4. ASSUME NEW c \in Chips(m) PROVE \E s \in S : c \in C[s]
    <2>1. c[1] \in S \X T
      BY <1>0, ChipsOf
    <2>2. c[1][1] \in S
      BY <2>1
    <2> QED BY <2>2
  <1> HIDE DEF C
  <1>5. Cardinality(Chips(m)) = Total(r)
    <2>1. Blocks(C, S, r, Chips(m))
      BY <1>1, <1>2, <1>3, <1>4 DEF Blocks
    <2> QED BY <2>1, PartitionTotal
  <1> QED BY <1>5 DEF Total

(* The same for columns. *)
LEMMA ColumnTotals ==
  ASSUME NEW S, IsFiniteSet(S), NEW T, IsFiniteSet(T), NEW m,
         NEW col, ColumnsOf(col, m, S, T),
         NEW r \in [T -> Nat], SumsOf(r, col, T)
  PROVE  Total(r) = Total(m)
  <1> DEFINE w == [x \in T \X S |-> m[<<x[2], x[1]>>]]
             h == [c \in Chips(m) |-> <<<<c[1][2], c[1][1]>>, c[2]>>]
  <1>0. m \in [S \X T -> Nat]
    BY DEF ColumnsOf
  <1>1. w \in [T \X S -> Nat]
    BY <1>0
  <1>3. ASSUME NEW s \in S, NEW t \in T PROVE w[<<t, s>>] = m[<<s, t>>]
    OBVIOUS
  <1> HIDE DEF w
  <1>4. Total(r) = Total(w)
    <2>1. ASSUME NEW t \in T, NEW s \in S
          PROVE  col[t] \in [S -> Nat] /\ col[t][s] = w[<<t, s>>]
      BY <1>3, Zenon DEF ColumnsOf
    <2>2. ASSUME NEW t \in T PROVE col[t] \in [S -> Nat]
      BY Zenon DEF ColumnsOf
    <2>3. RowsOf(col, w, T, S)
      BY <1>1, <2>1, <2>2, Zenon DEF RowsOf
    <2> QED BY <1>1, <2>3, RowTotals
  <1>5. ASSUME NEW c \in Chips(m)
        PROVE  \E s \in S, t \in T, i \in Nat :
                 /\ c = <<<<s, t>>, i>>
                 /\ h[c] = <<<<t, s>>, i>> /\ h[c] \in Chips(w)
    <2>1. c = <<c[1], c[2]>> /\ c[1] \in S \X T /\ c[2] \in 1..m[c[1]]
      BY <1>0, ChipsOf
    <2>2. PICK s \in S, t \in T : c[1] = <<s, t>>
      BY <2>1
    <2>3. <<t, s>> \in T \X S /\ c[2] \in 1..w[<<t, s>>]
      BY <1>3, <2>1, <2>2
    <2>4. <<<<t, s>>, c[2]>> \in Chips(w)
      BY <1>1, <2>3, ChipsOf
    <2>5. h[c] = <<<<t, s>>, c[2]>>
      BY <2>2
    <2>6. c[2] \in Nat
      BY <1>0, <2>1, <2>2
    <2> HIDE DEF h
    <2> QED BY <2>1, <2>2, <2>4, <2>5, <2>6
  <1>6. h \in [Chips(m) -> Chips(w)]
    BY <1>5
  <1>7. \A c, d \in Chips(m) : h[c] = h[d] => c = d
    <2> HIDE DEF h
    <2> QED BY <1>5
  <1>8. ASSUME NEW z \in Chips(w) PROVE \E c \in Chips(m) : h[c] = z
    <2>1. z = <<z[1], z[2]>> /\ z[1] \in T \X S /\ z[2] \in 1..w[z[1]]
      BY <1>1, ChipsOf
    <2>2. PICK s \in S, t \in T : z[1] = <<t, s>>
      BY <2>1
    <2>3. <<s, t>> \in S \X T /\ z[2] \in 1..m[<<s, t>>]
      BY <1>3, <2>1, <2>2
    <2>4. <<<<s, t>>, z[2]>> \in Chips(m)
      BY <1>0, <2>3, ChipsOf
    <2>5. h[<<<<s, t>>, z[2]>>] = <<<<t, s>>, z[2]>>
      BY <2>4
    <2> QED BY <2>1, <2>2, <2>4, <2>5
  <1>9. IsFiniteSet(Chips(m))
    BY <1>0, FS_Product, TotalType
  <1> HIDE DEF h
  <1>10. Cardinality(Chips(w)) = Cardinality(Chips(m))
    BY <1>6, <1>7, <1>8, <1>9, SameCount
  <1> QED BY <1>4, <1>10 DEF Total

-----------------------------------------------------------------------------
(* Sums over pots *)

(* b renames the members of S to those of T, and f is g under it. *)
Renaming(b, S, f, T, g) ==
  /\ f \in [S -> Nat] /\ g \in [T -> Nat]
  /\ \A x \in S : b[x] \in T /\ g[b[x]] = f[x]
  /\ \A x, y \in S : b[x] = b[y] => x = y
  /\ \A z \in T : \E x \in S : b[x] = z

(* The same numbers under other names. *)
LEMMA TotalReindex ==
  ASSUME NEW S, IsFiniteSet(S), NEW f, NEW T, NEW g, NEW b, Renaming(b, S, f, T, g)
  PROVE  Total(f) = Total(g)
  <1> DEFINE h == [c \in Chips(f) |-> <<b[c[1]], c[2]>>]
  <1>0. /\ f \in [S -> Nat] /\ g \in [T -> Nat]
        /\ \A x \in S : b[x] \in T /\ g[b[x]] = f[x]
        /\ \A x, y \in S : b[x] = b[y] => x = y
        /\ \A z \in T : \E x \in S : b[x] = z
    BY DEF Renaming
  <1>1. ASSUME NEW c \in Chips(f)
        PROVE  /\ c = <<c[1], c[2]>> /\ c[1] \in S
               /\ h[c] = <<b[c[1]], c[2]>> /\ h[c] \in Chips(g)
    <2>1. c = <<c[1], c[2]>> /\ c[1] \in S /\ c[2] \in 1..f[c[1]]
      BY <1>0, ChipsOf
    <2>2. b[c[1]] \in T /\ c[2] \in 1..g[b[c[1]]]
      BY <1>0, <2>1
    <2>3. <<b[c[1]], c[2]>> \in Chips(g)
      BY <1>0, <2>2, ChipsOf
    <2> QED BY <2>1, <2>3
  <1>2. h \in [Chips(f) -> Chips(g)]
    BY <1>1
  <1>3. \A c, d \in Chips(f) : h[c] = h[d] => c = d
    <2> SUFFICES ASSUME NEW c \in Chips(f), NEW d \in Chips(f), h[c] = h[d]
                 PROVE  c = d
      OBVIOUS
    <2>1. b[c[1]] = b[d[1]] /\ c[2] = d[2]
      BY <1>1
    <2>2. c[1] = d[1]
      BY <1>0, <1>1, <2>1
    <2> QED BY <1>1, <2>1, <2>2
  <1>4. ASSUME NEW z \in Chips(g) PROVE \E c \in Chips(f) : h[c] = z
    <2>1. z = <<z[1], z[2]>> /\ z[1] \in T /\ z[2] \in 1..g[z[1]]
      BY <1>0, ChipsOf
    <2>2. PICK x \in S : b[x] = z[1]
      BY <1>0, <2>1
    <2>3. <<x, z[2]>> \in Chips(f)
      BY <1>0, <2>1, <2>2, ChipsOf
    <2>4. h[<<x, z[2]>>] = z
      BY <2>1, <2>2, <2>3
    <2> QED BY <2>3, <2>4
  <1>5. IsFiniteSet(Chips(f))
    BY <1>0, TotalType
  <1> HIDE DEF h
  <1>6. Cardinality(Chips(g)) = Cardinality(Chips(f))
    BY <1>2, <1>3, <1>4, <1>5, SameCount
  <1> QED BY <1>6 DEF Total

(* One summand apart. *)
LEMMA TotalSplit ==
  ASSUME NEW S, IsFiniteSet(S), NEW f \in [S -> Nat], NEW x \in S,
         NEW g \in [S \ {x} -> Nat], \A y \in S \ {x} : g[y] = f[y]
  PROVE  Total(f) = Total(g) + f[x]
  <1> DEFINE z == [f EXCEPT ![x] = 0]
  <1>1. z \in [S -> Nat] /\ z[x] = 0 /\ \A y \in S \ {x} : z[y] = f[y]
    OBVIOUS
  <1>2. f[x] \in Nat /\ f[x] = z[x] + f[x]
    BY <1>1
  <1> HIDE DEF z
  <1>3. Total(f) = Total(z) + f[x]
    BY <1>1, <1>2, TotalIncrease
  <1>4. Total(z) = Total(g)
    <2> DEFINE T == S \ {x}
    <2>1. T \in SUBSET S /\ g \in [T -> Nat] /\ \A y \in T : g[y] = z[y]
      BY <1>1
    <2>2. \A y \in S \ T : z[y] = 0
      BY <1>1
    <2> HIDE DEF T
    <2> QED BY <1>1, <2>1, <2>2, TotalRestrict
  <1> QED BY <1>3, <1>4

(* The same number for everybody. *)
LEMMA TotalConstant ==
  ASSUME NEW S, IsFiniteSet(S), NEW c \in Nat, NEW f \in [S -> Nat],
         \A x \in S : f[x] = c
  PROVE  Total(f) = Cardinality(S) * c
  <1>1. ASSUME NEW z PROVE z \in Chips(f) <=> z \in S \X (1..c)
    <2>1. ASSUME z \in Chips(f) PROVE z \in S \X (1..c)
      <3>1. z = <<z[1], z[2]>> /\ z[1] \in S /\ z[2] \in 1..f[z[1]]
        BY <2>1, ChipsOf
      <3> QED BY <3>1
    <2>2. ASSUME z \in S \X (1..c) PROVE z \in Chips(f)
      <3>1. z = <<z[1], z[2]>> /\ z[1] \in S /\ z[2] \in 1..f[z[1]]
        BY <2>2
      <3>2. <<z[1], z[2]>> \in Chips(f)
        BY <3>1, ChipsOf
      <3> QED BY <3>1, <3>2
    <2> QED BY <2>1, <2>2
  <1>2. Chips(f) = S \X (1..c)
    BY <1>1
  <1>3. IsFiniteSet(1..c) /\ Cardinality(1..c) = c
    BY FS_Interval
  <1>4. Cardinality(S \X (1..c)) = Cardinality(S) * Cardinality(1..c)
    BY <1>3, FS_Product
  <1> QED BY <1>2, <1>3, <1>4 DEF Total

(* The numbers g are the same, k[x], all over the part B[x] of U.          *)
EvenOver(g, U, B, S, k) ==
  /\ g \in [U -> Nat] /\ k \in [S -> Nat]
  /\ \A x \in S : \A u \in B[x] : g[u] = k[x]

(* A sum of numbers that are the same in every part. *)
LEMMA TotalByParts ==
  ASSUME NEW S, IsFiniteSet(S), NEW B, NEW size, NEW U, Blocks(B, S, size, U),
         NEW g, NEW k, EvenOver(g, U, B, S, k),
         NEW t \in [S -> Nat], \A x \in S : t[x] = size[x] * k[x]
  PROVE  Total(g) = Total(t)
  <1> DEFINE C == [x \in S |-> B[x] \X (1..k[x])]
  <1>0. /\ size \in [S -> Nat] /\ g \in [U -> Nat] /\ k \in [S -> Nat]
        /\ \A x \in S : /\ IsFiniteSet(B[x]) /\ Cardinality(B[x]) = size[x]
                        /\ \A z \in B[x] : z \in U /\ g[z] = k[x]
        /\ \A x, y \in S : x # y => B[x] \cap B[y] = {}
        /\ \A z \in U : \E x \in S : z \in B[x]
    BY DEF Blocks, EvenOver
  <1>1. ASSUME NEW x \in S PROVE IsFiniteSet(C[x]) /\ Cardinality(C[x]) = t[x]
    <2>1. k[x] \in Nat /\ C[x] = B[x] \X (1..k[x])
      BY <1>0
    <2>2. IsFiniteSet(1..k[x]) /\ Cardinality(1..k[x]) = k[x]
      BY <2>1, FS_Interval
    <2> HIDE DEF C
    <2>3. /\ IsFiniteSet(B[x] \X (1..k[x]))
          /\ Cardinality(B[x] \X (1..k[x])) = Cardinality(B[x]) * Cardinality(1..k[x])
      BY <1>0, <2>2, FS_Product
    <2> QED BY <1>0, <2>1, <2>2, <2>3
  <1>2. ASSUME NEW x \in S, NEW z \in C[x]
        PROVE  z = <<z[1], z[2]>> /\ z[1] \in B[x] /\ z \in Chips(g)
    <2>1. z = <<z[1], z[2]>> /\ z[1] \in B[x] /\ z[2] \in 1..k[x]
      OBVIOUS
    <2>2. z[1] \in U /\ z[2] \in 1..g[z[1]]
      BY <1>0, <2>1
    <2>3. <<z[1], z[2]>> \in Chips(g)
      BY <1>0, <2>2, ChipsOf
    <2> QED BY <2>1, <2>3
  <1>3. ASSUME NEW z \in Chips(g) PROVE \E x \in S : z \in C[x]
    <2>1. z = <<z[1], z[2]>> /\ z[1] \in U /\ z[2] \in 1..g[z[1]]
      BY <1>0, ChipsOf
    <2>2. PICK x \in S : z[1] \in B[x]
      BY <1>0, <2>1
    <2>3. z[2] \in 1..k[x]
      BY <1>0, <2>1, <2>2
    <2> QED BY <2>1, <2>2, <2>3
  <1> HIDE DEF C
  <1>4. \A x, y \in S : x # y => C[x] \cap C[y] = {}
    <2> SUFFICES ASSUME NEW x \in S, NEW y \in S, x # y,
                        NEW z \in C[x] \cap C[y]
                 PROVE  FALSE
      OBVIOUS
    <2>1. z[1] \in B[x] \cap B[y]
      BY <1>2
    <2> QED BY <1>0, <2>1
  <1>5. Blocks(C, S, t, Chips(g))
    BY <1>1, <1>2, <1>3, <1>4 DEF Blocks
  <1>6. Cardinality(Chips(g)) = Total(t)
    BY <1>5, PartitionTotal
  <1> QED BY <1>6 DEF Total

(* A multiple of a sum. *)
LEMMA TotalScale ==
  ASSUME NEW S, IsFiniteSet(S), NEW f \in [S -> Nat], NEW c \in Nat,
         NEW g \in [S -> Nat], \A x \in S : g[x] = c * f[x]
  PROVE  Total(g) = c * Total(f)
  <1> DEFINE B == [x \in S |-> {x} \X (1..f[x])]
             k == [x \in S |-> c]
             h == [z \in Chips(f) |-> c]
  <1>1. ASSUME NEW x \in S PROVE IsFiniteSet(B[x]) /\ Cardinality(B[x]) = f[x]
    <2>1. f[x] \in Nat /\ B[x] = {x} \X (1..f[x])
      OBVIOUS
    <2>2. IsFiniteSet(1..f[x]) /\ Cardinality(1..f[x]) = f[x]
      BY <2>1, FS_Interval
    <2>3. IsFiniteSet({x}) /\ Cardinality({x}) = 1
      BY FS_Singleton, Zenon
    <2> HIDE DEF B
    <2>4. /\ IsFiniteSet({x} \X (1..f[x]))
          /\ Cardinality({x} \X (1..f[x])) = Cardinality({x}) * Cardinality(1..f[x])
      BY <2>2, <2>3, FS_Product
    <2> QED BY <2>1, <2>2, <2>3, <2>4
  <1>2. ASSUME NEW x \in S, NEW z \in B[x] PROVE z[1] = x /\ z \in Chips(f)
    <2>1. z = <<x, z[2]>> /\ z[1] = x /\ z[2] \in 1..f[x]
      OBVIOUS
    <2> QED BY <2>1, ChipsOf
  <1>3. ASSUME NEW z \in Chips(f) PROVE \E x \in S : z \in B[x]
    <2>1. z = <<z[1], z[2]>> /\ z[1] \in S /\ z[2] \in 1..f[z[1]]
      BY ChipsOf
    <2> QED BY <2>1
  <1>4. /\ h \in [Chips(f) -> Nat] /\ k \in [S -> Nat]
        /\ \A z \in Chips(f) : h[z] = c
        /\ \A x \in S : k[x] = c
    OBVIOUS
  <1> HIDE DEF B, k, h
  <1>5. \A x, y \in S : x # y => B[x] \cap B[y] = {}
    BY <1>2
  <1>6. Blocks(B, S, f, Chips(f))
    BY <1>1, <1>2, <1>3, <1>5 DEF Blocks
  <1>7. EvenOver(h, Chips(f), B, S, k)
    BY <1>2, <1>4 DEF EvenOver
  <1>8. \A x \in S : g[x] = f[x] * k[x]
    BY <1>4
  <1>9. Total(h) = Total(g)
    BY <1>6, <1>7, <1>8, TotalByParts
  <1>10. IsFiniteSet(Chips(f)) /\ Total(f) \in Nat
    BY TotalType
  <1>11. Total(h) = Cardinality(Chips(f)) * c
    BY <1>4, <1>10, TotalConstant
  <1>12. Total(h) = Total(f) * c
    BY <1>11 DEF Total
  <1> QED BY <1>9, <1>10, <1>12

-----------------------------------------------------------------------------
(* The money in the pots *)

(* The pots are told apart by their levels. *)
LevelsDiffer(pots) == \A x, y \in pots : x.level = y.level => x = y

(* The amounts of the pots, as a function. *)
LEMMA AmountsType ==
  ASSUME NEW P, NEW pots \in PotsOver(P)
  PROVE  /\ IsFiniteSet(pots)
         /\ [x \in pots |-> x.amount] \in [pots -> Nat]
  BY DEF PotsOver

(* addBet() adds the amount to the money in the pots. *)
LEMMA AddBetTotal ==
  ASSUME NEW P, NEW pots \in PotsOver(P), NEW p \in P, NEW amount \in Nat,
         LevelsDiffer(pots)
  PROVE  /\ getTotalPotAmount(addBet(pots, p, amount))
              = getTotalPotAmount(pots) + amount
         /\ LevelsDiffer(addBet(pots, p, amount))
  <1> DEFINE main == MainPot(pots)
             new == MakePot(main.level, main.amount + amount,
                            main.eligiblePlayers \cup {p})
             rest == pots \ {main}
             after == rest \cup {new}
             f == [x \in pots |-> x.amount]
             h == [x \in after |-> x.amount]
             r == [x \in rest |-> x.amount]
  <1>1. main \in pots /\ main.amount \in Nat /\ IsFiniteSet(pots) /\ f \in [pots -> Nat]
    BY MainPotType DEF PotsOver
  <1>2. addBet(pots, p, amount) = after
    BY DEF addBet
  <1>3. /\ after \in PotsOver(P)
        /\ new.level = main.level /\ new.amount = main.amount + amount
    <2>1. after \in PotsOver(P)
      BY <1>2, AddBetType
    <2> QED BY <2>1 DEF MakePot
  <1> HIDE DEF main, new
  <1>4. new \notin rest
    BY <1>1, <1>3 DEF LevelsDiffer
  <1>5. LevelsDiffer(after)
    BY <1>1, <1>3 DEF LevelsDiffer
  <1>6. IsFiniteSet(after) /\ h \in [after -> Nat]
    BY <1>3, AmountsType
  <1>7. r \in [rest -> Nat] /\ after \ {new} = rest
    BY <1>1, <1>4
  <1>8. Total(f) = Total(r) + main.amount
    <2>1. f[main] = main.amount /\ \A y \in pots \ {main} : r[y] = f[y]
      BY <1>1
    <2>2. r \in [pots \ {main} -> Nat]
      BY <1>7
    <2> HIDE DEF f, r, rest, after
    <2> QED BY <1>1, <2>1, <2>2, TotalSplit
  <1>9. Total(h) = Total(r) + (main.amount + amount)
    <2>1. /\ new \in after /\ h[new] = main.amount + amount
          /\ \A y \in after \ {new} : r[y] = h[y]
      BY <1>3, <1>7
    <2>2. r \in [after \ {new} -> Nat]
      BY <1>7
    <2> HIDE DEF h, r, rest, after
    <2> QED BY <1>6, <2>1, <2>2, TotalSplit
  <1>10. Total(r) \in Nat
    <2>1. IsFiniteSet(rest)
      BY <1>1, FS_Subset
    <2> HIDE DEF r, rest
    <2> QED BY <1>7, <2>1, TotalType
  <1>11. Total(h) = Total(f) + amount
    <2> HIDE DEF h, f, r
    <2> QED BY <1>1, <1>8, <1>9, <1>10
  <1> QED BY <1>2, <1>5, <1>11 DEF getTotalPotAmount

(* The level below a level. *)
LEMMA PreviousAmountFacts ==
  ASSUME NEW levels \in SUBSET (Nat \ {0}), IsFiniteSet(levels), NEW l \in levels
  PROVE  /\ PreviousAmount(levels, l) \in Nat /\ PreviousAmount(levels, l) < l
         /\ PreviousAmount(levels, l) = 0 \/ PreviousAmount(levels, l) \in levels
         /\ \A m \in levels : m < l => m <= PreviousAmount(levels, l)
  <1> DEFINE B == {m \in levels : m < l}
             S == {0} \cup B
  <1>1. B \in SUBSET levels /\ B \in SUBSET Nat
    OBVIOUS
  <1>2. l \in Nat \ {0}
    OBVIOUS
  <1>3. \A m \in S : m \in Nat /\ m < l /\ (m = 0 \/ m \in levels)
    BY <1>2
  <1>4. \A m \in levels : m < l => m \in S
    OBVIOUS
  <1>5. PreviousAmount(levels, l) = Max(S)
    BY DEF PreviousAmount
  <1> HIDE DEF B
  <1>6. IsFiniteSet(S)
    <2>1. IsFiniteSet(B)
      BY <1>1, FS_Subset
    <2>2. IsFiniteSet(B \cup {0}) /\ S = B \cup {0}
      BY <2>1, FS_AddElement
    <2> QED BY <2>2
  <1>7. S \in SUBSET Int /\ S # {}
    BY <1>1
  <1> HIDE DEF S
  <1>8. Max(S) \in S /\ \A m \in S : Max(S) >= m
    BY <1>6, <1>7, MaxInteger
  <1> QED BY <1>2, <1>3, <1>4, <1>5, <1>8

(* A[l] is the size of the layer between the level l and the one below it, *)
(* for players who put in f.                                               *)
LayersOf(A, levels, S, f) ==
  /\ A \in [levels -> Nat]
  /\ \A l \in levels : A[l] = (l - PreviousAmount(levels, l))
                                * Cardinality({p \in S : f[p] >= l})

(* Chips stacked up to the heights f, cut at every height that occurs: the *)
(* layers hold all the chips.                                              *)
LEMMA LayersTotal ==
  ASSUME NEW S, IsFiniteSet(S), NEW f \in [S -> Nat],
         NEW levels \in SUBSET (Nat \ {0}), IsFiniteSet(levels),
         \A p \in S : f[p] # 0 => f[p] \in levels,
         NEW A, LayersOf(A, levels, S, f)
  PROVE  Total(A) = Total(f)
  <1> DEFINE prev == [l \in levels |-> PreviousAmount(levels, l)]
             R == [l \in levels |-> {p \in S : f[p] >= l}]
             C == [l \in levels |-> R[l] \X ((prev[l] + 1)..l)]
             U == Chips(f)
  <1>1. ASSUME NEW l \in levels
        PROVE  /\ l \in Nat \ {0} /\ prev[l] \in Nat /\ prev[l] < l
               /\ prev[l] = 0 \/ prev[l] \in levels
               /\ \A m \in levels : m < l => m <= prev[l]
    BY PreviousAmountFacts
  <1>2. ASSUME NEW l \in levels
        PROVE  /\ IsFiniteSet(R[l]) /\ Cardinality(R[l]) \in Nat
               /\ A[l] = (l - prev[l]) * Cardinality(R[l])
               /\ \A p \in R[l] : p \in S /\ f[p] >= l
               /\ \A p \in S : f[p] >= l => p \in R[l]
    <2>1. R[l] \in SUBSET S
      OBVIOUS
    <2>2. IsFiniteSet(R[l]) /\ Cardinality(R[l]) \in Nat
      <3> HIDE DEF R
      <3> QED BY <2>1, FS_Subset, FS_CardinalityType
    <2> QED BY <2>2 DEF LayersOf
  <1>3. ASSUME NEW l \in levels PROVE C[l] = R[l] \X ((prev[l] + 1)..l)
    OBVIOUS
  <1> HIDE DEF prev, R, C
  <1>4. ASSUME NEW l \in levels PROVE IsFiniteSet(C[l]) /\ Cardinality(C[l]) = A[l]
    <2> DEFINE a == prev[l] + 1
               I == a..l
               T == R[l]
    <2>1. a \in Int /\ l \in Int /\ ~(a > l) /\ l - a + 1 = l - prev[l] /\ l - prev[l] \in Nat
      BY <1>1
    <2>2. C[l] = T \X I /\ IsFiniteSet(T) /\ Cardinality(T) \in Nat
          /\ A[l] = (l - prev[l]) * Cardinality(T)
      BY <1>2, <1>3
    <2> HIDE DEF a, T
    <2>3. IsFiniteSet(I) /\ Cardinality(I) = l - prev[l]
      BY <2>1, FS_Interval
    <2> HIDE DEF I
    <2>4. IsFiniteSet(T \X I) /\ Cardinality(T \X I) = Cardinality(T) * Cardinality(I)
      BY <2>2, <2>3, FS_Product
    <2> QED BY <2>1, <2>2, <2>3, <2>4
  <1>5. ASSUME NEW l \in levels, NEW c \in C[l]
        PROVE  /\ c \in U /\ c[2] \in Nat /\ prev[l] < c[2] /\ c[2] <= l
    <2>1. PICK p \in R[l], i \in (prev[l] + 1)..l : c = <<p, i>>
      BY <1>3
    <2>2. i \in Nat /\ prev[l] < i /\ i <= l /\ 1 <= i /\ l \in Nat
      BY <1>1
    <2>3. p \in S /\ f[p] >= l /\ f[p] \in Nat
      BY <1>2
    <2>4. i \in 1..f[p]
      BY <2>2, <2>3
    <2>5. c \in U
      BY <2>1, <2>3, <2>4, ChipsOf
    <2> QED BY <2>1, <2>2, <2>5
  <1>6. \A l, m \in levels : l # m => C[l] \cap C[m] = {}
    <2>1. ASSUME NEW l \in levels, NEW m \in levels, l < m, NEW c \in C[l] \cap C[m]
          PROVE  FALSE
      <3>1. c[2] <= l /\ prev[m] < c[2] /\ l <= prev[m] /\ c[2] \in Nat
        BY <1>1, <1>5, <2>1
      <3>2. l \in Nat /\ prev[m] \in Nat
        BY <1>1
      <3> QED BY <3>1, <3>2
    <2>2. \A l, m \in levels : l # m => l < m \/ m < l
      OBVIOUS
    <2> QED BY <2>1, <2>2
  <1>7. ASSUME NEW c \in U PROVE \E l \in levels : c \in C[l]
    <2> DEFINE p == c[1]
               i == c[2]
               L == {m \in levels : i <= m}
    <2>1. c = <<p, i>> /\ p \in S /\ i \in 1..f[p]
      BY ChipsOf
    <2> HIDE DEF p, i
    <2>2. i \in Nat /\ 1 <= i /\ i <= f[p] /\ f[p] \in Nat
      BY <2>1
    <2>3. f[p] \in levels
      BY <2>1, <2>2
    <2>4. L \in SUBSET Nat /\ L # {}
      BY <2>2, <2>3
    <2>5. PICK l \in L : \A m \in L : l <= m
      <3> HIDE DEF L
      <3> QED BY <2>4, LeastNatural
    <2>6. l \in levels /\ i <= l /\ l <= f[p] /\ l \in Nat
      BY <2>2, <2>3, <2>4, <2>5
    <2>7. prev[l] < i /\ prev[l] \in Nat
      BY <1>1, <2>2, <2>5, <2>6
    <2>8. p \in R[l] /\ i \in (prev[l] + 1)..l
      BY <1>2, <2>1, <2>2, <2>6, <2>7
    <2> QED BY <1>3, <2>1, <2>6, <2>8
  <1>8. Cardinality(U) = Total(A)
    <2>1. \A l \in levels : C[l] \subseteq U
      BY <1>5
    <2>2. A \in [levels -> Nat]
      BY DEF LayersOf
    <2> HIDE DEF U
    <2>3. Blocks(C, levels, A, U)
      BY <1>4, <1>6, <1>7, <2>1, <2>2 DEF Blocks
    <2> QED BY <2>3, PartitionTotal
  <1> QED BY <1>8 DEF Total

(* The side pots divide the chips that were put in by the levels they      *)
(* reach: the pots rebuilt by createSidePots() hold what the players put   *)
(* in, if the pots they replace did.                                       *)
LEMMA CreateSidePotsTotal ==
  ASSUME NEW P, IsFiniteSet(P), NEW pots \in PotsOver(P),
         NEW players \in SUBSET P, NEW totalBet \in [P -> Nat], NEW isFolded,
         \A p \in P \ players : totalBet[p] = 0,
         getTotalPotAmount(pots) = Total(totalBet)
  PROVE  LET new == createSidePots(pots, players, totalBet, isFolded)
         IN  /\ getTotalPotAmount(new) = Total(totalBet)
             /\ LevelsDiffer(new)
  <1> DEFINE eligible == {p \in players : ~isFolded[p]}
             levels == {totalBet[p] : p \in players} \ {0}
             reached(l) == {p \in players : totalBet[p] >= l}
             betSize(l) == l - PreviousAmount(levels, l)
             pot(l) == MakePot(l, betSize(l) * Cardinality(reached(l)),
                               reached(l) \cap eligible)
             new == createSidePots(pots, players, totalBet, isFolded)
  <1>1. IsFiniteSet(players)
    BY FS_Subset
  <1>2. levels \in SUBSET (Nat \ {0}) /\ IsFiniteSet(levels)
    BY LevelsType
  <1>3. CASE Cardinality(eligible) <= 1 \/ Cardinality(levels) <= 1
    <2> DEFINE m == MakePot(0, getTotalPotAmount(pots), eligible)
               f == [x \in {m} |-> x.amount]
    <2>1. new = {m}
      BY <1>3 DEF createSidePots, rebuildMainPotWithCorrectEligibility
    <2>2. m.amount = getTotalPotAmount(pots) /\ m.amount \in Nat
      BY PotTotalType DEF MakePot
    <2> HIDE DEF m
    <2>3. f \in [{m} -> Nat] /\ f[m] = m.amount /\ \A y \in {m} \ {m} : f[y] = 0
      BY <2>2
    <2>4. Total(f) = m.amount
      <3> HIDE DEF f
      <3> QED BY <2>3, TotalSingle
    <2>5. getTotalPotAmount({m}) = Total(totalBet)
      BY <2>2, <2>4 DEF getTotalPotAmount
    <2>6. LevelsDiffer({m})
      BY DEF LevelsDiffer
    <2> HIDE DEF new
    <2> QED BY <2>1, <2>5, <2>6 DEF new
  <1>4. CASE ~(Cardinality(eligible) <= 1 \/ Cardinality(levels) <= 1)
    <2>1. new = {pot(l) : l \in levels}
      BY <1>4 DEF createSidePots
    <2>2. new \in PotsOver(P)
      BY CreateSidePotsType
    <2> DEFINE A == [l \in levels |-> betSize(l) * Cardinality(reached(l))]
               b == [l \in levels |-> pot(l)]
               f == [x \in new |-> x.amount]
               tb == [p \in players |-> totalBet[p]]
    <2>3. /\ tb \in [players -> Nat] /\ \A p \in players : tb[p] = totalBet[p]
          /\ \A p \in players : tb[p] # 0 => tb[p] \in levels
      OBVIOUS
    <2>4. Total(totalBet) = Total(tb)
      <3> HIDE DEF tb
      <3> QED BY <2>3, TotalRestrict
    <2>5. ASSUME NEW l \in levels
          PROVE  b[l].level = l /\ b[l].amount = A[l] /\ b[l] \in new
      BY <2>1 DEF MakePot
    <2>6. \A x \in new : \E l \in levels : b[l] = x
      BY <2>1
    <2>7. LevelsDiffer(new)
      <3> HIDE DEF new, levels, b, A
      <3> QED BY <2>5, <2>6 DEF LevelsDiffer
    <2>8. f \in [new -> Nat] /\ \A x \in new : f[x] = x.amount
      BY <2>2, AmountsType
    <2>9. ASSUME NEW l \in levels
          PROVE  A[l] = (l - PreviousAmount(levels, l))
                          * Cardinality({p \in players : tb[p] >= l})
      <3>1. {p \in players : tb[p] >= l} = {p \in players : totalBet[p] >= l}
        OBVIOUS
      <3> QED BY <3>1
    <2> HIDE DEF new, levels, b, f, A, tb
    <2>10. \A l \in levels : b[l] \in new /\ f[b[l]] = A[l] /\ A[l] \in Nat
      BY <2>5, <2>8
    <2>11. A \in [levels -> Nat]
      BY <2>10 DEF A
    <2>12. \A x, y \in levels : b[x] = b[y] => x = y
      BY <2>5
    <2>13. Total(A) = Total(f)
      <3>1. Renaming(b, levels, A, new, f)
        BY <2>6, <2>8, <2>10, <2>11, <2>12 DEF Renaming
      <3> QED BY <1>2, <3>1, TotalReindex
    <2>14. Total(A) = Total(tb)
      <3>1. LayersOf(A, levels, players, tb)
        BY <2>9, <2>11 DEF LayersOf
      <3> QED BY <1>1, <1>2, <2>3, <3>1, LayersTotal
    <2>15. Total(f) = Total(totalBet)
      BY <2>4, <2>13, <2>14
    <2> QED BY <2>7, <2>15 DEF getTotalPotAmount, f, new
  <1> QED BY <1>3, <1>4

-----------------------------------------------------------------------------
(* The distribution *)

(* The players of W in seat order are numbered from 0 on: the numbers by   *)
(* which Share() hands out the odd chips.                                  *)
LEMMA IndexOnto ==
  ASSUME NEW W, IsFiniteSet(W), NEW seat, \A p \in W : seat[p] \in Int,
         \A p, q \in W : seat[p] = seat[q] => p = q,
         NEW index, index = [p \in W |-> Cardinality({q \in W : seat[q] < seat[p]})]
  PROVE  /\ Cardinality(W) \in Nat
         /\ \A p \in W : index[p] \in 0..(Cardinality(W) - 1)
         /\ \A p, q \in W : index[p] = index[q] => p = q
         /\ \A i \in 0..(Cardinality(W) - 1) : \E p \in W : index[p] = i
  <1> DEFINE below(p) == {q \in W : seat[q] < seat[p]}
             n == Cardinality(W)
             r == [p \in W |-> Cardinality(below(p))]
             N == 0..(n - 1)
  <1>1. n \in Nat
    BY FS_CardinalityType
  <1>2. ASSUME NEW p \in W PROVE IsFiniteSet(below(p)) /\ r[p] \in N
    <2>1. below(p) \in SUBSET W /\ p \notin below(p)
      OBVIOUS
    <2>2. r[p] = Cardinality(below(p))
      OBVIOUS
    <2> HIDE DEF below, r
    <2>3. /\ IsFiniteSet(below(p)) /\ Cardinality(below(p)) <= n
          /\ Cardinality(below(p)) \in Nat /\ Cardinality(below(p)) # n
      BY <2>1, FS_Subset, FS_CardinalityType
    <2> HIDE DEF n
    <2> QED BY <1>1, <2>2, <2>3
  <1>3. ASSUME NEW p \in W, NEW q \in W, seat[p] < seat[q] PROVE r[p] # r[q]
    <2>1. below(p) \subseteq below(q)
      <3> SUFFICES ASSUME NEW z \in W, seat[z] < seat[p] PROVE seat[z] < seat[q]
        OBVIOUS
      <3>1. seat[p] \in Int /\ seat[q] \in Int /\ seat[z] \in Int
        OBVIOUS
      <3> QED BY <1>3, <3>1
    <2>2. p \in below(q) /\ p \notin below(p)
      BY <1>3
    <2>3. IsFiniteSet(below(q))
      BY <1>2
    <2>4. r[p] = Cardinality(below(p)) /\ r[q] = Cardinality(below(q))
      OBVIOUS
    <2> HIDE DEF below, r
    <2> QED BY <2>1, <2>2, <2>3, <2>4, FS_Subset
  <1>4. \A p, q \in W : r[p] = r[q] => p = q
    <2>1. \A p, q \in W : p # q => seat[p] < seat[q] \/ seat[q] < seat[p]
      OBVIOUS
    <2> HIDE DEF r
    <2> QED BY <1>3, <2>1
  <1>5. r \in Injection(W, N)
    <2>1. DOMAIN r = W /\ r \in [W -> N]
      <3>1. r = [p \in W |-> r[p]]
        OBVIOUS
      <3> HIDE DEF r, N
      <3> QED BY <1>2, <3>1
    <2> HIDE DEF r, N
    <2> QED BY <1>4, <2>1 DEF Injection, IsInjective
  <1>6. IsFiniteSet(N) /\ Cardinality(N) = n
    <2> HIDE DEF n
    <2> QED BY <1>1, FS_Interval
  <1>7. r \in Surjection(W, N)
    <2> HIDE DEF r, N
    <2> QED BY <1>5, <1>6, FS_Injection
  <1>8. \A i \in N : \E p \in W : r[p] = i
    <2> HIDE DEF r, N
    <2> QED BY <1>7 DEF Surjection
  <1>9. r = index
    OBVIOUS
  <1> HIDE DEF r
  <1> QED BY <1>1, <1>2, <1>4, <1>8, <1>9

(* A pot that is split is split whole: the odd chips included, no chip is  *)
(* kept back and none is paid twice.                                       *)
LEMMA ShareTotal ==
  ASSUME NEW W, IsFiniteSet(W), W # {}, NEW amount \in Nat, NEW seat,
         \A p \in W : seat[p] \in Int, \A p, q \in W : seat[p] = seat[q] => p = q,
         NEW f \in [W -> Nat], \A p \in W : f[p] = Share(amount, W, seat, p)
  PROVE  Total(f) = amount
  <1> DEFINE n == Cardinality(W)
             k == amount \div n
             r == amount % n
             index == [p \in W |-> Cardinality({q \in W : seat[q] < seat[p]})]
             c == [p \in W |-> k]
             o == [p \in W |-> IF index[p] < r THEN 1 ELSE 0]
             O == {p \in W : index[p] < r}
             N == 0..(r - 1)
  <1>1. n \in Nat \ {0}
    BY FS_CardinalityType, FS_EmptySet
  <1>2. /\ \A p \in W : index[p] \in 0..(n - 1)
        /\ \A p, q \in W : index[p] = index[q] => p = q
        /\ \A i \in 0..(n - 1) : \E p \in W : index[p] = i
    <2> DEFINE ix == index
    <2>1. ix = [p \in W |-> Cardinality({q \in W : seat[q] < seat[p]})]
      OBVIOUS
    <2> HIDE DEF index, ix, n
    <2>2. /\ \A p \in W : ix[p] \in 0..(Cardinality(W) - 1)
          /\ \A p, q \in W : ix[p] = ix[q] => p = q
          /\ \A i \in 0..(Cardinality(W) - 1) : \E p \in W : ix[p] = i
      BY <2>1, IndexOnto
    <2> QED BY <2>2 DEF ix, n
  <1>3. \A p \in W : f[p] = k + (IF index[p] < r THEN 1 ELSE 0)
    BY DEF Share
  <1> HIDE DEF n
  <1>4. k \in Nat /\ r \in 0..(n - 1) /\ amount = n * k + r
    BY <1>1
  <1> HIDE DEF k, r, index
  <1>5. c \in [W -> Nat] /\ o \in [W -> Nat] /\ \A p \in W : f[p] = c[p] + o[p]
    BY <1>3, <1>4
  <1>6. Total(f) = Total(c) + Total(o)
    <2> HIDE DEF c, o
    <2> QED BY <1>5, TotalAdd
  <1>7. Total(c) = n * k
    <2>1. Chips(c) = W \X (1..k)
      BY DEF Chips
    <2>2. IsFiniteSet(1..k) /\ Cardinality(1..k) = k
      BY <1>4, FS_Interval
    <2>3. Cardinality(W \X (1..k)) = Cardinality(W) * Cardinality(1..k)
      BY <2>2, FS_Product
    <2> QED BY <2>1, <2>2, <2>3 DEF Total, n
  <1>8. IsFiniteSet(N) /\ Cardinality(N) = r
    <2>1. 0 \in Int /\ r - 1 \in Int
      BY <1>1, <1>4
    <2>2. /\ IsFiniteSet(0..(r - 1))
          /\ Cardinality(0..(r - 1)) = IF 0 > r - 1 THEN 0 ELSE (r - 1) - 0 + 1
      BY <2>1, FS_Interval
    <2> QED BY <1>1, <1>4, <2>2
  <1>9. Total(o) = r
    <2> DEFINE g == [i \in N |-> 1]
               b == [i \in N |-> CHOOSE p \in W : index[p] = i]
               u == [p \in O |-> 1]
    <2>1. \A i \in N : i \in 0..(n - 1) /\ i < r
      BY <1>1, <1>4
    <2>2. \A i \in N : b[i] \in W /\ index[b[i]] = i
      BY <1>2, <2>1
    <2>3. \A p \in O : index[p] \in N
      BY <1>1, <1>2, <1>4
    <2>4. Total(o) = Total(u)
      <3>1. /\ O \in SUBSET W /\ u \in [O -> Nat]
            /\ \A x \in W \ O : o[x] = 0
            /\ \A x \in O : u[x] = o[x]
        OBVIOUS
      <3> HIDE DEF O, u, o
      <3> QED BY <1>5, <3>1, TotalRestrict
    <2>5. Renaming(b, N, g, O, u)
      <3>1. g \in [N -> Nat] /\ u \in [O -> Nat]
        OBVIOUS
      <3>2. \A i \in N : b[i] \in O /\ u[b[i]] = g[i]
        <4> HIDE DEF b
        <4> QED BY <2>1, <2>2
      <3> HIDE DEF N, O, b, g, u
      <3>3. \A i, j \in N : b[i] = b[j] => i = j
        BY <2>2
      <3>4. \A z \in O : \E i \in N : b[i] = z
        BY <1>2, <2>2, <2>3 DEF O
      <3> QED BY <3>1, <3>2, <3>3, <3>4 DEF Renaming
    <2>6. Total(g) = Total(u)
      <3> HIDE DEF N, O, b, g, u
      <3> QED BY <1>8, <2>5, TotalReindex
    <2>7. Total(g) = r
      <3>1. Chips(g) = N \X (1..1)
        BY DEF Chips
      <3>2. IsFiniteSet(1..1) /\ Cardinality(1..1) = 1
        <4>1. 1..1 = {1}
          OBVIOUS
        <4> QED BY <4>1, FS_Singleton
      <3> HIDE DEF N, g
      <3>3. Cardinality(N \X (1..1)) = Cardinality(N) * Cardinality(1..1)
        <4> DEFINE I == 1..1
        <4>1. IsFiniteSet(I)
          BY <3>2
        <4> HIDE DEF I
        <4>2. Cardinality(N \X I) = Cardinality(N) * Cardinality(I)
          BY <1>8, <4>1, FS_Product
        <4> QED BY <4>2 DEF I
      <3> QED BY <1>4, <1>8, <3>1, <3>2, <3>3 DEF Total
    <2> QED BY <2>4, <2>6, <2>7
  <1> HIDE DEF c, o
  <1> QED BY <1>4, <1>6, <1>7, <1>9

(* simulateDistribution() pays out the pots, whole: every chip of every    *)
(* pot goes to one of the players who are left, if no pot is orphaned.     *)
LEMMA WinningsTotal ==
  ASSUME NEW P, IsFiniteSet(P), NEW pots \in PotsOver(P), NEW strength,
         NEW remaining, ~HasOrphanPot(pots, strength, remaining),
         NEW R, IsFiniteSet(R),
         \A x \in pots : Recipients(x, strength, remaining) \subseteq R,
         NEW seat, \A p \in R : seat[p] \in Int,
         \A p, q \in R : seat[p] = seat[q] => p = q,
         NEW w \in [R -> Nat],
         \A p \in R : w[p] = Winnings(pots, strength, remaining, seat, p)
  PROVE  Total(w) = getTotalPotAmount(pots)
  <1> DEFINE W == [x \in pots |-> Recipients(x, strength, remaining)]
             s(x, p) == IF p \in W[x] THEN Share(x.amount, W[x], seat, p) ELSE 0
             m == [y \in pots \X R |-> s(y[1], y[2])]
             a == [x \in pots |-> x.amount]
             row == [x \in pots |-> [p \in R |-> s(x, p)]]
             col == [p \in R |-> [x \in pots |-> s(x, p)]]
  <1>1. IsFiniteSet(pots) /\ a \in [pots -> Nat]
    BY AmountsType
  <1>2. ASSUME NEW x \in pots
        PROVE  /\ W[x] \subseteq R /\ IsFiniteSet(W[x]) /\ x.amount \in Nat
               /\ W[x] = {} => x.amount = 0
    <2>1. W[x] \subseteq R /\ x.amount \in Nat
      BY DEF PotsOver
    <2>2. W[x] = {} => x.amount = 0
      BY <2>1 DEF HasOrphanPot
    <2> HIDE DEF W
    <2> QED BY <2>1, <2>2, FS_Subset
  <1>3. ASSUME NEW p \in R
        PROVE  w[p] = Total([x \in {y \in pots : p \in W[y]} |->
                               Share(x.amount, W[x], seat, p)])
    <2>1. {y \in pots : p \in W[y]} = {y \in pots : p \in Recipients(y, strength, remaining)}
      OBVIOUS
    <2> DEFINE D == {y \in pots : p \in Recipients(y, strength, remaining)}
    <2>2. [x \in D |-> Share(x.amount, W[x], seat, p)]
            = [x \in D |-> Share(x.amount, Recipients(x, strength, remaining), seat, p)]
      OBVIOUS
    <2> QED BY <2>1, <2>2 DEF Winnings
  <1> HIDE DEF W
  <1>4. ASSUME NEW x \in pots, NEW p \in R PROVE s(x, p) \in Nat
    <2>1. CASE p \in W[x]
      BY <1>2, <2>1, ShareType
    <2>2. CASE p \notin W[x]
      BY <2>2
    <2> QED BY <2>1, <2>2
  <1> HIDE DEF s
  <1>5. m \in [pots \X R -> Nat] /\ \A x \in pots, p \in R : m[<<x, p>>] = s(x, p)
    BY <1>4
  <1>6. /\ \A x \in pots : row[x] \in [R -> Nat] /\ \A p \in R : row[x][p] = s(x, p)
        /\ \A p \in R : col[p] \in [pots -> Nat] /\ \A x \in pots : col[p][x] = s(x, p)
    BY <1>4
  <1> HIDE DEF m, row, col
  <1>7. RowsOf(row, m, pots, R) /\ ColumnsOf(col, m, pots, R)
    BY <1>5, <1>6 DEF RowsOf, ColumnsOf
  <1>8. SumsOf(a, row, pots)
    <2> SUFFICES ASSUME NEW x \in pots PROVE a[x] = Total(row[x])
      BY DEF SumsOf
    <2>1. CASE W[x] = {}
      <3>1. \A p \in R : row[x][p] = 0
        BY <1>6, <2>1 DEF s
      <3>2. Total(row[x]) = 0
        BY <1>6, <3>1, TotalZero
      <3> QED BY <1>2, <2>1, <3>2
    <2>2. CASE W[x] # {}
      <3> DEFINE T == W[x]
                 f == [p \in T |-> s(x, p)]
                 am == x.amount
      <3>1. /\ T \in SUBSET R /\ IsFiniteSet(T) /\ T # {} /\ am \in Nat
            /\ f \in [T -> Nat]
        BY <1>2, <1>4, <2>2
      <3>2. \A p \in T : f[p] = Share(am, T, seat, p)
        BY DEF s
      <3>3. \A p \in R \ T : row[x][p] = 0
        BY <1>6 DEF s
      <3>4. \A p \in T : f[p] = row[x][p]
        BY <1>6, <3>1
      <3>5. a[x] = am
        OBVIOUS
      <3>6. \A p \in T : seat[p] \in Int
        BY <3>1
      <3>7. \A p, q \in T : seat[p] = seat[q] => p = q
        BY <3>1
      <3> HIDE DEF T, f, am, a
      <3>8. Total(f) = am
        BY <3>1, <3>2, <3>6, <3>7, ShareTotal
      <3>9. Total(row[x]) = Total(f)
        <4> DEFINE g == row[x]
        <4>1. g \in [R -> Nat] /\ \A p \in T : f[p] = g[p]
          BY <1>6, <3>4
        <4>2. \A p \in R \ T : g[p] = 0
          BY <3>3
        <4> HIDE DEF g
        <4>3. Total(g) = Total(f)
          BY <3>1, <4>1, <4>2, TotalRestrict
        <4> QED BY <4>3 DEF g
      <3> QED BY <3>5, <3>8, <3>9
    <2> QED BY <2>1, <2>2
  <1>9. SumsOf(w, col, R)
    <2> SUFFICES ASSUME NEW p \in R PROVE w[p] = Total(col[p])
      BY DEF SumsOf
    <2> DEFINE D == {y \in pots : p \in W[y]}
               f == [x \in D |-> Share(x.amount, W[x], seat, p)]
    <2>1. w[p] = Total(f)
      BY <1>3
    <2>2. \A x \in D : f[x] = s(x, p) /\ f[x] = col[p][x]
      BY <1>6 DEF s
    <2>3. f \in [D -> Nat] /\ D \in SUBSET pots
      BY <1>4, <2>2
    <2>4. \A x \in pots \ D : col[p][x] = 0
      BY <1>6 DEF s
    <2> HIDE DEF f, D
    <2>5. Total(col[p]) = Total(f)
      <3> DEFINE g == col[p]
      <3>1. /\ g \in [pots -> Nat] /\ \A x \in D : f[x] = g[x]
            /\ \A x \in pots \ D : g[x] = 0
        BY <1>6, <2>2, <2>4
      <3> HIDE DEF g
      <3>2. Total(g) = Total(f)
        BY <2>3, <3>1, TotalRestrict
      <3> QED BY <3>2 DEF g
    <2> QED BY <2>1, <2>5
  <1> HIDE DEF a
  <1>10. Total(a) = Total(m)
    BY <1>1, <1>7, <1>8, RowTotals
  <1>11. Total(w) = Total(m)
    BY <1>1, <1>7, <1>9, ColumnTotals
  <1> QED BY <1>10, <1>11 DEF getTotalPotAmount, a

-----------------------------------------------------------------------------
(* Table stakes *)

(* A part of the chips. *)
LEMMA TotalPart ==
  ASSUME NEW S, IsFiniteSet(S), NEW f \in [S -> Nat], NEW T \in SUBSET S,
         NEW g \in [T -> Nat], \A x \in T : g[x] <= f[x]
  PROVE  Total(g) <= Total(f)
  <1> DEFINE z == [x \in S |-> IF x \in T THEN g[x] ELSE 0]
  <1>1. /\ z \in [S -> Nat] /\ \A x \in S \ T : z[x] = 0
        /\ \A x \in T : g[x] = z[x]
        /\ \A x \in S : z[x] <= f[x]
    OBVIOUS
  <1> HIDE DEF z
  <1>2. Total(z) = Total(g)
    BY <1>1, TotalRestrict
  <1>3. Total(z) <= Total(f)
    BY <1>1, TotalMonotone
  <1> QED BY <1>2, <1>3

(* A share is no more than the pot. *)
LEMMA ShareAtMost ==
  ASSUME NEW W, IsFiniteSet(W), NEW amount \in Nat, NEW seat, NEW p \in W
  PROVE  Share(amount, W, seat, p) <= amount
  <1> DEFINE n == Cardinality(W)
             k == amount \div n
             r == amount % n
  <1>1. n \in Nat /\ n # 0
    BY FS_CardinalityType, FS_EmptySet
  <1>2. Share(amount, W, seat, p) = k \/ (r > 0 /\ Share(amount, W, seat, p) = k + 1)
    <2> DEFINE index == Cardinality({q \in W : seat[q] < seat[p]})
    <2>1. index \in Nat
      BY FS_Subset, FS_CardinalityType
    <2>2. Share(amount, W, seat, p) = k + IF index < r THEN 1 ELSE 0
      BY DEF Share
    <2> HIDE DEF index
    <2>3. k \in Nat /\ r \in Nat
      BY <1>1
    <2> HIDE DEF k, r
    <2> QED BY <2>1, <2>2, <2>3
  <1> HIDE DEF n
  <1>3. k \in Nat /\ r \in Nat /\ amount = k * n + r
    BY <1>1
  <1>4. k * n >= k
    <2> HIDE DEF k
    <2> QED BY <1>1, <1>3
  <1> HIDE DEF k, r
  <1>5. k * n \in Nat
    BY <1>1, <1>3
  <1> QED BY <1>2, <1>3, <1>4, <1>5

(* The pots that q may win. *)
InReach(pots, q) == {x \in pots : q \in x.eligiblePlayers}

(* Nobody wins more than there is in the pots he may win. *)
LEMMA WinningsInReach ==
  ASSUME NEW P, IsFiniteSet(P), NEW pots \in PotsOver(P), NEW strength,
         NEW remaining, NEW seat, NEW q
  PROVE  Winnings(pots, strength, remaining, seat, q)
           <= getTotalPotAmount(InReach(pots, q))
  <1> DEFINE W(x) == Recipients(x, strength, remaining)
             D == {x \in pots : q \in W(x)}
             E == InReach(pots, q)
             f == [x \in D |-> Share(x.amount, W(x), seat, q)]
             a == [x \in E |-> x.amount]
  <1>1. /\ IsFiniteSet(pots) /\ E \in SUBSET pots
        /\ \A x \in pots : x.amount \in Nat /\ x.eligiblePlayers \in SUBSET P
    BY DEF PotsOver, InReach
  <1>2. IsFiniteSet(E) /\ a \in [E -> Nat]
    BY <1>1, FS_Subset
  <1>3. ASSUME NEW x \in pots PROVE W(x) \subseteq x.eligiblePlayers
    BY DEF Recipients
  <1>4. D \in SUBSET E
    BY <1>3 DEF InReach
  <1>5. ASSUME NEW x \in D PROVE f[x] \in Nat /\ f[x] <= a[x]
    <2>1. x \in pots /\ x \in E /\ q \in W(x)
      BY <1>4
    <2>2. IsFiniteSet(W(x)) /\ W(x) # {} /\ x.amount \in Nat
      BY <1>1, <1>3, <2>1, FS_Subset
    <2>3. f[x] = Share(x.amount, W(x), seat, q) /\ a[x] = x.amount
      BY <2>1
    <2> HIDE DEF D, E, W, f, a
    <2>4. Share(x.amount, W(x), seat, q) \in Nat
      BY <2>2, ShareType
    <2>5. Share(x.amount, W(x), seat, q) <= x.amount
      BY <2>1, <2>2, ShareAtMost
    <2> QED BY <2>3, <2>4, <2>5
  <1>6. f \in [D -> Nat] /\ \A x \in D : f[x] <= a[x]
    BY <1>5
  <1> HIDE DEF D, E, f, a
  <1>7. Total(f) <= Total(a)
    BY <1>2, <1>4, <1>6, TotalPart
  <1> QED BY <1>7 DEF Winnings, getTotalPotAmount, D, E, f, a

(* m is what everybody has put in, up to the amount c. *)
CappedAt(m, totalBet, P, c) ==
  /\ m \in [P -> Nat]
  /\ \A x \in P : m[x] = IF totalBet[x] < c THEN totalBet[x] ELSE c

(* Below the cap the levels and who reaches them are the same. *)
LEMMA LayersCapped ==
  ASSUME NEW P, IsFiniteSet(P), NEW t \in [P -> Nat], NEW q \in P,
         NEW levels \in SUBSET (Nat \ {0}), IsFiniteSet(levels),
         \A p \in P : t[p] # 0 => t[p] \in levels,
         NEW m, CappedAt(m, t, P, t[q]),
         NEW A, A \in [{l \in levels : l <= t[q]} -> Nat],
         \A l \in {k \in levels : k <= t[q]} :
           A[l] = (l - PreviousAmount(levels, l)) * Cardinality({p \in P : t[p] >= l})
  PROVE  Total(A) = Total(m)
  <1> DEFINE low == {l \in levels : l <= t[q]}
  <1>1. low \in SUBSET (Nat \ {0}) /\ IsFiniteSet(low) /\ t[q] \in Nat
    BY FS_Subset
  <1>2. \A x \in P : m[x] = IF t[x] < t[q] THEN t[x] ELSE t[q]
    BY DEF CappedAt
  <1>3. m \in [P -> Nat] /\ \A p \in P : t[p] \in Nat
    BY DEF CappedAt
  <1>4. \A p \in P : m[p] # 0 => m[p] \in low
    BY <1>1, <1>2, <1>3
  <1>5. ASSUME NEW l \in low
        PROVE  A[l] = (l - PreviousAmount(low, l)) * Cardinality({p \in P : m[p] >= l})
    <2>1. l \in levels /\ l \in Nat /\ l <= t[q]
      OBVIOUS
    <2>2. {k \in levels : k < l} = {k \in low : k < l}
      <3>1. \A k \in levels : k < l => k <= t[q]
        BY <1>1, <2>1
      <3> QED BY <3>1
    <2>3. PreviousAmount(low, l) = PreviousAmount(levels, l)
      BY <2>2 DEF PreviousAmount
    <2>4. {p \in P : m[p] >= l} = {p \in P : t[p] >= l}
      BY <1>1, <1>2, <1>3, <2>1
    <2>5. A[l] = (l - PreviousAmount(levels, l)) * Cardinality({p \in P : t[p] >= l})
      OBVIOUS
    <2> QED BY <2>3, <2>4, <2>5
  <1>6. LayersOf(A, low, P, m)
    BY <1>5 DEF LayersOf
  <1> HIDE DEF low
  <1> QED BY <1>1, <1>3, <1>4, <1>6, LayersTotal

(* The side pots that q may win hold what the others have put in up to the *)
(* amount of q.                                                            *)
LEMMA SidePotsInReach ==
  ASSUME NEW P, IsFiniteSet(P), NEW pots \in PotsOver(P),
         NEW players \in SUBSET P, NEW totalBet \in [P -> Nat], NEW isFolded,
         \A p \in P \ players : totalBet[p] = 0,
         getTotalPotAmount(pots) = Total(totalBet),
         ~(Cardinality({p \in players : ~isFolded[p]}) <= 1),
         NEW q \in players,
         totalBet[q] = 0 => \A p \in players : totalBet[p] = 0,
         NEW m, CappedAt(m, totalBet, P, totalBet[q])
  PROVE  getTotalPotAmount(InReach(createSidePots(pots, players, totalBet, isFolded), q))
           <= Total(m)
  <1> DEFINE eligible == {p \in players : ~isFolded[p]}
             levels == {totalBet[p] : p \in players} \ {0}
             reached(l) == {p \in players : totalBet[p] >= l}
             betSize(l) == l - PreviousAmount(levels, l)
             pot(l) == MakePot(l, betSize(l) * Cardinality(reached(l)),
                               reached(l) \cap eligible)
             new == createSidePots(pots, players, totalBet, isFolded)
             E == InReach(new, q)
             a == [x \in E |-> x.amount]
  <1>1. levels \in SUBSET (Nat \ {0}) /\ IsFiniteSet(levels)
    BY LevelsType
  <1>2. new \in PotsOver(P)
    BY CreateSidePotsType
  <1>3. /\ E \in SUBSET new /\ IsFiniteSet(E) /\ a \in [E -> Nat]
        /\ \A x \in E : a[x] = x.amount
    <2>1. E \in SUBSET new /\ IsFiniteSet(new) /\ \A x \in new : x.amount \in Nat
      BY <1>2 DEF PotsOver, InReach
    <2> QED BY <2>1, FS_Subset
  <1>4. /\ \A x \in P : m[x] = IF totalBet[x] < totalBet[q] THEN totalBet[x] ELSE totalBet[q]
        /\ m \in [P -> Nat] /\ q \in P
    BY DEF CappedAt
  <1>5. CASE Cardinality(levels) <= 1
    <2>1. getTotalPotAmount(new) = Total(totalBet)
      BY CreateSidePotsTotal
    <2> DEFINE f == [x \in new |-> x.amount]
    <2>2. IsFiniteSet(new) /\ f \in [new -> Nat] /\ \A x \in E : a[x] <= f[x]
      BY <1>2, <1>3, AmountsType
    <2>3. Total(a) <= Total(f)
      <3> HIDE DEF new, f, a, E
      <3> QED BY <1>3, <2>2, TotalPart
    <2>4. \A x \in P : m[x] = totalBet[x]
      <3> SUFFICES ASSUME NEW x \in P PROVE m[x] = totalBet[x]
        OBVIOUS
      <3>1. CASE totalBet[q] = 0
        <4>1. totalBet[x] = 0
          BY <3>1
        <4> QED BY <1>4, <3>1, <4>1
      <3>2. CASE totalBet[q] # 0
        <4>1. totalBet[q] \in levels
          BY <3>2
        <4>2. \A l \in levels : l = totalBet[q]
          <5> HIDE DEF levels
          <5>1. Cardinality(levels) \in Nat
            BY <1>1, FS_CardinalityType
          <5>2. Cardinality(levels) # 0
            BY <1>1, <4>1, FS_EmptySet
          <5>3. Cardinality(levels) = 1
            BY <1>5, <5>1, <5>2
          <5>4. PICK l : levels = {l}
            BY <1>1, <5>3, FS_Singleton
          <5> QED BY <4>1, <5>4
        <4>3. totalBet[x] = 0 \/ totalBet[x] = totalBet[q]
          BY <4>2
        <4> QED BY <1>4, <4>3
      <3> QED BY <3>1, <3>2
    <2>5. Total(m) = Total(totalBet)
      <3>1. m = totalBet
        BY <1>4, <2>4
      <3> QED BY <3>1
    <2> QED BY <2>1, <2>3, <2>5 DEF getTotalPotAmount
  <1>6. CASE ~(Cardinality(levels) <= 1)
    <2> DEFINE low == {l \in levels : l <= totalBet[q]}
               A == [l \in low |-> betSize(l) * Cardinality(reached(l))]
               b == [l \in low |-> pot(l)]
               lowE == {l \in low : q \in eligible}
               B == [l \in lowE |-> A[l]]
    <2>1. new = {pot(l) : l \in levels}
      BY <1>6 DEF createSidePots
    <2>2. ASSUME NEW l \in levels
          PROVE  /\ pot(l).level = l /\ pot(l).amount = betSize(l) * Cardinality(reached(l))
                 /\ pot(l).eligiblePlayers = reached(l) \cap eligible
                 /\ pot(l) \in new /\ pot(l).amount \in Nat
      <3>1. pot(l) \in new
        BY <2>1
      <3>2. pot(l).amount \in Nat
        BY <1>2, <3>1 DEF PotsOver
      <3> QED BY <3>1, <3>2 DEF MakePot
    <2>3. A \in [low -> Nat] /\ low \in SUBSET levels /\ IsFiniteSet(low)
      BY <1>1, <2>2, FS_Subset
    <2>4. Total(A) = Total(m)
      <3>1. ASSUME NEW l \in low
            PROVE  A[l] = (l - PreviousAmount(levels, l)) * Cardinality({p \in P : totalBet[p] >= l})
        <4>1. reached(l) = {p \in P : totalBet[p] >= l}
          BY <1>1
        <4> QED BY <4>1
      <3>2. \A p \in P : totalBet[p] # 0 => totalBet[p] \in levels
        OBVIOUS
      <3> HIDE DEF levels, A
      <3> QED BY <1>1, <1>4, <2>3, <3>1, <3>2, LayersCapped
    <2>5. ASSUME NEW x \in E
          PROVE  \E l \in lowE : x = pot(l)
      <3>1. PICK l \in levels : x = pot(l)
        BY <2>1 DEF InReach
      <3>2. q \in reached(l) /\ q \in eligible
        BY <2>2, <3>1 DEF InReach
      <3> QED BY <3>1, <3>2
    <2>6. ASSUME NEW l \in lowE
          PROVE  pot(l) \in E /\ a[pot(l)] = B[l] /\ pot(l).level = l
      <3>1. q \in reached(l) \cap eligible /\ l \in levels /\ l \in low
        OBVIOUS
      <3>2. pot(l) \in E
        BY <2>2, <3>1 DEF InReach
      <3>3. pot(l).amount = A[l] /\ pot(l).level = l
        BY <2>2, <3>1
      <3> HIDE DEF E, a, pot, A
      <3> QED BY <1>3, <3>2, <3>3
    <2>7. B \in [lowE -> Nat] /\ lowE \in SUBSET low /\ \A l \in lowE : B[l] <= A[l]
      BY <2>3
    <2> DEFINE c == [l \in lowE |-> pot(l)]
    <2>8. \A l \in lowE : c[l] = pot(l)
      OBVIOUS
    <2> HIDE DEF E, a, pot, A, B, lowE, low, c
    <2>9. Renaming(c, lowE, B, E, a)
      <3>1. \A l \in lowE : c[l] \in E /\ a[c[l]] = B[l] /\ c[l].level = l
        BY <2>6, <2>8
      <3>2. \A x \in E : \E l \in lowE : c[l] = x
        BY <2>5, <2>8
      <3>3. \A x, y \in lowE : c[x] = c[y] => x = y
        BY <3>1
      <3> QED BY <1>3, <2>7, <3>1, <3>2, <3>3 DEF Renaming
    <2>10. IsFiniteSet(lowE)
      BY <2>3, <2>7, FS_Subset
    <2>11. Total(B) = Total(a)
      BY <2>9, <2>10, TotalReindex
    <2>12. Total(B) <= Total(A)
      BY <2>3, <2>7, TotalPart
    <2>13. Total(a) <= Total(m)
      BY <2>4, <2>11, <2>12
    <2> QED BY <2>13 DEF getTotalPotAmount, a, E
  <1> QED BY <1>5, <1>6

=============================================================================
