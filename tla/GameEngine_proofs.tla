------------------------- MODULE GameEngine_proofs --------------------------
(***************************************************************************)
(* Proofs about GameEngine, for every finite set of players and any size   *)
(* of the blinds.  The type invariant, BetsMatched and EvenStakes hold for *)
(* all liberties of the callers; the other theorems name the liberties     *)
(* that the run of the property leaves out, because they break it.  Every  *)
(* part has the inductive invariant it adds to the ones before it.         *)
(***************************************************************************)
EXTENDS GameEngine, PotManager_proofs

-----------------------------------------------------------------------------
(* Lemmas on tables: what the operators of GameState and ActionValidator   *)
(* return for a well-formed table.                                         *)

(* The part of TypeOK that every operator on tables keeps. *)
TableOK(g) ==
  /\ g \in Table
  /\ \A i, j \in DOMAIN g.players : g.players[i] = g.players[j] => i = j
  /\ g.pots # {} /\ IsFiniteSet(g.pots)
  /\ g.minimumRaise >= BigBlindAmount

-----------------------------------------------------------------------------
(* Seats *)

(* rank() of the operator Without numbers the seats that are kept. *)
LEMMA RankOnto ==
  ASSUME NEW n \in Nat, NEW kept \in SUBSET (1..n)
  PROVE  /\ Cardinality(kept) \in Nat
         /\ \A k \in 1..Cardinality(kept) :
              \E i \in kept : Cardinality({j \in kept : j <= i}) = k
         /\ \A i, j \in kept :
              Cardinality({m \in kept : m <= i}) = Cardinality({m \in kept : m <= j})
                => i = j
         /\ \A i \in kept : Cardinality({j \in kept : j <= i}) \in 1..Cardinality(kept)
  <1> DEFINE rank(i) == Cardinality({j \in kept : j <= i})
             c == Cardinality(kept)
  <1>1. IsFiniteSet(kept) /\ c \in Nat
    <2>1. IsFiniteSet(1..n)
      BY FS_Interval
    <2>2. IsFiniteSet(kept)
      BY <2>1, FS_Subset
    <2> QED BY <2>2, FS_CardinalityType
  <1>2. ASSUME NEW i \in kept PROVE rank(i) \in 1..c
    <2> DEFINE S == {j \in kept : j <= i}
    <2>1. S \in SUBSET kept /\ i \in S
      OBVIOUS
    <2>2. IsFiniteSet(S) /\ Cardinality(S) <= c /\ Cardinality(S) \in Nat
      BY <1>1, <2>1, FS_Subset, FS_CardinalityType
    <2>3. Cardinality(S) # 0
      BY <2>1, <2>2, FS_EmptySet
    <2> HIDE DEF S, c
    <2>4. Cardinality(S) \in 1..c
      BY <1>1, <2>2, <2>3
    <2> QED BY <2>4 DEF S
  <1>3. ASSUME NEW i \in kept, NEW j \in kept, i < j PROVE rank(i) # rank(j)
    <2> DEFINE S == {m \in kept : m <= i}
               T == {m \in kept : m <= j}
    <2>1. S \subseteq T /\ j \in T /\ j \notin S
      <3>1. i \in Int /\ j \in Int /\ \A m \in kept : m \in Int
        OBVIOUS
      <3>2. \A m \in kept : m <= i => m <= j
        BY <3>1, <1>3
      <3>3. j <= j /\ ~(j <= i)
        BY <3>1, <1>3
      <3> QED BY <3>2, <3>3
    <2>2. T \in SUBSET kept
      OBVIOUS
    <2>3. IsFiniteSet(T)
      BY <1>1, <2>2, FS_Subset
    <2> HIDE DEF S, T
    <2>4. Cardinality(T) # Cardinality(S)
      BY <2>1, <2>3, FS_Subset
    <2> QED BY <2>4 DEF S, T
  <1>4. ASSUME NEW i \in kept, NEW j \in kept, rank(i) = rank(j) PROVE i = j
    <2>1. i \in Int /\ j \in Int
      OBVIOUS
    <2> HIDE DEF rank
    <2>2. i < j \/ j < i \/ i = j
      BY <2>1
    <2> QED BY <1>3, <1>4, <2>2
  <1> DEFINE r == [i \in kept |-> rank(i)]
  <1>5. r \in Injection(kept, 1..c)
    <2> HIDE DEF rank, c
    <2> QED BY <1>2, <1>4 DEF Injection, IsInjective
  <1>6. IsFiniteSet(1..c) /\ Cardinality(1..c) = c
    <2> HIDE DEF c
    <2> QED BY <1>1, FS_Interval
  <1>7. r \in Surjection(kept, 1..c)
    <2> HIDE DEF r
    <2> QED BY <1>5, <1>6, FS_Injection
  <1>8. ASSUME NEW k \in 1..c PROVE \E i \in kept : rank(i) = k
    <2> HIDE DEF rank, c
    <2> QED BY <1>7 DEF Surjection
  <1> QED BY <1>1, <1>2, <1>4, <1>8

(* Without() keeps the other elements of a sequence, and each once. *)
LEMMA WithoutSeats ==
  ASSUME NEW X, NEW s \in Seq(X), NEW B,
         \A i, j \in DOMAIN s : s[i] = s[j] => i = j
  PROVE  LET t == Without(s, B)
         IN  /\ t \in Seq(X)
             /\ \A i, j \in DOMAIN t : t[i] = t[j] => i = j
             /\ {t[i] : i \in DOMAIN t} = {s[i] : i \in DOMAIN s} \ B
  <1> DEFINE kept == {i \in DOMAIN s : s[i] \notin B}
             rank(i) == Cardinality({j \in kept : j <= i})
             c == Cardinality(kept)
             at(k) == CHOOSE i \in kept : rank(i) = k
             t == [k \in 1..c |-> s[at(k)]]
  <1>1. Len(s) \in Nat /\ DOMAIN s = 1..Len(s) /\ kept \in SUBSET (1..Len(s))
    OBVIOUS
  <1>2. /\ c \in Nat
        /\ \A k \in 1..c : \E i \in kept : rank(i) = k
        /\ \A i, j \in kept : rank(i) = rank(j) => i = j
        /\ \A i \in kept : rank(i) \in 1..c
    <2> HIDE DEF kept
    <2> QED BY <1>1, RankOnto
  <1>3. Without(s, B) = t
    BY DEF Without
  <1> HIDE DEF rank, c
  <1>4. \A k \in 1..c : at(k) \in kept /\ rank(at(k)) = k
    BY <1>2
  <1>5. \A i \in kept : at(rank(i)) = i /\ rank(i) \in 1..c
    BY <1>2, <1>4
  <1> HIDE DEF at
  <1>6. \A k \in 1..c : s[at(k)] \in X /\ s[at(k)] \notin B /\ at(k) \in DOMAIN s
    BY <1>4
  <1>7. t \in Seq(X)
    <2>1. t \in [1..c -> X]
      BY <1>6
    <2> QED BY <1>2, <2>1
  <1>8. ASSUME NEW i \in DOMAIN t, NEW j \in DOMAIN t, t[i] = t[j] PROVE i = j
    <2>1. i \in 1..c /\ j \in 1..c /\ s[at(i)] = s[at(j)]
      BY <1>8
    <2>2. at(i) = at(j)
      BY <2>1, <1>6
    <2> QED BY <2>1, <2>2, <1>4
  <1>9. ASSUME NEW x \in {s[i] : i \in DOMAIN s} \ B
        PROVE  x \in {t[i] : i \in DOMAIN t}
    <2>1. PICK i \in kept : s[i] = x
      OBVIOUS
    <2>2. rank(i) \in DOMAIN t /\ t[rank(i)] = x
      BY <2>1, <1>5
    <2> QED BY <2>2
  <1>10. ASSUME NEW k \in DOMAIN t PROVE t[k] \in {s[i] : i \in DOMAIN s} \ B
    BY <1>6
  <1>11. {t[i] : i \in DOMAIN t} = {s[i] : i \in DOMAIN s} \ B
    <2> HIDE DEF t
    <2> QED BY <1>9, <1>10
  <1> HIDE DEF t
  <1> QED BY <1>3, <1>7, <1>8, <1>11

(* The seats of a table, by number. *)
LEMMA SeatFacts ==
  ASSUME NEW g, TableOK(g)
  PROVE  /\ SeatCount(g) \in Nat
         /\ Seated(g) \in SUBSET Players
         /\ IsFiniteSet(Seated(g))
         /\ \A i \in 0..(SeatCount(g) - 1) : PlayerAt(g, i) \in Seated(g)
         /\ \A p \in Seated(g) : \E i \in 0..(SeatCount(g) - 1) : PlayerAt(g, i) = p
         /\ \A p : SeatOf(g, p) \in Int
         /\ SeatCount(g) = 0 <=> Seated(g) = {}
  <1>1. g.players \in Seq(Players)
    BY DEF TableOK, Table
  <1>2. SeatCount(g) \in Nat /\ DOMAIN g.players = 1..SeatCount(g)
    BY <1>1 DEF SeatCount
  <1>3. Seated(g) \in SUBSET Players
    BY <1>1 DEF Seated
  <1>4. IsFiniteSet(Seated(g))
    BY <1>3, PlayersAssumption, FS_Subset
  <1>5. \A i \in 0..(SeatCount(g) - 1) : PlayerAt(g, i) \in Seated(g)
    BY <1>2 DEF PlayerAt, Seated
  <1>6. ASSUME NEW p \in Seated(g)
        PROVE  \E i \in 0..(SeatCount(g) - 1) : PlayerAt(g, i) = p
    <2>1. PICK k \in 1..SeatCount(g) : g.players[k] = p
      BY <1>2 DEF Seated
    <2>2. k - 1 \in 0..(SeatCount(g) - 1) /\ (k - 1) + 1 = k
      BY <1>2
    <2>3. PlayerAt(g, k - 1) = p
      BY <2>1, <2>2 DEF PlayerAt
    <2> QED BY <2>2, <2>3
  <1>7. \A p : SeatOf(g, p) \in Int
    BY <1>2, <1>6 DEF SeatOf
  <1>8. SeatCount(g) = 0 <=> Seated(g) = {}
    <2>1. CASE SeatCount(g) = 0
      <3>1. 1..0 = {}
        OBVIOUS
      <3> QED BY <1>2, <2>1, <3>1 DEF Seated
    <2>2. CASE SeatCount(g) # 0
      <3>1. 1 \in DOMAIN g.players
        BY <1>2, <2>2
      <3> QED BY <2>2, <3>1 DEF Seated
    <2> QED BY <2>1, <2>2
  <1> QED BY <1>2, <1>3, <1>4, <1>5, <1>6, <1>7, <1>8

(* The remainder of a division is determined by its equation. *)
LEMMA RemainderUnique ==
  ASSUME NEW n \in Nat \ {0}, NEW x \in Int, NEW q \in Int,
         NEW r \in 0..(n - 1), x = n * q + r
  PROVE  x % n = r
  <1> DEFINE d == x \div n
             e == x % n
  <1>1. e \in 0..(n - 1)
    OBVIOUS
  <1>2. d \in Int
    OBVIOUS
  <1>3. x = n * d + e
    OBVIOUS
  <1> HIDE DEF d, e
  <1>4. n * (d - q) = r - e
    BY <1>1, <1>2, <1>3
  <1>5. CASE d - q >= 1
    <2>1. n * (d - q) >= n
      BY <1>2, <1>5
    <2> QED BY <1>1, <1>4, <2>1
  <1>6. CASE d - q <= -1
    <2>1. n * (d - q) <= -n
      BY <1>2, <1>6
    <2> QED BY <1>1, <1>4, <2>1
  <1>7. CASE d = q
    BY <1>1, <1>4, <1>7 DEF e
  <1> QED BY <1>2, <1>5, <1>6, <1>7

(* Going round the table from any seat meets every seat.  The start may be *)
(* a seat that does not exist any more.                                    *)
LEMMA RoundTheTable ==
  ASSUME NEW n \in Nat \ {0}, NEW start \in Nat, NEW j \in 0..(n - 1)
  PROVE  \E i \in 0..(n - 1) : (start + i) % n = j
  <1> DEFINE q == start \div n
             r == start % n
  <1>1. r \in 0..(n - 1)
    OBVIOUS
  <1>2. q \in Int
    OBVIOUS
  <1>3. start = n * q + r
    OBVIOUS
  <1> HIDE DEF q, r
  <1> DEFINE m == n * q
  <1>m. m \in Int /\ start = m + r
    BY <1>2, <1>3
  <1> HIDE DEF m
  <1>4. CASE r <= j
    <2>1. j - r \in 0..(n - 1) /\ start + (j - r) = m + j
      BY <1>1, <1>m, <1>4
    <2>3. start + (j - r) \in Int
      BY <1>1
    <2>2. (start + (j - r)) % n = j
      BY <1>2, <2>1, <2>3, RemainderUnique DEF m
    <2> QED BY <2>1, <2>2
  <1>5. CASE r > j
    <2> DEFINE i == j - r + n
    <2>1. i \in 0..(n - 1) /\ start + i = m + n + j
      BY <1>1, <1>m, <1>5
    <2>2. n * (q + 1) = m + n
      <3>1. \A a, b \in Int : a * (b + 1) = a * b + a
        OBVIOUS
      <3> QED BY <1>2, <3>1 DEF m
    <2>3. start + i = n * (q + 1) + j
      BY <1>m, <2>1, <2>2
    <2> HIDE DEF i
    <2>4. start + i \in Int /\ q + 1 \in Int
      BY <1>2, <2>1
    <2>5. (start + i) % n = j
      BY <2>3, <2>4, RemainderUnique
    <2> QED BY <2>1, <2>5
  <1> QED BY <1>1, <1>4, <1>5

(* The search for the next player starts at a number of a seat, also when  *)
(* the player the pointer names has left.                                  *)
LEMMA StartPositionType ==
  ASSUME NEW g, TableOK(g), SeatCount(g) # 0
  PROVE  StartPosition(g) \in Nat
  <1> DEFINE n == SeatCount(g)
  <1>1. n \in Nat \ {0}
    BY SeatFacts
  <1>2. \A x \in Int : x % n \in 0..(n - 1)
    BY <1>1
  <1>3. SeatOf(g, g.currentPlayerToAct) + 1 \in Int
    <2>1. SeatOf(g, g.currentPlayerToAct) \in Int
      BY SeatFacts
    <2> QED BY <2>1
  <1>4. g.dealerPosition \in Nat
    BY DEF TableOK, Table
  <1>5. smallBlindPosition(g) \in 0..(n - 1) /\ bigBlindPosition(g) \in 0..(n - 1)
    BY <1>2, <1>4 DEF smallBlindPosition, bigBlindPosition
  <1>6. /\ (bigBlindPosition(g) + 1) % n \in 0..(n - 1)
        /\ (g.dealerPosition + 1) % n \in 0..(n - 1)
        /\ (SeatOf(g, g.currentPlayerToAct) + 1) % n \in 0..(n - 1)
    <2>1. bigBlindPosition(g) + 1 \in Int
      BY <1>1, <1>5
    <2> HIDE DEF n
    <2> QED BY <1>2, <1>3, <1>4, <2>1
  <1>7. \A x \in 0..(n - 1) : x \in Nat
    BY <1>1
  <1>8. CASE g.currentPlayerToAct # NoPlayer
    BY <1>6, <1>7, <1>8 DEF StartPosition
  <1>9. CASE g.currentPlayerToAct = NoPlayer /\ g.currentPhase = "PreFlop"
    BY <1>5, <1>6, <1>7, <1>9 DEF StartPosition
  <1>10. CASE g.currentPlayerToAct = NoPlayer /\ g.currentPhase # "PreFlop"
    BY <1>4, <1>6, <1>7, <1>10 DEF StartPosition
  <1> QED BY <1>8, <1>9, <1>10

(* setNextPlayerToAct() moves the turn and nothing else, and to somebody   *)
(* who can act if there is somebody.                                       *)
LEMMA FirstToActType ==
  ASSUME NEW g, TableOK(g), PlayersWhoCanAct(g) # {},
         NEW start \in Nat
  PROVE  FirstToActFrom(g, start) \in PlayersWhoCanAct(g)
  <1> DEFINE n == SeatCount(g)
             able == {i \in 0..(n - 1) : canAct(g, PlayerAt(g, (start + i) % n))}
  <1>1. n \in Nat \ {0}
    BY SeatFacts DEF PlayersWhoCanAct
  <1>2. PICK p \in Seated(g) : canAct(g, p)
    BY DEF PlayersWhoCanAct
  <1>3. PICK j \in 0..(n - 1) : PlayerAt(g, j) = p
    BY SeatFacts
  <1>4. PICK i \in 0..(n - 1) : (start + i) % n = j
    BY <1>1, RoundTheTable
  <1>5. able \in SUBSET Nat /\ able # {}
    BY <1>1, <1>2, <1>3, <1>4
  <1>6. Min(able) \in able
    <2> HIDE DEF able
    <2> QED BY <1>5, MinNatural
  <1>7. (start + Min(able)) % n \in 0..(n - 1)
    <2>1. start + Min(able) \in Int
      BY <1>5, <1>6
    <2> HIDE DEF n, able
    <2> QED BY <1>1, <2>1
  <1>8. PlayerAt(g, (start + Min(able)) % n) \in PlayersWhoCanAct(g)
    BY <1>6, <1>7, SeatFacts DEF PlayersWhoCanAct
  <1> QED BY <1>8 DEF FirstToActFrom

(* setNextPlayerToAct() changes nothing but the turn, and gives it to a    *)
(* player who can act if there is one.                                     *)
LEMMA SetNext ==
  ASSUME NEW g, TableOK(g)
  PROVE  \E c \in Players \cup {NoPlayer} :
           /\ setNextPlayerToAct(g) = [g EXCEPT !.currentPlayerToAct = c]
           /\ PlayersWhoCanAct(g) # {} => c \in PlayersWhoCanAct(g)
           /\ PlayersWhoCanAct(g) = {} => c = NoPlayer
  <1>1. CASE PlayersWhoCanAct(g) = {}
    BY <1>1 DEF setNextPlayerToAct
  <1>2. CASE PlayersWhoCanAct(g) # {}
    <2>1. SeatCount(g) # 0
      BY <1>2, SeatFacts DEF PlayersWhoCanAct
    <2>2. FirstToActFrom(g, StartPosition(g)) \in PlayersWhoCanAct(g)
      BY <1>2, <2>1, StartPositionType, FirstToActType
    <2>3. PlayersWhoCanAct(g) \subseteq Players
      BY SeatFacts DEF PlayersWhoCanAct
    <2> QED BY <1>2, <2>2, <2>3 DEF setNextPlayerToAct
  <1> QED BY <1>1, <1>2

(* Moving the turn keeps the table well-typed. *)
LEMMA SetNextOK ==
  ASSUME NEW g, TableOK(g), NEW c \in Players \cup {NoPlayer}
  PROVE  TableOK([g EXCEPT !.currentPlayerToAct = c])
  BY DEF TableOK, Table

-----------------------------------------------------------------------------
(* Bets *)

(* The highest bet of the round is attained by a player in the hand or 0. *)
LEMMA CurrentBetFacts ==
  ASSUME NEW g, TableOK(g)
  PROVE  /\ getCurrentBet(g) \in Nat
         /\ \A p \in PlayersInHand(g) : g.currentBet[p] <= getCurrentBet(g)
         /\ \/ getCurrentBet(g) = 0
            \/ \E p \in PlayersInHand(g) : g.currentBet[p] = getCurrentBet(g)
  <1> DEFINE H == PlayersInHand(g)
             f == [p \in H |-> g.currentBet[p]]
             S == {g.currentBet[p] : p \in H} \cup {0}
  <1>1. H \in SUBSET Players /\ IsFiniteSet(H)
    BY SeatFacts, FS_Subset DEF PlayersInHand
  <1>2. g.currentBet \in [Players -> Nat]
    BY DEF TableOK, Table
  <1>3. IsFiniteSet({f[p] : p \in DOMAIN f})
    <2> HIDE DEF H
    <2> QED BY <1>1, FiniteImage
  <1>4. {f[p] : p \in DOMAIN f} = {g.currentBet[p] : p \in H}
    OBVIOUS
  <1>5. IsFiniteSet(S)
    BY <1>3, <1>4, FS_AddElement
  <1>6. S \in SUBSET Nat /\ S # {}
    BY <1>1, <1>2
  <1>7. Max(S) \in S /\ \A y \in S : Max(S) >= y
    <2>1. S \in SUBSET Int
      BY <1>6
    <2> HIDE DEF S
    <2> QED BY <1>5, <1>6, <2>1, MaxInteger
  <1>8. getCurrentBet(g) = Max(S)
    BY DEF getCurrentBet
  <1>9. \A p \in H : g.currentBet[p] \in S /\ g.currentBet[p] \in Nat
    BY <1>1, <1>2
  <1>10. \A p \in H : g.currentBet[p] <= Max(S)
    <2> HIDE DEF S, H
    <2> QED BY <1>6, <1>7, <1>9
  <1> QED BY <1>6, <1>7, <1>8, <1>10

-----------------------------------------------------------------------------
(* The betting invariants, of a table *)

(* BetsMatched and EvenStakes of a table in a hand. *)
Matched(g) == \A p \in PlayersWhoCanAct(g) :
                g.hasActed[p] => g.currentBet[p] = getCurrentBet(g)
Even(g) == \A p \in PlayersWhoCanAct(g), q \in PlayersInHand(g) :
             PaidBefore(g, p) >= PaidBefore(g, q)
Fair(g) == Matched(g) /\ Even(g)

(* Everybody who can act has acted. *)
Closed(g) == \A p \in PlayersWhoCanAct(g) : g.hasActed[p]

(* The tables that differ from g in nothing the betting invariants read. *)
SameBets(g, h) ==
  /\ h.players = g.players
  /\ h.chipStack = g.chipStack
  /\ h.currentBet = g.currentBet
  /\ h.totalBetThisHand = g.totalBetThisHand
  /\ h.hasActed = g.hasActed
  /\ h.isFolded = g.isFolded
  /\ h.isAllIn = g.isAllIn

(* The tables that differ from g in nothing that counts chips. *)
SameMoney(g, h) ==
  /\ h.players = g.players
  /\ h.chipStack = g.chipStack
  /\ h.totalBetThisHand = g.totalBetThisHand
  /\ h.pots = g.pots

(* The turn is with somebody who can act, if there is somebody. *)
Turn(g) == IF PlayersWhoCanAct(g) = {} THEN g.currentPlayerToAct = NoPlayer
           ELSE g.currentPlayerToAct \in PlayersWhoCanAct(g)

(* h is the table g after p has put in a of his chips. *)
Staked(g, h, p, a) ==
  /\ h.players = g.players
  /\ h.isFolded = g.isFolded
  /\ h.chipStack = [g.chipStack EXCEPT ![p] = @ - a]
  /\ h.currentBet = [g.currentBet EXCEPT ![p] = @ + a]
  /\ h.totalBetThisHand = [g.totalBetThisHand EXCEPT ![p] = @ + a]
  /\ h.isAllIn = [g.isAllIn EXCEPT ![p] = @ \/ g.chipStack[p] = a]

(* Fairness of the betting depends only on bets and stacks. *)
LEMMA SameBetsFair ==
  ASSUME NEW g, NEW h, SameBets(g, h)
  PROVE  /\ Seated(h) = Seated(g)
         /\ PlayersInHand(h) = PlayersInHand(g)
         /\ PlayersWhoCanAct(h) = PlayersWhoCanAct(g)
         /\ getCurrentBet(h) = getCurrentBet(g)
         /\ Fair(g) => Fair(h)
         /\ Closed(g) => Closed(h)
  <1>1. Seated(h) = Seated(g)
    BY DEF SameBets, Seated
  <1>2. PlayersInHand(h) = PlayersInHand(g)
    BY <1>1 DEF SameBets, PlayersInHand
  <1>3. PlayersWhoCanAct(h) = PlayersWhoCanAct(g)
    BY <1>1 DEF SameBets, PlayersWhoCanAct, canAct
  <1>4. getCurrentBet(h) = getCurrentBet(g)
    BY <1>2 DEF SameBets, getCurrentBet
  <1> QED BY <1>1, <1>2, <1>3, <1>4
    DEF SameBets, Fair, Matched, Even, PaidBefore, Closed

(* Moving the turn changes none of this. *)
LEMMA SetNextFacts ==
  ASSUME NEW g, TableOK(g)
  PROVE  LET h == setNextPlayerToAct(g)
         IN  /\ TableOK(h)
             /\ SameBets(g, h)
             /\ h.currentPhase = g.currentPhase
             /\ h.gameRunning = g.gameRunning
             /\ h.thrown = g.thrown
             /\ h.pots = g.pots
             /\ SameMoney(g, h)
             /\ Turn(h)
  <1> DEFINE h == setNextPlayerToAct(g)
  <1>1. PICK c \in Players \cup {NoPlayer} :
          /\ h = [g EXCEPT !.currentPlayerToAct = c]
          /\ PlayersWhoCanAct(g) # {} => c \in PlayersWhoCanAct(g)
          /\ PlayersWhoCanAct(g) = {} => c = NoPlayer
    BY SetNext
  <1>2. TableOK([g EXCEPT !.currentPlayerToAct = c])
    BY SetNextOK
  <1> HIDE DEF h
  <1>3. /\ TableOK(h) /\ SameBets(g, h) /\ SameMoney(g, h)
        /\ h.currentPhase = g.currentPhase /\ h.gameRunning = g.gameRunning
        /\ h.thrown = g.thrown /\ h.pots = g.pots /\ h.currentPlayerToAct = c
    BY <1>1, <1>2 DEF TableOK, Table, SameBets, SameMoney
  <1>4. Turn(h)
    BY <1>1, <1>3, SameBetsFair DEF Turn
  <1> QED BY <1>3, <1>4 DEF h

(* A street ends: the bets of the street become bets paid before. *)
LEMMA AdvancePhaseFacts ==
  ASSUME NEW g, TableOK(g), g.currentPhase # "HandComplete"
  PROVE  LET h == advancePhase(g)
         IN  /\ TableOK(h)
             /\ h.currentPhase = NextPhase[g.currentPhase]
             /\ h.gameRunning = g.gameRunning
             /\ h.thrown = g.thrown
             /\ PlayersInHand(h) = PlayersInHand(g)
             /\ PlayersWhoCanAct(h) = PlayersWhoCanAct(g)
             /\ Fair(g) /\ Closed(g) => Fair(h)
             /\ SameMoney(g, h) /\ Turn(h)
             /\ h.isFolded = g.isFolded /\ h.isAllIn = g.isAllIn
             /\ \A p \in Players : h.currentBet[p] = 0 /\ ~h.hasActed[p]
  <1> DEFINE r == [resetForNewRound(g) EXCEPT !.currentPlayerToAct = NoPlayer,
                                !.currentPhase = NextPhase[@],
                                !.minimumRaise = BigBlindAmount,
                                !.lastRaiseAmount = BigBlindAmount]
             h == advancePhase(g)
  <1>1. h = setNextPlayerToAct(r)
    BY DEF advancePhase
  <1>2. g \in Table
    BY DEF TableOK
  <1>3. NextPhase[g.currentPhase] \in GamePhase
    BY <1>2 DEF Table, GamePhase, Betting, NextPhase
  <1>4. /\ r \in Table
        /\ r.players = g.players /\ r.chipStack = g.chipStack
        /\ r.totalBetThisHand = g.totalBetThisHand
        /\ r.isFolded = g.isFolded /\ r.isAllIn = g.isAllIn
        /\ r.pots = g.pots
        /\ r.currentBet = [p \in Players |-> 0]
        /\ r.hasActed = [p \in Players |-> FALSE]
        /\ r.currentPhase = NextPhase[g.currentPhase]
        /\ r.gameRunning = g.gameRunning /\ r.thrown = g.thrown
        /\ r.minimumRaise = BigBlindAmount
    <2> DEFINE z == [p \in Players |-> 0]
               b == [p \in Players |-> FALSE]
               q == resetForNewRound(g)
               n == NextPhase[g.currentPhase]
    <2>1. z \in [Players -> Nat] /\ b \in [Players -> BOOLEAN] /\ n \in GamePhase
      BY <1>3
    <2>2. q = [g EXCEPT !.hasActed = b, !.currentBet = z]
      BY DEF resetForNewRound
    <2> HIDE DEF z, b
    <2>3. q \in Table
      BY <1>2, <2>1, <2>2 DEF Table
    <2>4. q.currentPhase = g.currentPhase
      BY <1>2, <2>2 DEF Table
    <2> HIDE DEF n, q
    <2>5. r = [q EXCEPT !.currentPlayerToAct = NoPlayer, !.currentPhase = n,
                        !.minimumRaise = BigBlindAmount,
                        !.lastRaiseAmount = BigBlindAmount]
      BY <2>2, <2>4 DEF n, q
    <2> HIDE DEF r
    <2>9. BigBlindAmount \in Nat /\ BigBlindAmount \in Int
      BY BlindsAssumption
    <2>6. r \in Table
      BY <2>1, <2>3, <2>5, <2>9 DEF Table
    <2>7. /\ r.players = q.players /\ r.chipStack = q.chipStack
          /\ r.totalBetThisHand = q.totalBetThisHand
          /\ r.isFolded = q.isFolded /\ r.isAllIn = q.isAllIn
          /\ r.pots = q.pots /\ r.currentBet = q.currentBet
          /\ r.hasActed = q.hasActed
          /\ r.currentPhase = n
          /\ r.gameRunning = q.gameRunning /\ r.thrown = q.thrown
          /\ r.minimumRaise = BigBlindAmount
      BY <2>3, <2>5 DEF Table
    <2>8. /\ q.players = g.players /\ q.chipStack = g.chipStack
          /\ q.totalBetThisHand = g.totalBetThisHand
          /\ q.isFolded = g.isFolded /\ q.isAllIn = g.isAllIn
          /\ q.pots = g.pots /\ q.currentBet = z /\ q.hasActed = b
          /\ q.gameRunning = g.gameRunning /\ q.thrown = g.thrown
      BY <1>2, <2>2 DEF Table
    <2> QED BY <2>6, <2>7, <2>8 DEF n, z, b
  <1> HIDE DEF r, h
  <1>5. TableOK(r)
    BY <1>4, BlindsAssumption DEF TableOK
  <1>6. /\ TableOK(h) /\ SameBets(r, h)
        /\ h.currentPhase = r.currentPhase
        /\ h.gameRunning = r.gameRunning /\ h.thrown = r.thrown
        /\ h.pots = r.pots /\ Turn(h)
    BY <1>1, <1>5, SetNextFacts
  <1>7. /\ PlayersInHand(h) = PlayersInHand(r)
        /\ PlayersWhoCanAct(h) = PlayersWhoCanAct(r)
        /\ Fair(r) => Fair(h)
    BY <1>6, SameBetsFair
  <1>8. Seated(r) = Seated(g)
    BY <1>4 DEF Seated
  <1>9. PlayersInHand(r) = PlayersInHand(g)
    BY <1>4, <1>8 DEF PlayersInHand
  <1>10. PlayersWhoCanAct(r) = PlayersWhoCanAct(g)
    BY <1>4, <1>8 DEF PlayersWhoCanAct, canAct
  <1>11. ASSUME Fair(g), Closed(g) PROVE Fair(r)
    <2>1. PlayersWhoCanAct(g) \subseteq PlayersInHand(g)
          /\ PlayersInHand(g) \subseteq Players
      BY SeatFacts DEF PlayersWhoCanAct, PlayersInHand, canAct
    <2>2. Matched(r)
      BY <1>4, <1>10, <2>1 DEF Matched
    <2>3. ASSUME NEW p \in PlayersWhoCanAct(g), NEW q \in PlayersInHand(g)
          PROVE  PaidBefore(r, p) >= PaidBefore(r, q)
      <3>1. /\ g.totalBetThisHand[p] \in Nat /\ g.totalBetThisHand[q] \in Nat
            /\ g.currentBet[p] \in Nat /\ g.currentBet[q] \in Nat
        BY <1>2, <2>1 DEF Table
      <3>2. g.currentBet[p] = getCurrentBet(g) /\ g.currentBet[q] <= getCurrentBet(g)
        BY <1>11, CurrentBetFacts DEF Fair, Matched, Closed
      <3>3. g.totalBetThisHand[p] - g.currentBet[p] >= g.totalBetThisHand[q] - g.currentBet[q]
        BY <1>11 DEF Fair, Even, PaidBefore
      <3>4. /\ PaidBefore(r, p) = g.totalBetThisHand[p] - 0
            /\ PaidBefore(r, q) = g.totalBetThisHand[q] - 0
        BY <1>4, <2>1 DEF PaidBefore
      <3> QED BY <3>1, <3>2, <3>3, <3>4
    <2>4. Even(r)
      BY <1>9, <1>10, <2>3 DEF Even
    <2> QED BY <2>2, <2>4 DEF Fair
  <1>12. /\ SameMoney(g, h) /\ h.isFolded = g.isFolded /\ h.isAllIn = g.isAllIn
         /\ \A p \in Players : h.currentBet[p] = 0 /\ ~h.hasActed[p]
    BY <1>4, <1>6 DEF SameBets, SameMoney
  <1> QED BY <1>4, <1>6, <1>7, <1>9, <1>10, <1>11, <1>12 DEF h

-----------------------------------------------------------------------------
(* Chips put in *)

(* p has moved a chips from his stack to his two counters. *)
PaidIn(g, h, p, a) ==
  /\ Staked(g, h, p, a)
  /\ h.hasActed = g.hasActed /\ h.pots = g.pots
  /\ h.currentPhase = g.currentPhase
  /\ h.gameRunning = g.gameRunning /\ h.thrown = g.thrown
  /\ h.minimumRaise = g.minimumRaise
  /\ h.currentPlayerToAct = g.currentPlayerToAct
  /\ h.currentBet[p] = g.currentBet[p] + a
  /\ h.totalBetThisHand[p] = g.totalBetThisHand[p] + a
  /\ h.chipStack[p] = g.chipStack[p] - a
  /\ h.isAllIn[p] = (g.isAllIn[p] \/ g.chipStack[p] = a)
  /\ \A q \in Players \ {p} : /\ h.currentBet[q] = g.currentBet[q]
                              /\ h.totalBetThisHand[q] = g.totalBetThisHand[q]
                              /\ h.chipStack[q] = g.chipStack[q]
                              /\ h.isAllIn[q] = g.isAllIn[q]

(* PutIn() moves chips from the stack of p to his two counters; a table    *)
(* stays well-formed, and what p paid before stays.                        *)
LEMMA PutInFacts ==
  ASSUME NEW g, TableOK(g), NEW p \in Players, NEW amount \in Nat
  PROVE  LET h == PutIn(g, p, amount)
             a == IF amount > g.chipStack[p] THEN g.chipStack[p] ELSE amount
         IN  TableOK(h) /\ PaidIn(g, h, p, a)
  <1> DEFINE a == IF amount > g.chipStack[p] THEN g.chipStack[p] ELSE amount
             c == [g.chipStack EXCEPT ![p] = @ - a]
             b == [g.currentBet EXCEPT ![p] = @ + a]
             t == [g.totalBetThisHand EXCEPT ![p] = @ + a]
             l == [g.isAllIn EXCEPT ![p] = @ \/ g.chipStack[p] = a]
             h == PutIn(g, p, amount)
  <1>1. /\ g \in Table
        /\ g.chipStack \in [Players -> Nat] /\ g.currentBet \in [Players -> Nat]
        /\ g.totalBetThisHand \in [Players -> Nat]
        /\ g.isAllIn \in [Players -> BOOLEAN]
    BY DEF TableOK, Table
  <1>2. a \in Nat /\ a <= g.chipStack[p] /\ g.chipStack[p] - a \in Nat
    BY <1>1
  <1>3. h = [g EXCEPT !.chipStack = c, !.currentBet = b,
                      !.totalBetThisHand = t, !.isAllIn = l]
    BY DEF PutIn
  <1> HIDE DEF a
  <1>4. /\ c \in [Players -> Nat] /\ b \in [Players -> Nat]
        /\ t \in [Players -> Nat] /\ l \in [Players -> BOOLEAN]
    BY <1>1, <1>2
  <1>5. /\ b[p] = g.currentBet[p] + a
        /\ t[p] = g.totalBetThisHand[p] + a
        /\ c[p] = g.chipStack[p] - a
        /\ l[p] = (g.isAllIn[p] \/ g.chipStack[p] = a)
        /\ \A q \in Players \ {p} : /\ b[q] = g.currentBet[q]
                                    /\ t[q] = g.totalBetThisHand[q]
                                    /\ c[q] = g.chipStack[q]
                                    /\ l[q] = g.isAllIn[q]
    BY <1>1
  <1> HIDE DEF c, b, t, l, h
  <1>6. /\ h \in Table
        /\ h.players = g.players /\ h.isFolded = g.isFolded
        /\ h.hasActed = g.hasActed /\ h.pots = g.pots
        /\ h.currentPhase = g.currentPhase
        /\ h.gameRunning = g.gameRunning /\ h.thrown = g.thrown
        /\ h.minimumRaise = g.minimumRaise
        /\ h.chipStack = c /\ h.currentBet = b /\ h.totalBetThisHand = t
        /\ h.isAllIn = l /\ h.currentPlayerToAct = g.currentPlayerToAct
    BY <1>1, <1>3, <1>4 DEF Table
  <1>7. TableOK(h)
    BY <1>6 DEF TableOK
  <1>8. Staked(g, h, p, a)
    BY <1>6 DEF Staked, c, b, t, l
  <1>9. PaidIn(g, h, p, a)
    BY <1>5, <1>6, <1>8 DEF PaidIn
  <1> QED BY <1>7, <1>9 DEF h, a

(* Replacing the pots by pots keeps a table well-formed. *)
LEMMA PotsUpdate ==
  ASSUME NEW g, TableOK(g), NEW pots \in PotsOver(Players)
  PROVE  /\ TableOK([g EXCEPT !.pots = pots])
         /\ SameBets(g, [g EXCEPT !.pots = pots])
         /\ [g EXCEPT !.pots = pots].currentPhase = g.currentPhase
         /\ [g EXCEPT !.pots = pots].gameRunning = g.gameRunning
         /\ [g EXCEPT !.pots = pots].thrown = g.thrown
         /\ [g EXCEPT !.pots = pots].pots = pots
         /\ [g EXCEPT !.pots = pots].currentPlayerToAct = g.currentPlayerToAct
  <1>1. g \in Table /\ pots \in SUBSET PotRecord /\ pots # {} /\ IsFiniteSet(pots)
    BY DEF TableOK, PotsOver, PotRecord
  <1>2. [g EXCEPT !.pots = pots] \in Table
    BY <1>1 DEF Table
  <1> QED BY <1>1, <1>2 DEF TableOK, SameBets, Table

(* The pots of a well-typed table satisfy the lemmas on pots. *)
LEMMA PotsOfTable ==
  ASSUME NEW g, TableOK(g)
  PROVE  g.pots \in PotsOver(Players)
  BY DEF TableOK, Table, PotsOver, PotRecord

(* createSidePots() of a table changes only its pots. *)
LEMMA CreateSidePotsFacts ==
  ASSUME NEW g, TableOK(g)
  PROVE  LET h == createSidePotsOf(g)
         IN  /\ TableOK(h) /\ SameBets(g, h)
             /\ h.currentPhase = g.currentPhase
             /\ h.gameRunning = g.gameRunning /\ h.thrown = g.thrown
             /\ h.currentPlayerToAct = g.currentPlayerToAct
             /\ h.pots = createSidePots(g.pots, Seated(g), g.totalBetThisHand,
                                       g.isFolded)
  <1> DEFINE new == createSidePots(g.pots, Seated(g), g.totalBetThisHand, g.isFolded)
  <1>1. g.totalBetThisHand \in [Players -> Nat]
    BY DEF TableOK, Table
  <1>2. new \in PotsOver(Players)
    BY <1>1, PotsOfTable, SeatFacts, PlayersAssumption, CreateSidePotsType
  <1>3. createSidePotsOf(g) = [g EXCEPT !.pots = new]
    BY DEF createSidePotsOf
  <1> HIDE DEF new
  <1> QED BY <1>2, <1>3, PotsUpdate DEF new

(* A blind. *)
LEMMA ProcessBlindFacts ==
  ASSUME NEW g, TableOK(g), NEW p \in Players, NEW amount \in Nat
  PROVE  LET h == processBlind(g, p, amount)
         IN  /\ TableOK(h)
             /\ SameBets(PutIn(g, p, amount), h)
             /\ h.currentPhase = g.currentPhase
             /\ h.gameRunning = g.gameRunning /\ h.thrown = g.thrown
             /\ h.pots = addBet(g.pots, p, amount)
  <1> DEFINE b == PutIn(g, p, amount)
             new == addBet(b.pots, p, amount)
  <1>1. /\ TableOK(b) /\ b.currentPhase = g.currentPhase
        /\ b.gameRunning = g.gameRunning /\ b.thrown = g.thrown
        /\ b.pots = g.pots
    BY PutInFacts DEF PaidIn
  <1>2. processBlind(g, p, amount) = [b EXCEPT !.pots = new]
    BY DEF processBlind, postBlind
  <1> HIDE DEF b
  <1>3. new \in PotsOver(Players)
    BY <1>1, PotsOfTable, AddBetType
  <1> HIDE DEF new
  <1> QED BY <1>1, <1>2, <1>3, PotsUpdate DEF b, new

(* What a bet does: the chips are moved, and a bet above the highest one   *)
(* makes the others who can act owe an answer.                             *)
AfterBet(g, h, p, amount) ==
  /\ Staked(g, h, p, IF amount > g.chipStack[p] THEN g.chipStack[p] ELSE amount)
  /\ h.pots = addBet(g.pots, p, amount)
  /\ h.currentPlayerToAct = g.currentPlayerToAct
  /\ h.hasActed[p]
  /\ \A q \in PlayersWhoCanAct(h) \ {p} :
       h.hasActed[q] = (g.hasActed[q] /\ h.currentBet[p] <= getCurrentBet(g))

(* A bet, a call or a raise.  The betting invariants are kept when p       *)
(* reaches the highest bet or puts in all he has: if p goes above it, all  *)
(* the others who can act owe an answer; if not, the highest bet stays.    *)
LEMMA ProcessBetFacts ==
  ASSUME NEW g, TableOK(g), NEW p \in PlayersWhoCanAct(g), NEW amount \in Nat
  PROVE  LET h == processBet(g, p, amount)
         IN  /\ TableOK(h)
             /\ h.currentPhase = g.currentPhase
             /\ h.gameRunning = g.gameRunning /\ h.thrown = g.thrown
             /\ (/\ Fair(g)
                 /\ \/ g.currentBet[p] + amount >= getCurrentBet(g)
                    \/ amount >= g.chipStack[p]) => Fair(h)
             /\ AfterBet(g, h, p, amount)
  <1> DEFINE cb == getCurrentBet(g)
             u == PutIn(g, p, amount)
             b == bet(g, p, amount)
             raiseAmount == b.currentBet[p] - cb
             isRaise == b.totalBetThisHand[p] > cb
             reopened == IF raiseAmount > 0
                         THEN {q \in Seated(b) \ {p} : canAct(b, q)} ELSE {}
             pots == addBet(b.pots, p, amount)
             acted == [q \in Players |-> b.hasActed[q] /\ q \notin reopened]
             mr == IF isRaise /\ raiseAmount > b.minimumRaise
                   THEN raiseAmount ELSE b.minimumRaise
             lr == IF isRaise THEN raiseAmount ELSE b.lastRaiseAmount
             h == processBet(g, p, amount)
             a == IF amount > g.chipStack[p] THEN g.chipStack[p] ELSE amount
  <1>1. /\ g \in Table /\ p \in Players /\ p \in PlayersInHand(g)
        /\ g.chipStack \in [Players -> Nat] /\ g.currentBet \in [Players -> Nat]
        /\ g.totalBetThisHand \in [Players -> Nat]
    BY SeatFacts DEF TableOK, Table, PlayersWhoCanAct, PlayersInHand, canAct
  <1>2. cb \in Nat
    BY CurrentBetFacts
  <1>3. /\ TableOK(u) /\ u \in Table
        /\ u.players = g.players /\ u.isFolded = g.isFolded
        /\ u.hasActed = g.hasActed
        /\ u.currentPhase = g.currentPhase
        /\ u.gameRunning = g.gameRunning /\ u.thrown = g.thrown
        /\ u.currentBet[p] = g.currentBet[p] + a
        /\ u.totalBetThisHand[p] = g.totalBetThisHand[p] + a
        /\ u.chipStack[p] = g.chipStack[p] - a
        /\ \A q \in Players \ {p} : /\ u.currentBet[q] = g.currentBet[q]
                                    /\ u.totalBetThisHand[q] = g.totalBetThisHand[q]
                                    /\ u.chipStack[q] = g.chipStack[q]
                                    /\ u.isAllIn[q] = g.isAllIn[q]
        /\ u.isAllIn[p] = (g.isAllIn[p] \/ g.chipStack[p] = a)
        /\ Staked(g, u, p, a) /\ u.pots = g.pots
        /\ u.currentPlayerToAct = g.currentPlayerToAct
    <2>1. TableOK(u) /\ PaidIn(g, u, p, a)
      BY <1>1, PutInFacts
    <2> HIDE DEF u, a
    <2> QED BY <2>1 DEF PaidIn, Staked, TableOK
  <1>4. b = [u EXCEPT !.hasActed = [g.hasActed EXCEPT ![p] = TRUE]]
    BY <1>3 DEF bet
  <1>5. [g.hasActed EXCEPT ![p] = TRUE] \in [Players -> BOOLEAN]
    BY <1>1 DEF Table
  <1> HIDE DEF u, b
  <1>6. /\ b \in Table
        /\ b.players = u.players /\ b.isFolded = u.isFolded
        /\ b.chipStack = u.chipStack /\ b.currentBet = u.currentBet
        /\ b.totalBetThisHand = u.totalBetThisHand /\ b.isAllIn = u.isAllIn
        /\ b.hasActed = [g.hasActed EXCEPT ![p] = TRUE]
        /\ b.currentPhase = u.currentPhase /\ b.pots = u.pots
        /\ b.minimumRaise = u.minimumRaise
        /\ b.gameRunning = u.gameRunning /\ b.thrown = u.thrown
        /\ b.currentPlayerToAct = u.currentPlayerToAct
    BY <1>3, <1>4, <1>5 DEF Table
  <1>7. TableOK(b)
    BY <1>3, <1>6 DEF TableOK
  <1>8. raiseAmount \in Int
    BY <1>1, <1>2, <1>6 DEF Table
  <1>9. h = [b EXCEPT !.pots = pots, !.hasActed = acted,
                      !.minimumRaise = mr, !.lastRaiseAmount = lr]
    BY DEF processBet, b
  <1>10. pots \in SUBSET PotRecord /\ pots # {} /\ IsFiniteSet(pots)
    <2>1. pots \in PotsOver(Players)
      BY <1>1, <1>7, PotsOfTable, AddBetType
    <2> HIDE DEF pots
    <2> QED BY <2>1 DEF PotsOver, PotRecord
  <1>11. acted \in [Players -> BOOLEAN]
    OBVIOUS
  <1> HIDE DEF raiseAmount, isRaise
  <1>12. mr \in Nat /\ mr >= BigBlindAmount /\ lr \in Int
    <2>1. /\ b.minimumRaise \in Nat /\ b.lastRaiseAmount \in Int
          /\ b.minimumRaise >= BigBlindAmount
      BY <1>6, <1>7 DEF Table, TableOK
    <2> QED BY <1>8, <2>1, BlindsAssumption
  <1> HIDE DEF pots, acted, mr, lr, h
  <1>13. /\ h \in Table
         /\ h.players = b.players /\ h.isFolded = b.isFolded
         /\ h.chipStack = b.chipStack /\ h.currentBet = b.currentBet
         /\ h.totalBetThisHand = b.totalBetThisHand /\ h.isAllIn = b.isAllIn
         /\ h.hasActed = acted /\ h.minimumRaise = mr /\ h.pots = pots
         /\ h.currentPhase = b.currentPhase
         /\ h.gameRunning = b.gameRunning /\ h.thrown = b.thrown
         /\ h.currentPlayerToAct = b.currentPlayerToAct
    BY <1>6, <1>9, <1>10, <1>11, <1>12 DEF Table
  <1>14. TableOK(h)
    BY <1>7, <1>10, <1>12, <1>13 DEF TableOK
  <1>15. ASSUME Fair(g), g.currentBet[p] + amount >= cb \/ amount >= g.chipStack[p]
         PROVE  Fair(h)
    <2>1. Seated(h) = Seated(g) /\ Seated(b) = Seated(g) /\ Seated(g) \subseteq Players
      <3>1. Seated(g) \subseteq Players
        BY SeatFacts
      <3> QED BY <1>3, <1>6, <1>13, <3>1 DEF Seated
    <2>2. PlayersInHand(h) = PlayersInHand(g) /\ PlayersInHand(g) \subseteq Players
      BY <1>3, <1>6, <1>13, <2>1 DEF PlayersInHand
    <2>3. a \in Nat /\ a <= g.chipStack[p]
      BY <1>1
    <2>4. ASSUME NEW q \in PlayersWhoCanAct(h)
          PROVE  /\ q \in Players /\ q \in PlayersWhoCanAct(g)
                 /\ q \in PlayersInHand(h) /\ canAct(b, q) /\ q \in Seated(b)
      <3>1. q \in Seated(g) /\ q \in Players /\ canAct(h, q)
        BY <2>1 DEF PlayersWhoCanAct
      <3>2. canAct(b, q) /\ ~g.isFolded[q]
        BY <1>3, <1>6, <1>13, <3>1 DEF canAct
      <3>3. canAct(g, q)
        <4>1. CASE q = p
          BY <4>1 DEF PlayersWhoCanAct
        <4>2. CASE q # p
          BY <1>3, <1>6, <3>1, <3>2, <4>2 DEF canAct
        <4> QED BY <4>1, <4>2
      <3> QED BY <2>1, <2>2, <3>1, <3>2, <3>3 DEF PlayersWhoCanAct, PlayersInHand
    <2>5. ASSUME NEW q \in Players PROVE PaidBefore(h, q) = PaidBefore(g, q)
      <3>1. CASE q = p
        <4>1. /\ h.totalBetThisHand[q] = g.totalBetThisHand[q] + a
              /\ h.currentBet[q] = g.currentBet[q] + a
          BY <1>3, <1>6, <1>13, <3>1
        <4>2. g.totalBetThisHand[q] \in Nat /\ g.currentBet[q] \in Nat
          BY <1>1
        <4> HIDE DEF a
        <4> QED BY <2>3, <4>1, <4>2 DEF PaidBefore
      <3>2. CASE q # p
        BY <1>3, <1>6, <1>13, <3>2 DEF PaidBefore
      <3> QED BY <3>1, <3>2
    <2>6. Even(h)
      BY <1>15, <2>2, <2>4, <2>5 DEF Fair, Even
    <2> DEFINE cbh == getCurrentBet(h)
    <2>7. /\ cbh \in Nat
          /\ \A q \in PlayersInHand(g) : h.currentBet[q] <= cbh
          /\ cbh = 0 \/ \E q \in PlayersInHand(g) : h.currentBet[q] = cbh
      BY <1>14, <2>2, CurrentBetFacts
    <2>8. /\ \A q \in PlayersInHand(g) : g.currentBet[q] <= cb
          /\ cb = 0 \/ \E q \in PlayersInHand(g) : g.currentBet[q] = cb
      BY CurrentBetFacts
    <2>9. /\ h.currentBet[p] = g.currentBet[p] + a
          /\ \A q \in Players \ {p} : h.currentBet[q] = g.currentBet[q]
          /\ g.currentBet[p] \in Nat /\ \A q \in Players : g.currentBet[q] \in Nat
      BY <1>1, <1>3, <1>6, <1>13
    <2>10. raiseAmount = h.currentBet[p] - cb
      BY <1>13 DEF raiseAmount
    <2> HIDE DEF cb, cbh
    <2>11. CASE raiseAmount > 0
      <3>1. h.currentBet[p] > cb
        <4> HIDE DEF a
        <4> QED BY <1>2, <2>3, <2>9, <2>10, <2>11
      <3>2. cbh = h.currentBet[p]
        <4>1. \A q \in PlayersInHand(g) : h.currentBet[q] <= h.currentBet[p]
          <5> HIDE DEF a
          <5> QED BY <1>2, <2>2, <2>3, <2>8, <2>9, <3>1
        <4>2. h.currentBet[p] \in Nat /\ h.currentBet[p] # 0 /\ h.currentBet[p] <= cbh
          <5> HIDE DEF a
          <5> QED BY <1>1, <1>2, <2>3, <2>7, <2>9, <3>1
        <4> QED BY <2>7, <4>1, <4>2
      <3>3. ASSUME NEW q \in PlayersWhoCanAct(h), h.hasActed[q], q # p PROVE FALSE
        <4>1. q \in reopened
          BY <2>4, <2>11, <3>3
        <4> QED BY <1>13, <2>4, <3>3, <4>1 DEF acted
      <3>4. Matched(h)
        BY <3>2, <3>3 DEF Matched, cbh
      <3> QED BY <2>6, <3>4 DEF Fair
    <2>12. CASE ~(raiseAmount > 0)
      <3>1. h.currentBet[p] <= cb /\ h.currentBet[p] >= g.currentBet[p]
        <4> HIDE DEF a
        <4> QED BY <1>2, <2>3, <2>9, <2>10, <2>12
      <3>2. \A q \in PlayersInHand(g) : h.currentBet[q] <= cb
        BY <2>2, <2>8, <2>9, <3>1
      <3>3. cbh = cb
        <4>1. cbh <= cb
          BY <1>2, <2>7, <3>2
        <4>2. cb <= cbh
          <5>1. CASE cb = 0
            BY <2>7, <5>1
          <5>2. CASE cb # 0
            <6>1. PICK q \in PlayersInHand(g) : g.currentBet[q] = cb
              BY <2>8, <5>2
            <6>2. q \in Players
              BY <2>2
            <6>3. h.currentBet[q] = cb
              <7>1. CASE q = p
                <8> HIDE DEF a
                <8> QED BY <1>2, <2>3, <2>9, <3>1, <6>1, <7>1
              <7>2. CASE q # p
                BY <2>9, <6>1, <6>2, <7>2
              <7> QED BY <7>1, <7>2
            <6> QED BY <2>7, <6>3
          <5> QED BY <5>1, <5>2
        <4> QED BY <1>2, <2>7, <4>1, <4>2
      <3>4. ASSUME NEW q \in PlayersWhoCanAct(h), h.hasActed[q]
            PROVE  h.currentBet[q] = cb
        <4>1. CASE q # p
          <5>1. g.hasActed[q]
            BY <1>1, <1>6, <1>13, <2>4, <3>4, <4>1 DEF acted, Table
          <5>2. g.currentBet[q] = cb
            BY <1>15, <2>4, <5>1 DEF Fair, Matched, cb
          <5> QED BY <2>4, <2>9, <4>1, <5>2
        <4>2. CASE q = p
          <5>1. h.chipStack[p] > 0 /\ h.chipStack[p] = g.chipStack[p] - a
            BY <1>3, <1>6, <1>13, <4>2, <3>4 DEF PlayersWhoCanAct, canAct
          <5>2. amount < g.chipStack[p] /\ a = amount
            BY <1>1, <5>1
          <5>3. g.currentBet[p] + amount >= cb
            BY <1>1, <1>15, <5>2
          <5>4. h.currentBet[p] = g.currentBet[p] + amount
            BY <2>9, <5>2
          <5> QED BY <1>2, <2>9, <3>1, <4>2, <5>3, <5>4
        <4> QED BY <4>1, <4>2
      <3>5. Matched(h)
        BY <3>3, <3>4 DEF Matched, cbh
      <3> QED BY <2>6, <3>5 DEF Fair
    <2> QED BY <2>11, <2>12
  <1>16. Staked(g, h, p, a) /\ h.pots = addBet(g.pots, p, amount)
    BY <1>3, <1>6, <1>13 DEF Staked, pots
  <1>17. h.hasActed[p]
    BY <1>1, <1>6, <1>13 DEF acted, Table
  <1>18. ASSUME NEW q \in PlayersWhoCanAct(h) \ {p}
         PROVE  h.hasActed[q] = (g.hasActed[q] /\ h.currentBet[p] <= cb)
    <2>1. q \in Seated(b) /\ q \in Players /\ canAct(b, q)
      <3>1. q \in Seated(h) /\ canAct(h, q)
        BY DEF PlayersWhoCanAct
      <3>2. Seated(h) = Seated(b) /\ (canAct(h, q) <=> canAct(b, q))
        BY <1>13 DEF Seated, canAct
      <3>3. Seated(h) \subseteq Players
        BY <1>14, SeatFacts
      <3> QED BY <3>1, <3>2, <3>3
    <2>2. h.hasActed[q] = (b.hasActed[q] /\ q \notin reopened)
      BY <1>13, <2>1 DEF acted
    <2>3. b.hasActed[q] = g.hasActed[q]
      BY <1>1, <1>6, <2>1 DEF Table
    <2>4. q \in reopened <=> h.currentBet[p] > cb
      <3>1. raiseAmount > 0 <=> h.currentBet[p] > cb
        <4>1. h.currentBet[p] \in Nat
          BY <1>1, <1>13 DEF Table
        <4> QED BY <1>2, <1>13, <4>1 DEF raiseAmount
      <3> QED BY <2>1, <3>1
    <2>5. h.currentBet[p] > cb <=> ~(h.currentBet[p] <= cb)
      <3>1. h.currentBet[p] \in Nat
        BY <1>1, <1>13 DEF Table
      <3> QED BY <1>2, <3>1
    <2>6. h.hasActed[q] \in BOOLEAN /\ g.hasActed[q] \in BOOLEAN
      BY <1>1, <1>13, <2>1 DEF Table
    <2> QED BY <2>2, <2>3, <2>4, <2>5, <2>6
  <1>19. AfterBet(g, h, p, amount)
    BY <1>3, <1>6, <1>13, <1>16, <1>17, <1>18 DEF AfterBet
  <1> QED BY <1>3, <1>6, <1>13, <1>14, <1>15, <1>19 DEF h, cb

-----------------------------------------------------------------------------
(* Players who fold or leave *)

(* The betting invariants survive the loss of players, folded or gone:     *)
(* whoever has acted and can act holds the highest bet himself.            *)
LEMMA FewerPlayersFair ==
  ASSUME NEW g, TableOK(g), NEW h, TableOK(h),
         PlayersInHand(h) \subseteq PlayersInHand(g),
         PlayersWhoCanAct(h) \subseteq PlayersWhoCanAct(g),
         \A q \in PlayersInHand(h) : /\ h.currentBet[q] = g.currentBet[q]
                                     /\ h.totalBetThisHand[q] = g.totalBetThisHand[q],
         \A q \in PlayersWhoCanAct(h) : h.hasActed[q] => g.hasActed[q],
         Fair(g)
  PROVE  Fair(h)
  <1>1. PlayersWhoCanAct(h) \subseteq PlayersInHand(h)
    BY DEF PlayersWhoCanAct, PlayersInHand, canAct
  <1>2. Even(h)
    BY <1>1 DEF Fair, Even, PaidBefore
  <1> DEFINE cg == getCurrentBet(g)
             ch == getCurrentBet(h)
  <1>3. /\ cg \in Nat
        /\ \A q \in PlayersInHand(g) : g.currentBet[q] <= cg
    BY CurrentBetFacts
  <1>4. /\ ch \in Nat
        /\ \A q \in PlayersInHand(h) : h.currentBet[q] <= ch
        /\ ch = 0 \/ \E q \in PlayersInHand(h) : h.currentBet[q] = ch
    BY CurrentBetFacts
  <1>5. ASSUME NEW p \in PlayersWhoCanAct(h), h.hasActed[p]
        PROVE  h.currentBet[p] = ch
    <2>1. g.currentBet[p] = cg /\ h.currentBet[p] = g.currentBet[p]
      BY <1>1, <1>5 DEF Fair, Matched
    <2>2. h.currentBet[p] <= ch
      BY <1>1, <1>4
    <2> HIDE DEF cg, ch
    <2>3. ch <= cg
      BY <1>3, <1>4
    <2> QED BY <1>3, <1>4, <2>1, <2>2, <2>3
  <1>6. Matched(h)
    BY <1>5 DEF Matched
  <1> QED BY <1>2, <1>6 DEF Fair

(* A fold keeps the table well-typed and the betting fair. *)
LEMMA FoldFacts ==
  ASSUME NEW g, TableOK(g), NEW p \in Players
  PROVE  LET h == fold(g, p)
         IN  /\ TableOK(h)
             /\ SameMoney(g, h) /\ h.currentBet = g.currentBet
             /\ h.isFolded = [g.isFolded EXCEPT ![p] = TRUE]
             /\ h.hasActed = [g.hasActed EXCEPT ![p] = TRUE]
             /\ h.isAllIn = g.isAllIn
             /\ h.currentPlayerToAct = g.currentPlayerToAct
             /\ h.currentPhase = g.currentPhase
             /\ h.gameRunning = g.gameRunning /\ h.thrown = g.thrown
             /\ Fair(g) => Fair(h)
  <1> DEFINE h == fold(g, p)
             f == [g.isFolded EXCEPT ![p] = TRUE]
             d == [g.hasActed EXCEPT ![p] = TRUE]
  <1>1. g \in Table /\ g.isFolded \in [Players -> BOOLEAN] /\ g.hasActed \in [Players -> BOOLEAN]
    BY DEF TableOK, Table
  <1>2. h = [g EXCEPT !.isFolded = f, !.hasActed = d]
    BY DEF fold
  <1>3. /\ f \in [Players -> BOOLEAN] /\ d \in [Players -> BOOLEAN]
        /\ f[p] /\ \A q \in Players \ {p} : f[q] = g.isFolded[q] /\ d[q] = g.hasActed[q]
    BY <1>1
  <1> HIDE DEF f, d, h
  <1>4. /\ h \in Table /\ h.players = g.players /\ h.isFolded = f /\ h.hasActed = d
        /\ h.chipStack = g.chipStack /\ h.currentBet = g.currentBet
        /\ h.totalBetThisHand = g.totalBetThisHand /\ h.isAllIn = g.isAllIn
        /\ h.currentPhase = g.currentPhase /\ h.pots = g.pots
        /\ h.minimumRaise = g.minimumRaise
        /\ h.gameRunning = g.gameRunning /\ h.thrown = g.thrown
        /\ h.currentPlayerToAct = g.currentPlayerToAct
    BY <1>1, <1>2, <1>3 DEF Table
  <1>5. TableOK(h)
    BY <1>4 DEF TableOK
  <1>6. Seated(h) = Seated(g)
    BY <1>4 DEF Seated
  <1>7. Seated(g) \subseteq Players
    BY SeatFacts
  <1>8. PlayersInHand(h) \subseteq PlayersInHand(g) \ {p}
    BY <1>3, <1>4, <1>6, <1>7 DEF PlayersInHand
  <1>9. PlayersWhoCanAct(h) \subseteq PlayersWhoCanAct(g) \ {p}
    BY <1>3, <1>4, <1>6, <1>7 DEF PlayersWhoCanAct, canAct
  <1>10. \A q \in PlayersWhoCanAct(h) : q \in Players \ {p}
    BY <1>6, <1>7, <1>9 DEF PlayersWhoCanAct
  <1>11. Fair(g) => Fair(h)
    BY <1>3, <1>4, <1>5, <1>8, <1>9, <1>10, FewerPlayersFair
  <1> QED BY <1>4, <1>5, <1>11 DEF h, f, d, SameMoney

(* A check is accepted from a player who has matched the highest bet. *)
LEMMA CheckFacts ==
  ASSUME NEW g, TableOK(g), NEW p \in PlayersInHand(g), validateCheck(g, p)
  PROVE  LET h == check(g, p)
         IN  /\ TableOK(h)
             /\ SameMoney(g, h) /\ h.currentBet = g.currentBet
             /\ h.isFolded = g.isFolded /\ h.isAllIn = g.isAllIn
             /\ h.hasActed = [g.hasActed EXCEPT ![p] = TRUE]
             /\ h.currentPlayerToAct = g.currentPlayerToAct
             /\ h.currentPhase = g.currentPhase
             /\ h.gameRunning = g.gameRunning /\ h.thrown = g.thrown
             /\ Fair(g) => Fair(h)
  <1> DEFINE h == check(g, p)
             d == [g.hasActed EXCEPT ![p] = TRUE]
  <1>1. /\ g \in Table /\ g.hasActed \in [Players -> BOOLEAN]
        /\ g.currentBet \in [Players -> Nat]
    BY DEF TableOK, Table
  <1>2. h = [g EXCEPT !.hasActed = d]
    BY DEF check
  <1>3. /\ d \in [Players -> BOOLEAN]
        /\ \A q \in Players \ {p} : d[q] = g.hasActed[q]
    BY <1>1
  <1> HIDE DEF d, h
  <1>4. /\ h \in Table /\ h.players = g.players /\ h.isFolded = g.isFolded
        /\ h.chipStack = g.chipStack /\ h.currentBet = g.currentBet
        /\ h.totalBetThisHand = g.totalBetThisHand /\ h.isAllIn = g.isAllIn
        /\ h.currentPhase = g.currentPhase /\ h.pots = g.pots
        /\ h.minimumRaise = g.minimumRaise /\ h.hasActed = d
        /\ h.gameRunning = g.gameRunning /\ h.thrown = g.thrown
        /\ h.currentPlayerToAct = g.currentPlayerToAct
    BY <1>1, <1>2, <1>3 DEF Table
  <1>5. TableOK(h)
    BY <1>4 DEF TableOK
  <1>6. Seated(h) = Seated(g)
    BY <1>4 DEF Seated
  <1>7. Seated(g) \subseteq Players
    BY SeatFacts
  <1>8. /\ PlayersInHand(h) = PlayersInHand(g)
        /\ PlayersWhoCanAct(h) = PlayersWhoCanAct(g)
    BY <1>4, <1>6 DEF PlayersInHand, PlayersWhoCanAct, canAct
  <1>9. getCurrentBet(h) = getCurrentBet(g)
    BY <1>4, <1>8 DEF getCurrentBet
  <1>10. g.currentBet[p] = getCurrentBet(g)
    <2>1. /\ g.currentBet[p] <= getCurrentBet(g) /\ getCurrentBet(g) \in Nat
          /\ p \in Players
      BY <1>7, CurrentBetFacts DEF PlayersInHand
    <2>2. getCurrentBet(g) - g.currentBet[p] <= 0
      BY DEF validateCheck
    <2> QED BY <1>1, <2>1, <2>2
  <1>11. ASSUME Fair(g) PROVE Matched(h)
    <2> SUFFICES ASSUME NEW q \in PlayersWhoCanAct(g), d[q]
                 PROVE  g.currentBet[q] = getCurrentBet(g)
      BY <1>4, <1>8, <1>9 DEF Matched
    <2>1. CASE q = p
      BY <1>10, <2>1
    <2>2. CASE q # p
      BY <1>3, <1>7, <1>11, <2>2 DEF Fair, Matched, PlayersWhoCanAct
    <2> QED BY <2>1, <2>2
  <1>12. Fair(g) => Fair(h)
    BY <1>4, <1>8, <1>11 DEF Fair, Even, PaidBefore
  <1> QED BY <1>4, <1>5, <1>12 DEF h, d, SameMoney

(* The players of B have left, with their chips. *)
Left(g, h, B) ==
  \A p \in Players :
    /\ h.chipStack[p] = IF p \in B THEN 0 ELSE g.chipStack[p]
    /\ h.totalBetThisHand[p] = IF p \in B THEN 0 ELSE g.totalBetThisHand[p]

(* removePlayers() empties the seats of B and keeps everybody else's. *)
LEMMA RemovePlayersFacts ==
  ASSUME NEW g, TableOK(g), NEW B
  PROVE  LET h == removePlayers(g, B)
         IN  /\ TableOK(h)
             /\ Seated(h) = Seated(g) \ B /\ h.pots = g.pots
             /\ h.currentPhase = g.currentPhase
             /\ Left(g, h, B)
             /\ h.gameRunning = g.gameRunning /\ h.thrown = g.thrown
             /\ Fair(g) => Fair(h)
  <1> DEFINE h == removePlayers(g, B)
             s == Without(g.players, B)
             cl(f, v) == [p \in Players |-> IF p \in B THEN v ELSE f[p]]
             c == cl(g.chipStack, 0)
             b == cl(g.currentBet, 0)
             t == cl(g.totalBetThisHand, 0)
             d == cl(g.hasActed, FALSE)
             o == cl(g.isFolded, FALSE)
             l == cl(g.isAllIn, FALSE)
  <1>1. /\ g \in Table /\ g.players \in Seq(Players)
        /\ g.hasActed \in [Players -> BOOLEAN] /\ g.isFolded \in [Players -> BOOLEAN]
        /\ g.isAllIn \in [Players -> BOOLEAN] /\ g.chipStack \in [Players -> Nat]
        /\ g.currentBet \in [Players -> Nat] /\ g.totalBetThisHand \in [Players -> Nat]
    BY DEF TableOK, Table
  <1>2. h = [g EXCEPT !.players = s, !.chipStack = c, !.currentBet = b,
                      !.totalBetThisHand = t, !.hasActed = d, !.isFolded = o,
                      !.isAllIn = l]
    BY DEF removePlayers
  <1>3. /\ s \in Seq(Players)
        /\ \A i, j \in DOMAIN s : s[i] = s[j] => i = j
        /\ {s[i] : i \in DOMAIN s} = {g.players[i] : i \in DOMAIN g.players} \ B
    <2>1. \A i, j \in DOMAIN g.players : g.players[i] = g.players[j] => i = j
      BY DEF TableOK
    <2> DEFINE gp == g.players
    <2>2. gp \in Seq(Players) /\ \A i, j \in DOMAIN gp : gp[i] = gp[j] => i = j
      BY <1>1, <2>1
    <2> HIDE DEF gp
    <2>3. /\ Without(gp, B) \in Seq(Players)
          /\ \A i, j \in DOMAIN Without(gp, B) :
               Without(gp, B)[i] = Without(gp, B)[j] => i = j
          /\ {Without(gp, B)[i] : i \in DOMAIN Without(gp, B)}
               = {gp[i] : i \in DOMAIN gp} \ B
      BY <2>2, WithoutSeats
    <2> QED BY <2>3 DEF gp
  <1>4. /\ c \in [Players -> Nat] /\ b \in [Players -> Nat] /\ t \in [Players -> Nat]
        /\ d \in [Players -> BOOLEAN] /\ o \in [Players -> BOOLEAN]
        /\ l \in [Players -> BOOLEAN]
    BY <1>1
  <1>5. \A q \in Players \ B :
          /\ c[q] = g.chipStack[q] /\ b[q] = g.currentBet[q]
          /\ t[q] = g.totalBetThisHand[q] /\ d[q] = g.hasActed[q]
          /\ o[q] = g.isFolded[q] /\ l[q] = g.isAllIn[q]
    OBVIOUS
  <1> HIDE DEF s, c, b, t, d, o, l, h
  <1>6. /\ h \in Table /\ h.players = s /\ h.chipStack = c /\ h.currentBet = b
        /\ h.totalBetThisHand = t /\ h.hasActed = d /\ h.isFolded = o
        /\ h.isAllIn = l /\ h.pots = g.pots /\ h.minimumRaise = g.minimumRaise
        /\ h.currentPhase = g.currentPhase
        /\ h.gameRunning = g.gameRunning /\ h.thrown = g.thrown
    BY <1>1, <1>2, <1>3, <1>4 DEF Table
  <1>7. TableOK(h)
    BY <1>3, <1>6 DEF TableOK
  <1>8. Seated(h) = Seated(g) \ B
    BY <1>3, <1>6 DEF Seated
  <1>9. Seated(g) \subseteq Players
    BY SeatFacts
  <1>10. /\ PlayersInHand(h) \subseteq PlayersInHand(g) \ B
         /\ PlayersWhoCanAct(h) \subseteq PlayersWhoCanAct(g) \ B
    <2>1. \A q \in Seated(h) : /\ q \in Seated(g) /\ q \in Players \ B
                               /\ h.isFolded[q] = g.isFolded[q]
                               /\ canAct(h, q) = canAct(g, q)
      BY <1>5, <1>6, <1>8, <1>9 DEF canAct
    <2> QED BY <2>1 DEF PlayersInHand, PlayersWhoCanAct
  <1>11. /\ \A q \in PlayersInHand(h) : q \in Players \ B
         /\ \A q \in PlayersWhoCanAct(h) : q \in Players \ B
    BY <1>8, <1>9 DEF PlayersInHand, PlayersWhoCanAct
  <1>12. Fair(g) => Fair(h)
    BY <1>5, <1>6, <1>7, <1>10, <1>11, FewerPlayersFair
  <1>13. Left(g, h, B)
    BY <1>6 DEF Left, c, t
  <1> QED BY <1>6, <1>7, <1>8, <1>12, <1>13 DEF h

-----------------------------------------------------------------------------
(* Accepted actions *)

(* What a player in the hand has to add is never negative. *)
LEMMA CallAmountFacts ==
  ASSUME NEW g, TableOK(g), NEW p \in PlayersInHand(g)
  PROVE  /\ g.currentBet[p] \in Nat /\ getCurrentBet(g) \in Nat
         /\ getCallAmount(g, p) \in Nat
         /\ g.currentBet[p] + getCallAmount(g, p) = getCurrentBet(g)
  <1> DEFINE d == getCurrentBet(g) - g.currentBet[p]
             S == {0, d}
  <1>1. p \in Players
    BY SeatFacts DEF PlayersInHand
  <1>2. g.currentBet[p] \in Nat
    BY <1>1 DEF TableOK, Table
  <1>3. getCurrentBet(g) \in Nat /\ g.currentBet[p] <= getCurrentBet(g)
    BY CurrentBetFacts
  <1>4. d \in Nat
    BY <1>2, <1>3
  <1>5. IsFiniteSet(S)
    <2>1. IsFiniteSet({0})
      BY FS_Singleton, Zenon
    <2>2. IsFiniteSet({0} \cup {d})
      BY <2>1, FS_AddElement
    <2>3. S = {0} \cup {d}
      OBVIOUS
    <2> QED BY <2>2, <2>3
  <1>6. Max(S) \in S /\ \A y \in S : Max(S) >= y
    <2>1. S \in SUBSET Int /\ S # {}
      BY <1>4
    <2> HIDE DEF S
    <2> QED BY <1>5, <2>1, MaxInteger
  <1>7. Max(S) = d
    <2> HIDE DEF d
    <2> QED BY <1>4, <1>6
  <1>8. getCallAmount(g, p) = d
    BY <1>7 DEF getCallAmount
  <1> QED BY <1>2, <1>3, <1>4, <1>8

(* What a bot may send. *)
BotAction == [type : ActionType, amount : Nat]

(* What an accepted action is, before the turn moves on: a fold, a check,   *)
(* or chips, of which nobody puts in more than he has, and nobody fewer    *)
(* than the highest bet asks for unless they are all he has.               *)
Answer(g, h, p, a) ==
  \/ a.type = "fold" /\ h = fold(g, p)
  \/ a.type = "check" /\ validateCheck(g, p) /\ h = check(g, p)
  \/ \E n \in Nat : /\ a.type \notin {"fold", "check"}
                    /\ n <= g.chipStack[p]
                    /\ \/ g.currentBet[p] + n >= getCurrentBet(g)
                       \/ n >= g.chipStack[p]
                    /\ h = processBet(g, p, n)

(* Every accepted action is one of these, by a player who can act. *)
LEMMA AcceptedActions ==
  ASSUME NEW g, TableOK(g), NEW p, NEW a \in BotAction, validateAction(g, p, a)
  PROVE  /\ p \in PlayersWhoCanAct(g) /\ p \in PlayersInHand(g) /\ p \in Players
         /\ p \in Seated(g) /\ g.currentPlayerToAct = p
         /\ \E h : Answer(g, h, p, a) /\ applyAction(g, p, a) = setNextPlayerToAct(h)
  <1>1. /\ p \in PlayersWhoCanAct(g) /\ p \in PlayersInHand(g) /\ p \in Players
        /\ p \in Seated(g) /\ g.currentPlayerToAct = p
    BY SeatFacts DEF validateAction, PlayersWhoCanAct, PlayersInHand, canAct
  <1>2. /\ g.currentBet[p] \in Nat /\ getCurrentBet(g) \in Nat
        /\ getCallAmount(g, p) \in Nat
        /\ g.currentBet[p] + getCallAmount(g, p) = getCurrentBet(g)
    BY <1>1, CallAmountFacts
  <1>3. g.chipStack[p] \in Nat /\ g.minimumRaise \in Nat /\ a.amount \in Nat
    BY <1>1 DEF TableOK, Table, BotAction
  <1>4. g.currentBet[p] <= getCurrentBet(g)
    BY <1>1, CurrentBetFacts
  <1> SUFFICES \E h : Answer(g, h, p, a) /\ applyAction(g, p, a) = setNextPlayerToAct(h)
    BY <1>1
  <1>5. CASE a.type = "fold"
    <2>1. applyAction(g, p, a) = setNextPlayerToAct(fold(g, p))
      BY <1>5 DEF applyAction
    <2>2. Answer(g, fold(g, p), p, a)
      BY <1>5 DEF Answer
    <2> QED BY <2>1, <2>2
  <1>6. CASE a.type = "check"
    <2>1. applyAction(g, p, a) = setNextPlayerToAct(check(g, p)) /\ validateCheck(g, p)
      BY <1>6 DEF applyAction, validateAction
    <2>2. Answer(g, check(g, p), p, a)
      BY <1>6, <2>1 DEF Answer
    <2> QED BY <2>1, <2>2
  <1>7. ASSUME NEW n \in Nat, a.type \notin {"fold", "check"}, n <= g.chipStack[p],
               g.currentBet[p] + n >= getCurrentBet(g) \/ n >= g.chipStack[p],
               applyAction(g, p, a) = setNextPlayerToAct(processBet(g, p, n))
        PROVE  \E h : Answer(g, h, p, a) /\ applyAction(g, p, a) = setNextPlayerToAct(h)
    <2>1. Answer(g, processBet(g, p, n), p, a)
      BY <1>7 DEF Answer
    <2> QED BY <1>7, <2>1
  <1>8. CASE a.type = "call"
    <2> DEFINE n == getCallAmount(g, p)
    <2>1. getCurrentBet(g) - g.currentBet[p] <= g.chipStack[p]
      BY <1>8 DEF validateAction, validateCall
    <2>2. n \in Nat /\ n <= g.chipStack[p] /\ g.currentBet[p] + n >= getCurrentBet(g)
      BY <1>2, <1>3, <2>1
    <2>3. applyAction(g, p, a) = setNextPlayerToAct(processBet(g, p, n))
      BY <1>8 DEF applyAction
    <2> HIDE DEF n
    <2> QED BY <1>7, <1>8, <2>2, <2>3
  <1>9. CASE a.type = "bet"
    <2> DEFINE n == a.amount
    <2>1. validateBet(g, p, a.amount)
      BY <1>9 DEF validateAction
    <2>2. n \in Nat /\ n <= g.chipStack[p] /\ g.currentBet[p] + n >= getCurrentBet(g)
      BY <1>2, <1>3, <2>1 DEF validateBet
    <2>3. applyAction(g, p, a) = setNextPlayerToAct(processBet(g, p, n))
      BY <1>9 DEF applyAction
    <2> HIDE DEF n
    <2> QED BY <1>7, <1>9, <2>2, <2>3
  <1>10. CASE a.type = "raise"
    <2> DEFINE n == a.amount - g.currentBet[p]
    <2>1. validateRaise(g, p, a.amount)
      BY <1>10 DEF validateAction
    <2>2. /\ \/ a.amount >= getCurrentBet(g) + g.minimumRaise
             \/ a.amount >= g.chipStack[p] + g.currentBet[p]
          /\ a.amount <= g.chipStack[p] + g.currentBet[p]
      BY <1>2, <1>3, <2>1 DEF validateRaise, MaxRaise
    <2>3. /\ n \in Nat /\ n <= g.chipStack[p]
          /\ g.currentBet[p] + n >= getCurrentBet(g) \/ n >= g.chipStack[p]
      BY <1>2, <1>3, <1>4, <2>2
    <2>4. applyAction(g, p, a) = setNextPlayerToAct(processBet(g, p, n))
      BY <1>10 DEF applyAction
    <2> HIDE DEF n
    <2> QED BY <1>7, <1>10, <2>3, <2>4
  <1>11. CASE a.type = "allin"
    <2> DEFINE n == g.chipStack[p]
    <2>1. n \in Nat /\ n <= g.chipStack[p] /\ n >= g.chipStack[p]
      BY <1>3
    <2>2. applyAction(g, p, a) = setNextPlayerToAct(processBet(g, p, n))
      BY <1>11 DEF applyAction
    <2> HIDE DEF n
    <2> QED BY <1>7, <1>11, <2>1, <2>2
  <1> QED BY <1>5, <1>6, <1>8, <1>9, <1>10, <1>11 DEF BotAction, ActionType

(* An accepted action keeps the table well-formed and the betting          *)
(* invariants: the validator lets nobody stay below the highest bet with   *)
(* chips behind.                                                           *)
LEMMA ApplyActionFacts ==
  ASSUME NEW g, TableOK(g), NEW p, NEW a \in BotAction, validateAction(g, p, a)
  PROVE  LET h == applyAction(g, p, a)
         IN  /\ TableOK(h)
             /\ h.currentPhase = g.currentPhase
             /\ h.gameRunning = g.gameRunning /\ h.thrown = g.thrown
             /\ Fair(g) => Fair(h)
             /\ Turn(h)
  <1> DEFINE Kept(h) == /\ TableOK(h)
                        /\ h.currentPhase = g.currentPhase
                        /\ h.gameRunning = g.gameRunning /\ h.thrown = g.thrown
                        /\ Fair(g) => Fair(h)
  <1>1. p \in PlayersWhoCanAct(g) /\ p \in PlayersInHand(g) /\ p \in Players
    BY AcceptedActions
  <1>2. PICK h : Answer(g, h, p, a) /\ applyAction(g, p, a) = setNextPlayerToAct(h)
    BY AcceptedActions
  <1>3. Kept(h)
    <2>1. CASE h = fold(g, p)
      BY <1>1, <2>1, FoldFacts
    <2>2. CASE validateCheck(g, p) /\ h = check(g, p)
      BY <1>1, <2>2, CheckFacts
    <2>3. ASSUME NEW n \in Nat, h = processBet(g, p, n),
                 g.currentBet[p] + n >= getCurrentBet(g) \/ n >= g.chipStack[p]
          PROVE  Kept(h)
      BY <1>1, <2>3, ProcessBetFacts
    <2> HIDE DEF Kept
    <2> QED BY <1>2, <2>1, <2>2, <2>3 DEF Answer
  <1> DEFINE n == setNextPlayerToAct(h)
  <1>4. /\ TableOK(n) /\ SameBets(h, n) /\ n.currentPhase = h.currentPhase
        /\ n.gameRunning = h.gameRunning /\ n.thrown = h.thrown /\ Turn(n)
    BY <1>3, SetNextFacts
  <1>5. Fair(h) => Fair(n)
    BY <1>4, SameBetsFair
  <1> HIDE DEF n
  <1> QED BY <1>2, <1>3, <1>4, <1>5 DEF n

(* Bots send actions. *)
LEMMA BotActionsType ==
  ASSUME NEW g, TableOK(g), NEW p \in Players
  PROVE  BotActions(g, p) \subseteq BotAction
  <1>1. /\ g.chipStack[p] \in Nat /\ g.currentBet[p] \in Nat
        /\ g.minimumRaise \in Nat /\ getCurrentBet(g) \in Nat
        /\ BigBlindAmount \in Nat
    BY BlindsAssumption, CurrentBetFacts DEF TableOK, Table
  <1>2. MaxRaise(g, p) \in Nat
    BY <1>1 DEF MaxRaise
  <1> DEFINE S == {getCurrentBet(g) + g.minimumRaise, MaxRaise(g, p)}
  <1>3. Min(S) \in Nat
    <2>1. S \in SUBSET Nat /\ S # {}
      BY <1>1, <1>2
    <2> HIDE DEF S
    <2> QED BY <2>1, MinNatural
  <1>4. \A t \in ActionType, n \in Nat : Act(t, n) \in BotAction
    BY DEF Act, BotAction
  <1>5. getPossibleActions(g, p) \subseteq BotAction
    <2> DEFINE N == {0} \cup (BigBlindAmount..g.chipStack[p])
                          \cup (Min(S)..MaxRaise(g, p))
    <2>1. N \subseteq Nat
      BY <1>1, <1>2, <1>3
    <2>2. \A a \in getPossibleActions(g, p) :
            \E t \in ActionType, n \in N : a = Act(t, n)
      <3> DEFINE A(t, M) == {Act(t, n) : n \in M}
      <3>1. \A a \in getPossibleActions(g, p) :
              \/ a \in A("fold", {0}) \/ a \in A("check", {0})
              \/ a \in A("call", {0}) \/ a \in A("allin", {0})
              \/ a \in A("bet", BigBlindAmount..g.chipStack[p])
              \/ a \in A("raise", Min(S)..MaxRaise(g, p))
        BY Zenon DEF getPossibleActions
      <3> QED BY <3>1 DEF ActionType
    <2> HIDE DEF N
    <2> QED BY <1>4, <2>1, <2>2
  <1>6. 0..MaxRaise(g, p) \subseteq Nat
    BY <1>2
  <1> QED BY <1>4, <1>5, <1>6 DEF BotActions, ActionType

-----------------------------------------------------------------------------
(* Fair betting *)

(* The inductive invariant, of a table. *)
Good(g) ==
  /\ TableOK(g)
  /\ g.currentPhase = "HandComplete" => ~g.gameRunning
  /\ g.gameRunning => Fair(g)

IInv == Good(game) /\ bankroll \in Int

(* It says what the three properties say. *)
LEMMA IInvImplies ==
  IInv => TypeOK /\ BetsMatched /\ EvenStakes
  BY DEF IInv, Good, TableOK, TypeOK, Fair, Matched, Even, BetsMatched, EvenStakes

-----------------------------------------------------------------------------
(* The start of a hand *)

(* Nobody has acted or paid on an earlier street. *)
Fresh(g) == \A p \in Players : ~g.hasActed[p] /\ PaidBefore(g, p) = 0

(* Before anybody has acted in a hand the betting is fair. *)
LEMMA FreshFair ==
  ASSUME NEW g, TableOK(g), Fresh(g)
  PROVE  Fair(g)
  <1>1. PlayersWhoCanAct(g) \subseteq Players /\ PlayersInHand(g) \subseteq Players
    BY SeatFacts DEF PlayersWhoCanAct, PlayersInHand
  <1> QED BY <1>1 DEF Fair, Matched, Even, Fresh

(* n is the table g at the start of a hand. *)
NewHand(g, n) ==
  /\ n.players = g.players /\ n.chipStack = g.chipStack /\ n.pots = resetPots
  /\ \A p \in Players : /\ n.totalBetThisHand[p] = 0 /\ n.currentBet[p] = 0
                        /\ ~n.hasActed[p] /\ ~n.isFolded[p] /\ ~n.isAllIn[p]

(* startNewHand() resets every counter of bets. *)
LEMMA StartNewHandFacts ==
  ASSUME NEW g, TableOK(g), SeatCount(g) # 0
  PROVE  LET h == startNewHand(g)
         IN  /\ TableOK(h) /\ Fresh(h)
             /\ h.currentPhase = "PreFlop" /\ h.players = g.players
             /\ h.gameRunning = g.gameRunning /\ h.thrown = g.thrown
             /\ NewHand(g, h)
  <1> DEFINE z == [p \in Players |-> 0]
             b == [p \in Players |-> FALSE]
             q == [resetForNewHand(g) EXCEPT !.currentPhase = "PreFlop",
                                             !.minimumRaise = BigBlindAmount,
                                             !.pots = resetPots]
             d == (q.dealerPosition + 1) % SeatCount(q)
             h == startNewHand(g)
  <1>1. g \in Table
    BY DEF TableOK
  <1>2. z \in [Players -> Nat] /\ b \in [Players -> BOOLEAN]
    OBVIOUS
  <1>3. resetForNewHand(g) = [g EXCEPT !.hasActed = b, !.currentBet = z,
                                       !.isFolded = b, !.isAllIn = b,
                                       !.totalBetThisHand = z]
    BY <1>1 DEF resetForNewHand, resetForNewRound, Table
  <1> HIDE DEF z, b
  <1>4. resetForNewHand(g) \in Table
    <2> DEFINE g1 == [g EXCEPT !.hasActed = b, !.currentBet = z]
               g2 == [g1 EXCEPT !.isFolded = b, !.isAllIn = b]
    <2>1. g1 \in Table
      BY <1>1, <1>2 DEF Table
    <2> HIDE DEF g1
    <2>2. g2 \in Table
      BY <1>2, <2>1 DEF Table
    <2>3. resetForNewHand(g) = [g2 EXCEPT !.totalBetThisHand = z]
      BY <1>1, <1>3 DEF Table, g1
    <2> HIDE DEF g2
    <2> QED BY <1>2, <2>2, <2>3 DEF Table
  <1>5. /\ resetPots \in SUBSET PotRecord /\ resetPots # {} /\ IsFiniteSet(resetPots)
        /\ BigBlindAmount \in Nat /\ "PreFlop" \in GamePhase
    BY ResetPotsType, BlindsAssumption DEF PotsOver, PotRecord, GamePhase, Betting
  <1>6. q \in Table
    BY <1>4, <1>5 DEF Table
  <1>7. /\ q.players = g.players /\ q.hasActed = b /\ q.currentBet = z
        /\ q.totalBetThisHand = z /\ q.currentPhase = "PreFlop"
        /\ q.minimumRaise = BigBlindAmount /\ q.pots = resetPots
        /\ q.gameRunning = g.gameRunning /\ q.thrown = g.thrown
        /\ q.chipStack = g.chipStack /\ q.isFolded = b /\ q.isAllIn = b
    BY <1>1, <1>3, <1>4 DEF Table
  <1>8. h = [q EXCEPT !.dealerPosition = d]
    BY DEF startNewHand, moveDealer
  <1>9. d \in Nat
    <2>1. SeatCount(q) \in Nat \ {0}
      BY <1>7, SeatFacts DEF SeatCount
    <2>2. q.dealerPosition \in Nat
      BY <1>6 DEF Table
    <2> QED BY <2>1, <2>2
  <1> HIDE DEF q, d, h
  <1>10. /\ h \in Table /\ h.players = q.players /\ h.hasActed = q.hasActed
         /\ h.currentBet = q.currentBet /\ h.totalBetThisHand = q.totalBetThisHand
         /\ h.currentPhase = q.currentPhase /\ h.minimumRaise = q.minimumRaise
         /\ h.pots = q.pots /\ h.gameRunning = q.gameRunning /\ h.thrown = q.thrown
         /\ h.chipStack = q.chipStack /\ h.isFolded = q.isFolded
         /\ h.isAllIn = q.isAllIn
    BY <1>6, <1>8, <1>9 DEF Table
  <1>11. TableOK(h)
    <2>1. BigBlindAmount >= BigBlindAmount
      BY <1>5
    <2> QED BY <1>5, <1>7, <1>10, <2>1 DEF TableOK
  <1>12. Fresh(h)
    BY <1>7, <1>10 DEF Fresh, PaidBefore, z, b
  <1>13. NewHand(g, h)
    BY <1>7, <1>10 DEF NewHand, z, b
  <1> QED BY <1>7, <1>10, <1>11, <1>12, <1>13 DEF h

(* Neighbours have different seats. *)
LEMMA NextSeatDiffers ==
  ASSUME NEW n \in Nat, n >= 2, NEW k \in Nat
  PROVE  k % n # (k + 1) % n
  <1> DEFINE q == k \div n
             r == k % n
             q2 == (k + 1) \div n
             r2 == (k + 1) % n
  <1>1. /\ q \in Int /\ r \in Int /\ k = n * q + r
        /\ q2 \in Int /\ r2 \in Int /\ k + 1 = n * q2 + r2
    OBVIOUS
  <1> HIDE DEF q, r, q2, r2
  <1>2. SUFFICES ASSUME r = r2 PROVE FALSE
    BY DEF r, r2
  <1>3. n * (q2 - q) = 1
    BY <1>1, <1>2
  <1>4. CASE q2 - q >= 1
    <2>1. n * (q2 - q) >= n
      BY <1>1, <1>4
    <2> QED BY <1>3, <2>1
  <1>5. CASE q2 - q <= 0
    <2>1. n * (q2 - q) <= 0
      BY <1>1, <1>5
    <2> QED BY <1>3, <2>1
  <1> QED BY <1>1, <1>4, <1>5

(* The blinds are two seats of the table. *)
LEMMA BlindSeats ==
  ASSUME NEW g, TableOK(g), SeatCount(g) >= 2
  PROVE  LET sb == PlayerAt(g, smallBlindPosition(g))
             bb == PlayerAt(g, bigBlindPosition(g))
         IN  sb \in Seated(g) /\ bb \in Seated(g) /\ sb # bb
  <1> DEFINE n == SeatCount(g)
             i == smallBlindPosition(g)
             j == bigBlindPosition(g)
             d == g.dealerPosition
  <1>1. n \in Nat /\ n >= 2 /\ d \in Nat
    BY SeatFacts DEF TableOK, Table
  <1>2. i \in 0..(n - 1) /\ j \in 0..(n - 1)
    BY <1>1 DEF smallBlindPosition, bigBlindPosition
  <1>3. i # j
    <2>1. CASE n = 2
      <3>1. i = d % n /\ j = (d + 1) % n
        <4>1. d + 0 = d
          BY <1>1
        <4> QED BY <2>1, <4>1 DEF smallBlindPosition, bigBlindPosition
      <3> HIDE DEF i, j, n, d
      <3> QED BY <1>1, <3>1, NextSeatDiffers
    <2>2. CASE n # 2
      <3>1. i = (d + 1) % n /\ j = (d + 2) % n
        BY <2>2 DEF smallBlindPosition, bigBlindPosition
      <3>2. d + 2 = (d + 1) + 1 /\ d + 1 \in Nat
        BY <1>1
      <3> HIDE DEF i, j, n, d
      <3> QED BY <1>1, <3>1, <3>2, NextSeatDiffers
    <2> QED BY <2>1, <2>2
  <1>4. PlayerAt(g, i) \in Seated(g) /\ PlayerAt(g, j) \in Seated(g)
    BY <1>2, SeatFacts
  <1>5. PlayerAt(g, i) # PlayerAt(g, j)
    <2>1. g.players \in Seq(Players) /\ DOMAIN g.players = 1..n
      BY DEF TableOK, Table, SeatCount
    <2> HIDE DEF i, j, n
    <2>2. i + 1 \in DOMAIN g.players /\ j + 1 \in DOMAIN g.players /\ i + 1 # j + 1
      BY <1>1, <1>2, <1>3, <2>1
    <2> QED BY <2>2 DEF TableOK, PlayerAt
  <1> QED BY <1>4, <1>5

(* The table h is g after p has posted the blind, or all he has. *)
Posted(g, h, p, blind, x) ==
  /\ TableOK(h) /\ Staked(g, h, p, x) /\ h.pots = addBet(g.pots, p, x)
  /\ h.hasActed = g.hasActed /\ h.currentPhase = g.currentPhase
  /\ h.gameRunning = g.gameRunning /\ h.thrown = g.thrown
  /\ x \in Nat /\ x <= blind /\ x <= g.chipStack[p]
  /\ x = blind \/ x = g.chipStack[p]

(* Blinds. *)
LEMMA PostedBlind ==
  ASSUME NEW g, TableOK(g), NEW p \in Players, NEW blind \in Nat
  PROVE  LET x == Min({blind, g.chipStack[p]})
         IN  Posted(g, processBlind(g, p, x), p, blind, x)
  <1> DEFINE c == g.chipStack[p]
             S == {blind, c}
             x == Min(S)
             u == PutIn(g, p, x)
             h == processBlind(g, p, x)
  <1>1. c \in Nat
    BY DEF TableOK, Table
  <1>2. x \in S /\ \A y \in S : x <= y
    <2>1. S \in SUBSET Nat /\ S # {}
      BY <1>1
    <2> HIDE DEF S
    <2> QED BY <2>1, MinNatural
  <1> HIDE DEF x
  <1>3. x \in Nat /\ x <= blind /\ x <= c /\ (x = blind \/ x = c)
    BY <1>1, <1>2
  <1>4. /\ TableOK(h) /\ SameBets(u, h) /\ h.currentPhase = g.currentPhase
        /\ h.gameRunning = g.gameRunning /\ h.thrown = g.thrown
        /\ h.pots = addBet(g.pots, p, x)
    BY <1>3, ProcessBlindFacts
  <1>5. u.hasActed = g.hasActed /\ Staked(g, u, p, IF x > c THEN c ELSE x)
    BY <1>3, PutInFacts DEF PaidIn
  <1>6. Staked(g, u, p, x)
    <2>1. ~(x > c)
      BY <1>1, <1>3
    <2> QED BY <1>5, <2>1
  <1> HIDE DEF u, h
  <1>7. Staked(g, h, p, x) /\ h.hasActed = g.hasActed
    BY <1>4, <1>5, <1>6 DEF Staked, SameBets
  <1> QED BY <1>3, <1>4, <1>7 DEF Posted, x, h

(* The table h is t with the turn given to somebody. *)
Dealt(t, h) ==
  /\ TableOK(h) /\ SameBets(t, h) /\ SameMoney(t, h) /\ Turn(h)
  /\ h.currentPhase = t.currentPhase
  /\ h.gameRunning = t.gameRunning /\ h.thrown = t.thrown

(* startHand() resets the table, posts two blinds and gives the turn.      *)
LEMMA StartedHandSteps ==
  ASSUME NEW g, TableOK(g), SeatCount(g) >= 2
  PROVE  \E n, s, t, x, y : \E sb, bb \in Seated(g) :
           /\ TableOK(n) /\ Fresh(n) /\ NewHand(g, n) /\ n.currentPhase = "PreFlop"
           /\ n.gameRunning /\ ~n.thrown
           /\ sb # bb
           /\ Posted(n, s, sb, SmallBlindAmount, x)
           /\ Posted(s, t, bb, BigBlindAmount, y)
           /\ Dealt(t, StartedHand(g))
  <1> DEFINE r == [g EXCEPT !.gameRunning = TRUE, !.thrown = FALSE]
             n == startNewHand(r)
             sb == PlayerAt(n, smallBlindPosition(n))
             bb == PlayerAt(n, bigBlindPosition(n))
             x == Min({SmallBlindAmount, n.chipStack[sb]})
             s == processBlind(n, sb, x)
             y == Min({BigBlindAmount, s.chipStack[bb]})
             t == processBlind(s, bb, y)
             b == setNextPlayerToAct(t)
             h == StartedHand(g)
  <1>1. /\ TableOK(r) /\ r.players = g.players /\ r.chipStack = g.chipStack
        /\ r.gameRunning /\ ~r.thrown
    BY DEF TableOK, Table
  <1>2. SeatCount(r) # 0
    <2>1. SeatCount(g) \in Nat
      BY SeatFacts
    <2> QED BY <1>1, <2>1 DEF SeatCount
  <1> HIDE DEF r
  <1>3. /\ TableOK(n) /\ Fresh(n) /\ n.currentPhase = "PreFlop"
        /\ n.gameRunning /\ ~n.thrown /\ NewHand(r, n)
    BY <1>1, <1>2, StartNewHandFacts
  <1> HIDE DEF n
  <1>4. NewHand(g, n)
    BY <1>1, <1>3 DEF NewHand
  <1>5. SeatCount(n) >= 2 /\ Seated(n) = Seated(g)
    BY <1>4 DEF NewHand, SeatCount, Seated
  <1>6. sb \in Seated(g) /\ bb \in Seated(g) /\ sb # bb
    BY <1>3, <1>5, BlindSeats
  <1>7. Seated(g) \subseteq Players
    BY SeatFacts
  <1>8. b = processBlindPosting(n)
    BY DEF processBlindPosting
  <1>9. h = b \/ h = setNextPlayerToAct(b)
    BY <1>8 DEF StartedHand, n, r
  <1> HIDE DEF sb, bb, h
  <1>10. Posted(n, s, sb, SmallBlindAmount, x)
    BY <1>3, <1>6, <1>7, PostedBlind, BlindsAssumption
  <1> HIDE DEF x, s
  <1>11. TableOK(s)
    BY <1>10 DEF Posted
  <1>12. Posted(s, t, bb, BigBlindAmount, y)
    BY <1>6, <1>7, <1>11, PostedBlind, BlindsAssumption
  <1> HIDE DEF t, y
  <1>13. TableOK(t)
    BY <1>12 DEF Posted
  <1>14. Dealt(t, b)
    BY <1>13, SetNextFacts DEF Dealt
  <1> HIDE DEF b
  <1>15. Dealt(b, setNextPlayerToAct(b))
    BY <1>14, SetNextFacts DEF Dealt
  <1>16. Dealt(t, h)
    BY <1>9, <1>14, <1>15 DEF Dealt, SameBets, SameMoney
  <1> QED BY <1>3, <1>4, <1>6, <1>10, <1>12, <1>16 DEF h

(* A blind is no action and no payment of an earlier street. *)
LEMMA BlindFresh ==
  ASSUME NEW g, TableOK(g), Fresh(g), NEW h, NEW p \in Players, NEW blind, NEW x,
         Posted(g, h, p, blind, x)
  PROVE  Fresh(h)
  <1>1. /\ g.currentBet \in [Players -> Nat] /\ g.totalBetThisHand \in [Players -> Nat]
        /\ x \in Nat
    BY DEF TableOK, Table, Posted
  <1>2. /\ h.currentBet = [g.currentBet EXCEPT ![p] = @ + x]
        /\ h.totalBetThisHand = [g.totalBetThisHand EXCEPT ![p] = @ + x]
        /\ h.hasActed = g.hasActed
    BY DEF Posted, Staked
  <1>3. ASSUME NEW q \in Players PROVE ~h.hasActed[q] /\ PaidBefore(h, q) = 0
    <2>1. g.totalBetThisHand[q] - g.currentBet[q] = 0 /\ ~g.hasActed[q]
      BY DEF Fresh, PaidBefore
    <2>2. h.totalBetThisHand[q] - h.currentBet[q] = 0
      <3>1. CASE q = p
        BY <1>1, <1>2, <2>1, <3>1
      <3>2. CASE q # p
        BY <1>1, <1>2, <2>1, <3>2
      <3> QED BY <3>1, <3>2
    <2> QED BY <1>2, <2>1, <2>2 DEF PaidBefore
  <1> QED BY <1>3 DEF Fresh

(* A hand that has just started. *)
Opened(g, h) ==
  /\ Fresh(h) /\ h.currentPhase = "PreFlop" /\ h.gameRunning /\ ~h.thrown
  /\ h.players = g.players /\ \A p \in Players : ~h.isFolded[p]

(* startHand() establishes the invariant, whatever hand it interrupts. *)
LEMMA StartedHandFacts ==
  ASSUME NEW g, TableOK(g), SeatCount(g) >= 2
  PROVE  Good(StartedHand(g)) /\ Opened(g, StartedHand(g))
  <1> DEFINE h == StartedHand(g)
  <1>1. PICK n, s, t, x, y : \E sb, bb \in Seated(g) :
          /\ TableOK(n) /\ Fresh(n) /\ n.currentPhase = "PreFlop"
          /\ n.gameRunning /\ ~n.thrown /\ NewHand(g, n)
          /\ Posted(n, s, sb, SmallBlindAmount, x)
          /\ Posted(s, t, bb, BigBlindAmount, y)
          /\ Dealt(t, h)
    BY StartedHandSteps
  <1>2. PICK sb \in Seated(g), bb \in Seated(g) :
          /\ Posted(n, s, sb, SmallBlindAmount, x)
          /\ Posted(s, t, bb, BigBlindAmount, y)
    BY <1>1
  <1> HIDE DEF h
  <1>3. Seated(g) \subseteq Players
    BY SeatFacts
  <1>4. Opened(g, n)
    BY <1>1 DEF Opened, NewHand
  <1>5. Opened(g, s) /\ TableOK(s)
    <2>1. Fresh(s)
      BY <1>1, <1>2, <1>3, BlindFresh
    <2> QED BY <1>2, <1>4, <2>1 DEF Opened, Posted, Staked
  <1>6. Opened(g, t)
    <2>1. Fresh(t)
      BY <1>2, <1>3, <1>5, BlindFresh DEF Opened
    <2> QED BY <1>2, <1>5, <2>1 DEF Opened, Posted, Staked
  <1>7. TableOK(h) /\ Opened(g, h)
    BY <1>1, <1>6 DEF Dealt, SameBets, Fresh, PaidBefore, Opened
  <1>8. Fair(h)
    BY <1>7, FreshFair DEF Opened
  <1> QED BY <1>7, <1>8 DEF Good, Opened, h

-----------------------------------------------------------------------------
(* The end of a hand *)

(* The table h is g after the hand: only players with chips are left. *)
Over(g, h) ==
  /\ Good(h) /\ ~h.gameRunning /\ h.thrown = g.thrown
  /\ \A p \in Seated(h) : h.chipStack[p] > 0

(* completeHand() yields a well-typed table, not running. *)
LEMMA CompleteHandFacts ==
  ASSUME NEW g, TableOK(g), g.currentPhase # "HandComplete"
  PROVE  Over(g, completeHand(g))
  <1> DEFINE a == advancePhase(g)
             d == [a EXCEPT !.gameRunning = FALSE]
             B == {p \in Seated(d) : d.chipStack[p] <= 0}
             h == removePlayers(d, B)
  <1>1. TableOK(a) /\ a.thrown = g.thrown
    BY AdvancePhaseFacts
  <1>2. completeHand(g) = h
    BY DEF completeHand
  <1> HIDE DEF a
  <1>3. TableOK(d) /\ ~d.gameRunning /\ d.thrown = g.thrown
    BY <1>1 DEF TableOK, Table
  <1> HIDE DEF d
  <1>4. /\ TableOK(h) /\ ~h.gameRunning /\ h.thrown = g.thrown
        /\ Seated(h) = Seated(d) \ B /\ Left(d, h, B)
    <2> HIDE DEF B
    <2> QED BY <1>3, RemovePlayersFacts
  <1> HIDE DEF h
  <1>5. ASSUME NEW p \in Seated(h) PROVE h.chipStack[p] > 0
    <2>1. p \in Seated(d) /\ p \notin B /\ p \in Players
      BY <1>3, <1>4, SeatFacts
    <2>2. d.chipStack[p] \in Nat
      BY <1>3, <2>1 DEF TableOK, Table
    <2>3. h.chipStack[p] = d.chipStack[p]
      BY <1>4, <2>1 DEF Left
    <2> QED BY <2>1, <2>2, <2>3
  <1> QED BY <1>2, <1>4, <1>5 DEF Good, Over

(* The distribution of the pots fails. *)
NoWinner(g, strength) ==
  /\ Cardinality(PlayersInHand(g)) # 1
  /\ HasOrphanPot(g.pots, [p \in PlayersInHand(g) |-> strength[p]], PlayersInHand(g))

(* The winners are paid and the hand is over, or the distribution failed   *)
(* and the table is as it was.                                             *)
LEMMA DetermineWinnersFacts ==
  ASSUME NEW g, TableOK(g), g.currentPhase # "HandComplete", NEW strength
  PROVE  LET h == determineWinners(g, strength)
         IN  \/ Over(g, h)
             \/ /\ NoWinner(g, strength)
                /\ TableOK(h) /\ SameBets(g, h)
                /\ h.currentPhase = g.currentPhase
                /\ h.gameRunning = g.gameRunning
                /\ h.currentPlayerToAct = g.currentPlayerToAct
  <1> DEFINE inHand == PlayersInHand(g)
             evaluations == [p \in inHand |-> strength[p]]
             seat == [p \in inHand |-> SeatOf(g, p)]
             won(p) == IF Cardinality(inHand) = 1 THEN getTotalPotAmount(g.pots)
                       ELSE Winnings(g.pots, evaluations, inHand, seat, p)
             c == [p \in Players |-> g.chipStack[p] + IF p \in inHand THEN won(p) ELSE 0]
             t == [g EXCEPT !.thrown = TRUE]
             k == [g EXCEPT !.chipStack = c]
             h == determineWinners(g, strength)
  <1>1. (h = t /\ NoWinner(g, strength)) \/ h = completeHand(k)
    BY DEF determineWinners, NoWinner
  <1>2. g \in Table /\ g.chipStack \in [Players -> Nat]
    BY DEF TableOK, Table
  <1>3. ASSUME NEW p PROVE won(p) \in Nat
    BY PotsOfTable, PotTotalType, WinningsType, PlayersAssumption
  <1> HIDE DEF won, inHand
  <1>4. c \in [Players -> Nat]
    BY <1>2, <1>3
  <1> HIDE DEF c
  <1>5. TableOK(k) /\ k.currentPhase = g.currentPhase /\ k.thrown = g.thrown
    BY <1>2, <1>4 DEF TableOK, Table
  <1> HIDE DEF k
  <1>6. CASE h = completeHand(k)
    BY <1>5, <1>6, CompleteHandFacts DEF Over
  <1>7. CASE h = t /\ NoWinner(g, strength)
    <2>1. /\ TableOK(t) /\ SameBets(g, t)
          /\ t.currentPhase = g.currentPhase /\ t.gameRunning = g.gameRunning
          /\ t.currentPlayerToAct = g.currentPlayerToAct
      BY <1>2 DEF TableOK, Table, SameBets
    <2> HIDE DEF t, h
    <2>2. /\ TableOK(h) /\ SameBets(g, h)
          /\ h.currentPhase = g.currentPhase /\ h.gameRunning = g.gameRunning
          /\ h.currentPlayerToAct = g.currentPlayerToAct
      BY <1>7, <2>1
    <2> QED BY <1>7, <2>2 DEF h
  <1> QED BY <1>1, <1>6, <1>7

(* In a table of a running hand, determineWinners() keeps the invariant. *)
LEMMA DetermineWinnersGood ==
  ASSUME NEW g, TableOK(g), g.currentPhase # "HandComplete", Fair(g),
         NEW strength
  PROVE  Good(determineWinners(g, strength))
  <1> DEFINE h == determineWinners(g, strength)
  <1>1. \/ Good(h)
        \/ TableOK(h) /\ SameBets(g, h) /\ h.currentPhase = g.currentPhase
    BY DetermineWinnersFacts DEF Over
  <1> HIDE DEF h
  <1>2. SameBets(g, h) => Fair(h)
    BY SameBetsFair
  <1> QED BY <1>1, <1>2 DEF Good, h

-----------------------------------------------------------------------------
(* The end of a betting round *)

(* One street: everybody who can act has acted, so the stakes are even on  *)
(* the next one.                                                           *)
LEMMA StreetGood ==
  ASSUME NEW g, TableOK(g), g.currentPhase # "HandComplete", Fair(g), Closed(g),
         NEW strength
  PROVE  Good(Street(g, strength))
  <1> DEFINE s == createSidePotsOf(g)
             h == Street(g, strength)
  <1>1. TableOK(s) /\ SameBets(g, s) /\ s.currentPhase = g.currentPhase
    BY CreateSidePotsFacts
  <1>2. h = CASE s.currentPhase \in {"PreFlop", "Flop", "Turn"} -> advancePhase(s)
              [] s.currentPhase = "River" -> startShowdown(s, strength)
              [] OTHER -> [s EXCEPT !.thrown = TRUE]
    BY DEF Street
  <1> HIDE DEF s, h
  <1>3. Fair(s) /\ Closed(s)
    BY <1>1, SameBetsFair
  <1> DEFINE a == advancePhase(s)
  <1>4. /\ TableOK(a) /\ Fair(a)
        /\ a.currentPhase = NextPhase[s.currentPhase]
    BY <1>1, <1>3, AdvancePhaseFacts
  <1>5. startShowdown(s, strength) = determineWinners(a, strength)
    BY DEF startShowdown
  <1> HIDE DEF a
  <1>6. CASE s.currentPhase \in {"PreFlop", "Flop", "Turn"}
    <2>1. a.currentPhase # "HandComplete" /\ h = a
      BY <1>2, <1>4, <1>6 DEF NextPhase, a
    <2> QED BY <1>4, <2>1 DEF Good, h
  <1>7. CASE s.currentPhase = "River"
    <2>1. a.currentPhase # "HandComplete"
      BY <1>4, <1>7 DEF NextPhase
    <2>2. Good(determineWinners(a, strength))
      BY <1>4, <2>1, DetermineWinnersGood
    <2> QED BY <1>2, <1>5, <1>7, <2>2 DEF h
  <1>8. CASE s.currentPhase \notin {"PreFlop", "Flop", "Turn", "River"}
    <2> DEFINE t == [s EXCEPT !.thrown = TRUE]
    <2>1. h = t
      BY <1>2, <1>8
    <2>2. TableOK(t) /\ SameBets(s, t) /\ t.currentPhase = s.currentPhase
      BY <1>1 DEF TableOK, Table, SameBets
    <2> HIDE DEF t
    <2>3. Fair(t)
      BY <1>3, <2>2, SameBetsFair
    <2> QED BY <1>1, <2>1, <2>2, <2>3 DEF Good, h
  <1> QED BY <1>6, <1>7, <1>8

(* The loop goes on only when nobody can act. *)
LEMMA StreetAgainGood ==
  ASSUME NEW g, Good(g), NEW strength
  PROVE  Good(StreetAgain(g, strength))
  <1>1. CASE /\ g.gameRunning /\ ~g.thrown
             /\ PlayersWhoCanAct(g) = {} /\ ~isHandComplete(g)
    <2>1. TableOK(g) /\ g.currentPhase # "HandComplete" /\ Fair(g) /\ Closed(g)
      BY <1>1 DEF Good, Closed
    <2> QED BY <1>1, <2>1, StreetGood DEF StreetAgain
  <1>2. CASE ~(/\ g.gameRunning /\ ~g.thrown
               /\ PlayersWhoCanAct(g) = {} /\ ~isHandComplete(g))
    BY <1>2 DEF StreetAgain
  <1> QED BY <1>1, <1>2

(* completeBettingRound() keeps the invariant. *)
LEMMA CompleteBettingRoundGood ==
  ASSUME NEW g, TableOK(g), g.currentPhase # "HandComplete", Fair(g), Closed(g),
         NEW strength
  PROVE  Good(completeBettingRound(g, strength))
  <1>1. Good(Street(g, strength))
    BY StreetGood
  <1>2. Good(StreetAgain(Street(g, strength), strength))
    BY <1>1, StreetAgainGood
  <1>3. Good(StreetAgain(StreetAgain(Street(g, strength), strength), strength))
    BY <1>2, StreetAgainGood
  <1> QED BY <1>3, StreetAgainGood DEF completeBettingRound

-----------------------------------------------------------------------------
(* An action that was accepted *)

(* processAction() keeps the invariant. *)
LEMMA ProcessedGood ==
  ASSUME NEW g, Good(g), g.gameRunning, NEW p, NEW a \in BotAction,
         validateAction(g, p, a), NEW strength
  PROVE  Good(Processed(g, p, a, strength))
  <1> DEFINE u == [g EXCEPT !.thrown = FALSE]
             s == applyAction(u, p, a)
             r == IF isBettingRoundComplete(s) THEN completeBettingRound(s, strength)
                  ELSE s
             h == Processed(g, p, a, strength)
  <1>1. /\ TableOK(g) /\ g \in Table /\ Fair(g) /\ g.currentPhase # "HandComplete"
    BY DEF Good, TableOK
  <1>2. /\ TableOK(u) /\ SameBets(g, u) /\ u.currentPhase = g.currentPhase
        /\ u.gameRunning = g.gameRunning
        /\ u.currentPlayerToAct = g.currentPlayerToAct
        /\ u.minimumRaise = g.minimumRaise
    BY <1>1 DEF TableOK, Table, SameBets
  <1>3. h = IF r.gameRunning /\ ~r.thrown /\ isHandComplete(r)
            THEN determineWinners(r, strength) ELSE r
    BY DEF Processed
  <1> HIDE DEF u
  <1>4. Fair(u) /\ Seated(u) = Seated(g) /\ getCurrentBet(u) = getCurrentBet(g)
    BY <1>1, <1>2, SameBetsFair
  <1>5. validateAction(u, p, a)
    BY <1>2, <1>4 DEF SameBets, validateAction, canAct, validateCheck,
       validateCall, validateBet, validateRaise, validateAllIn, MaxRaise,
       hasBettingOccurred
  <1>6. /\ TableOK(s) /\ Fair(s)
        /\ s.currentPhase # "HandComplete" /\ s.gameRunning
    BY <1>1, <1>2, <1>4, <1>5, ApplyActionFacts
  <1> HIDE DEF s, h
  <1>7. Good(r)
    <2>1. CASE isBettingRoundComplete(s)
      <3>1. Closed(s)
        BY <2>1 DEF isBettingRoundComplete, Closed
      <3> QED BY <1>6, <2>1, <3>1, CompleteBettingRoundGood
    <2>2. CASE ~isBettingRoundComplete(s)
      BY <1>6, <2>2 DEF Good
    <2> QED BY <2>1, <2>2
  <1> HIDE DEF r
  <1>8. CASE r.gameRunning /\ ~r.thrown /\ isHandComplete(r)
    <2>1. TableOK(r) /\ r.currentPhase # "HandComplete" /\ Fair(r)
      BY <1>7, <1>8 DEF Good
    <2> QED BY <1>3, <1>8, <2>1, DetermineWinnersGood DEF h
  <1>9. CASE ~(r.gameRunning /\ ~r.thrown /\ isHandComplete(r))
    BY <1>3, <1>7, <1>9 DEF h
  <1> QED BY <1>8, <1>9

-----------------------------------------------------------------------------
(* The steps of the engine *)

(* An empty table satisfies the invariant. *)
LEMMA InitGood ==
  Init => IInv
  <1> SUFFICES ASSUME Init PROVE IInv
    OBVIOUS
  <1> DEFINE z == [p \in Players |-> 0]
             b == [p \in Players |-> FALSE]
  <1>1. z \in [Players -> Nat] /\ b \in [Players -> BOOLEAN]
    OBVIOUS
  <1>2. /\ resetPots \in SUBSET PotRecord /\ resetPots # {} /\ IsFiniteSet(resetPots)
        /\ BigBlindAmount \in Nat /\ BigBlindAmount \in Int
        /\ "PreFlop" \in GamePhase
    BY ResetPotsType, BlindsAssumption DEF PotsOver, PotRecord, GamePhase, Betting
  <1>3. game = [players |-> <<>>, chipStack |-> z, currentBet |-> z,
                totalBetThisHand |-> z, hasActed |-> b, isFolded |-> b,
                isAllIn |-> b, pots |-> resetPots, currentPhase |-> "PreFlop",
                currentPlayerToAct |-> NoPlayer, dealerPosition |-> 0,
                minimumRaise |-> BigBlindAmount,
                lastRaiseAmount |-> BigBlindAmount,
                gameRunning |-> FALSE, thrown |-> FALSE]
    BY DEF Init, EmptyTable
  <1> HIDE DEF z, b
  <1>4. /\ game \in Table /\ game.players = <<>> /\ game.pots = resetPots
        /\ game.minimumRaise = BigBlindAmount /\ game.gameRunning = FALSE
    BY <1>1, <1>2, <1>3 DEF Table
  <1>5. TableOK(game)
    <2>1. DOMAIN game.players = {}
      BY <1>4
    <2> QED BY <1>2, <1>4, <2>1 DEF TableOK
  <1> QED BY <1>4, <1>5 DEF IInv, Good, Init

(* A player who sits down keeps the table well-typed. *)
LEMMA AddPlayerGood ==
  ASSUME NEW g, TableOK(g), NEW p \in Players \ Seated(g), NEW chips \in Nat
  PROVE  /\ TableOK(addPlayer(g, p, chips))
         /\ addPlayer(g, p, chips).gameRunning = g.gameRunning
  <1> DEFINE s == Append(g.players, p)
             c == [g.chipStack EXCEPT ![p] = chips]
             h == addPlayer(g, p, chips)
  <1>1. g \in Table /\ g.players \in Seq(Players) /\ g.chipStack \in [Players -> Nat]
    BY DEF TableOK, Table
  <1>2. s \in Seq(Players) /\ c \in [Players -> Nat]
    BY <1>1
  <1>3. \A i, j \in DOMAIN s : s[i] = s[j] => i = j
    <2>1. /\ DOMAIN s = 1..(Len(g.players) + 1) /\ Len(g.players) \in Nat
          /\ s[Len(g.players) + 1] = p
          /\ \A i \in 1..Len(g.players) : s[i] = g.players[i]
      BY <1>1
    <2>2. \A i \in 1..Len(g.players) : g.players[i] # p
      BY <1>1 DEF Seated
    <2>3. \A i, j \in 1..Len(g.players) : g.players[i] = g.players[j] => i = j
      BY <1>1 DEF TableOK
    <2> HIDE DEF s
    <2>4. \A i \in DOMAIN s : i \in 1..Len(g.players) \/ i = Len(g.players) + 1
      BY <2>1
    <2> QED BY <2>1, <2>2, <2>3, <2>4
  <1>4. h = [g EXCEPT !.players = s, !.chipStack = c]
    BY DEF addPlayer
  <1> HIDE DEF s, c, h
  <1>5. /\ h \in Table /\ h.players = s /\ h.pots = g.pots
        /\ h.minimumRaise = g.minimumRaise /\ h.gameRunning = g.gameRunning
    BY <1>1, <1>2, <1>4 DEF Table
  <1> QED BY <1>3, <1>5 DEF TableOK, h

(* The step of an accepted action, sent by a bot or forced by the timer.   *)
(* A bot that chooses among its offers folds only when it owes chips.      *)
Played(p, a, strength) ==
  /\ game.gameRunning /\ a \in BotAction /\ validateAction(game, p, a)
  /\ strength \in HandStrengths(PlayersInHand(game))
  /\ "unoffered" \notin Liberties /\ a.type = "fold" => getCallAmount(game, p) > 0
  /\ game' = Processed(game, p, a, strength)
  /\ bankroll' = bankroll

(* Both ways of playing an action are such steps. *)
LEMMA PlayedSteps ==
  ASSUME TableOK(game), NEW p \in Players, ProcessAction(p) \/ ForcePlayerAction(p)
  PROVE  \E a, strength : Played(p, a, strength)
  <1>1. CASE ProcessAction(p)
    <2>1. PICK a \in BotActions(game, p),
               strength \in HandStrengths(PlayersInHand(game)) :
            validateAction(game, p, a) /\ game' = Processed(game, p, a, strength)
      BY <1>1 DEF ProcessAction
    <2>2. a \in BotAction
      BY BotActionsType
    <2>3. ASSUME "unoffered" \notin Liberties, a.type = "fold"
          PROVE  getCallAmount(game, p) > 0
      <3> DEFINE Offer(type, M) == {Act(type, n) : n \in M}
                 S == {getCurrentBet(game) + game.minimumRaise, MaxRaise(game, p)}
      <3>1. a \in getPossibleActions(game, p)
        BY <2>3 DEF BotActions
      <3>2. \/ a \in Offer("fold", {0}) /\ getCallAmount(game, p) > 0
            \/ a \in Offer("check", {0})
            \/ a \in Offer("call", {0})
            \/ a \in Offer("bet", BigBlindAmount..game.chipStack[p])
            \/ a \in Offer("raise", Min(S)..MaxRaise(game, p))
            \/ a \in Offer("allin", {0})
        BY <3>1, Zenon DEF getPossibleActions
      <3>3. \A type, M : a \in Offer(type, M) => a.type = type
        BY DEF Act
      <3> HIDE DEF Offer, S
      <3> QED BY <2>3, <3>2, <3>3
    <2> QED BY <1>1, <2>1, <2>2, <2>3 DEF ProcessAction, Played
  <1>2. CASE ForcePlayerAction(p)
    <2> DEFINE a == getForceAction(game, p)
    <2>1. PICK strength \in HandStrengths(PlayersInHand(game)) :
            game' = Processed(game, p, a, strength)
      BY <1>2 DEF ForcePlayerAction
    <2>2. a \in BotAction
      BY DEF getForceAction, Act, BotAction, ActionType
    <2>3. validateAction(game, p, a) /\ game.gameRunning /\ bankroll' = bankroll
      BY <1>2 DEF ForcePlayerAction
    <2>4. a.type = "fold" => getCallAmount(game, p) > 0
      <3>1. p \in PlayersInHand(game)
        BY <2>3 DEF validateAction, PlayersInHand, canAct
      <3>2. getCallAmount(game, p) \in Nat
        BY <3>1, CallAmountFacts
      <3>3. a.type = "fold" => getCallAmount(game, p) # 0
        BY DEF getForceAction, Act
      <3> QED BY <3>2, <3>3
    <2> HIDE DEF a
    <2> QED BY <2>1, <2>2, <2>3, <2>4 DEF Played
  <1> QED BY <1>1, <1>2

(* Every step keeps the invariant. *)
LEMMA StepGood ==
  IInv /\ [Next]_vars => IInv'
  <1> SUFFICES ASSUME IInv, [Next]_vars PROVE IInv'
    OBVIOUS
  <1>1. /\ Good(game) /\ TableOK(game) /\ bankroll \in Int
        /\ game.chipStack \in [Players -> Nat]
    BY DEF IInv, Good, TableOK, Table
  <1>2. ASSUME NEW p \in Players, NEW chips \in BuyIns, AddPlayer(p, chips)
        PROVE  IInv'
    <2>1. chips \in Nat
      BY EngineAssumption
    <2>2. TableOK(game') /\ game'.gameRunning = game.gameRunning
      BY <1>1, <1>2, <2>1, AddPlayerGood DEF AddPlayer
    <2> QED BY <1>1, <1>2, <2>1, <2>2 DEF AddPlayer, IInv, Good
  <1>3. ASSUME NEW p \in Players, RemovePlayer(p) PROVE IInv'
    <2>1. /\ TableOK(game') /\ game'.currentPhase = game.currentPhase
          /\ game'.gameRunning = game.gameRunning
          /\ Fair(game) => Fair(game')
      BY <1>1, <1>3, RemovePlayersFacts DEF RemovePlayer
    <2>2. bankroll' \in Int
      BY <1>1, <1>3 DEF RemovePlayer
    <2> QED BY <1>1, <2>1, <2>2 DEF IInv, Good
  <1>4. CASE StartHand
    BY <1>1, <1>4, StartedHandFacts DEF StartHand, IInv
  <1>5. ASSUME NEW p \in Players, ProcessAction(p) \/ ForcePlayerAction(p)
        PROVE  IInv'
    <2>1. PICK a, strength : Played(p, a, strength)
      BY <1>1, <1>5, PlayedSteps
    <2>2. Good(game')
      BY <1>1, <2>1, ProcessedGood DEF Played
    <2> QED BY <1>1, <2>1, <2>2 DEF Played, IInv
  <1>6. CASE UNCHANGED vars
    BY <1>6 DEF vars, IInv
  <1>7. CASE Next
    BY <1>2, <1>3, <1>4, <1>5, <1>7 DEF Next, TurnTimer
  <1> QED BY <1>6, <1>7

(* IInv holds in every state the engine reaches. *)
LEMMA Invariance == Spec => []IInv
  BY InitGood, StepGood, PTL DEF Spec

(* The table is well-formed in every state: distinct seats, a pot to bet   *)
(* into, no negative chips, a minimum raise of at least the big blind, no  *)
(* running hand in the phase HandComplete.                                 *)
THEOREM TypeCorrect == Spec => []TypeOK
  BY Invariance, IInvImplies, PTL

(* Whoever has acted in the round and can still act has matched the        *)
(* highest bet, whatever actions the bots send and whoever leaves.         *)
THEOREM BetsAreMatched == Spec => []BetsMatched
  BY Invariance, IInvImplies, PTL

(* Nobody plays on for less: a player who can still bet has put in as much *)
(* on the closed streets as everybody else in the hand.                    *)
THEOREM StakesAreEven == Spec => []EvenStakes
  BY Invariance, IInvImplies, PTL

-----------------------------------------------------------------------------
(* The money *)

(* The pots of a hand hold what the players at the table have bet. *)
Funded(g) ==
  /\ getTotalPotAmount(g.pots) = Total(g.totalBetThisHand)
  /\ LevelsDiffer(g.pots)
  /\ \A p \in Players \ Seated(g) : g.totalBetThisHand[p] = 0

(* The invariant of the money: chips belong to players at the table, and   *)
(* the pots of a running hand are funded by their bets.                    *)
Books(g) ==
  /\ \A p \in Players \ Seated(g) : g.chipStack[p] = 0
  /\ g.gameRunning => Funded(g)

(* The chips on the table. *)
Value(g) == Total(g.chipStack)
              + IF g.gameRunning THEN Total(g.totalBetThisHand) ELSE 0

(* The books of a table and its value depend on nothing but money. *)
LEMMA SameMoneyBooks ==
  ASSUME NEW g, NEW h, SameMoney(g, h), h.gameRunning = g.gameRunning
  PROVE  (Books(g) => Books(h)) /\ Value(h) = Value(g)
  <1>1. Seated(h) = Seated(g)
    BY DEF SameMoney, Seated
  <1> QED BY <1>1 DEF SameMoney, Books, Funded, Value

(* Chips put into the pot stay on the table. *)
LEMMA StakedBooks ==
  ASSUME NEW g, TableOK(g), Books(g), g.gameRunning,
         NEW h, TableOK(h), h.gameRunning,
         NEW p \in Seated(g), NEW a \in Nat, a <= g.chipStack[p],
         Staked(g, h, p, a), h.pots = addBet(g.pots, p, a)
  PROVE  Books(h) /\ Value(h) = Value(g)
  <1> DEFINE c == g.chipStack
             d == h.chipStack
             t == g.totalBetThisHand
             u == h.totalBetThisHand
  <1>1. /\ c \in [Players -> Nat] /\ d \in [Players -> Nat]
        /\ t \in [Players -> Nat] /\ u \in [Players -> Nat]
    BY DEF TableOK, Table
  <1>2. p \in Players /\ Seated(h) = Seated(g)
    <2>1. Seated(h) = Seated(g)
      BY DEF Seated, Staked
    <2> QED BY <2>1, SeatFacts
  <1>3. /\ d = [c EXCEPT ![p] = @ - a]
        /\ u = [t EXCEPT ![p] = @ + a]
    BY DEF Staked
  <1> HIDE DEF c, d, t, u
  <1>4. /\ d[p] = c[p] - a /\ u[p] = t[p] + a
        /\ \A q \in Players \ {p} : d[q] = c[q] /\ u[q] = t[q]
    BY <1>1, <1>2, <1>3
  <1>5. c[p] = d[p] + a /\ \A q \in Players \ {p} : c[q] = d[q]
    BY <1>1, <1>2, <1>4
  <1>6. IsFiniteSet(Players)
    BY PlayersAssumption
  <1>7. Total(c) = Total(d) + a
    BY <1>1, <1>2, <1>5, <1>6, TotalIncrease
  <1>8. Total(u) = Total(t) + a
    BY <1>1, <1>2, <1>4, <1>6, TotalIncrease
  <1>9. Total(c) \in Nat /\ Total(d) \in Nat /\ Total(t) \in Nat /\ Total(u) \in Nat
    BY <1>1, <1>6, TotalType
  <1>10. Value(h) = Value(g)
    BY <1>7, <1>8, <1>9 DEF Value, c, d, t, u
  <1>11. /\ getTotalPotAmount(g.pots) = Total(t) /\ LevelsDiffer(g.pots)
         /\ \A q \in Players \ Seated(g) : t[q] = 0 /\ c[q] = 0
    BY DEF Books, Funded, t, c
  <1>12. g.pots \in PotsOver(Players)
    BY PotsOfTable
  <1>13. getTotalPotAmount(h.pots) = Total(u) /\ LevelsDiffer(h.pots)
    BY <1>2, <1>8, <1>11, <1>12, AddBetTotal
  <1>14. \A q \in Players \ Seated(g) : u[q] = 0 /\ d[q] = 0
    BY <1>4, <1>11
  <1>15. Books(h)
    BY <1>2, <1>13, <1>14 DEF Books, Funded, u, d
  <1> QED BY <1>10, <1>15

(* No accepted action puts in more than the player has, so that what       *)
(* addBet() is told is what leaves the stack.                              *)
LEMMA ApplyActionBooks ==
  ASSUME NEW g, TableOK(g), Books(g), g.gameRunning,
         NEW p, NEW a \in BotAction, validateAction(g, p, a)
  PROVE  LET h == applyAction(g, p, a)
         IN  Books(h) /\ Value(h) = Value(g)
  <1> DEFINE Kept(h) == TableOK(h) /\ h.gameRunning /\ Books(h) /\ Value(h) = Value(g)
  <1>1. p \in PlayersWhoCanAct(g) /\ p \in PlayersInHand(g) /\ p \in Players
    BY AcceptedActions
  <1>2. p \in Seated(g)
    BY AcceptedActions
  <1>3. PICK h : Answer(g, h, p, a) /\ applyAction(g, p, a) = setNextPlayerToAct(h)
    BY AcceptedActions
  <1>4. ASSUME TableOK(h), SameMoney(g, h), h.gameRunning = g.gameRunning PROVE Kept(h)
    BY <1>4, SameMoneyBooks
  <1>5. Kept(h)
    <2>1. CASE h = fold(g, p)
      <3>1. TableOK(h) /\ SameMoney(g, h) /\ h.gameRunning = g.gameRunning
        BY <1>1, <2>1, FoldFacts
      <3> QED BY <1>4, <3>1
    <2>2. CASE validateCheck(g, p) /\ h = check(g, p)
      <3>1. TableOK(h) /\ SameMoney(g, h) /\ h.gameRunning = g.gameRunning
        BY <1>1, <2>2, CheckFacts
      <3> QED BY <1>4, <3>1
    <2>3. ASSUME NEW n \in Nat, n <= g.chipStack[p], h = processBet(g, p, n)
          PROVE  Kept(h)
      <3>1. TableOK(h) /\ h.gameRunning = g.gameRunning /\ AfterBet(g, h, p, n)
        BY <1>1, <2>3, ProcessBetFacts
      <3>2. ~(n > g.chipStack[p])
        BY <1>1, <2>3 DEF TableOK, Table
      <3>3. Staked(g, h, p, n) /\ h.pots = addBet(g.pots, p, n)
        BY <3>1, <3>2 DEF AfterBet
      <3>4. Books(h) /\ Value(h) = Value(g)
        BY <1>2, <2>3, <3>1, <3>3, StakedBooks
      <3> QED BY <3>1, <3>4
    <2> HIDE DEF Kept
    <2> QED BY <1>3, <2>1, <2>2, <2>3 DEF Answer
  <1> DEFINE n == setNextPlayerToAct(h)
  <1>6. TableOK(n) /\ SameMoney(h, n) /\ n.gameRunning = h.gameRunning
    BY <1>5, SetNextFacts
  <1> HIDE DEF n
  <1>7. Books(n) /\ Value(n) = Value(h)
    BY <1>5, <1>6, SameMoneyBooks
  <1> QED BY <1>3, <1>5, <1>7 DEF n

(* The rebuilding of the pots keeps the books. *)
LEMMA CreateSidePotsBooks ==
  ASSUME NEW g, TableOK(g), Books(g), g.gameRunning
  PROVE  LET h == createSidePotsOf(g)
         IN  Books(h) /\ Value(h) = Value(g)
  <1> DEFINE h == createSidePotsOf(g)
             t == g.totalBetThisHand
             new == createSidePots(g.pots, Seated(g), t, g.isFolded)
  <1>1. SameBets(g, h) /\ h.gameRunning = g.gameRunning /\ h.pots = new
    BY CreateSidePotsFacts
  <1>2. /\ t \in [Players -> Nat] /\ g.pots \in PotsOver(Players)
        /\ Seated(g) \in SUBSET Players /\ IsFiniteSet(Players)
    BY PotsOfTable, SeatFacts, PlayersAssumption DEF TableOK, Table
  <1>3. /\ getTotalPotAmount(g.pots) = Total(t)
        /\ \A q \in Players \ Seated(g) : t[q] = 0
    BY DEF Books, Funded
  <1> HIDE DEF t, h
  <1>4. getTotalPotAmount(new) = Total(t) /\ LevelsDiffer(new)
    BY <1>2, <1>3, CreateSidePotsTotal
  <1> HIDE DEF new
  <1>5. Seated(h) = Seated(g)
    BY <1>1, SameBetsFair
  <1>6. Books(h)
    BY <1>1, <1>3, <1>4, <1>5 DEF Books, Funded, SameBets, t
  <1>7. Value(h) = Value(g)
    BY <1>1 DEF Value, SameBets
  <1> QED BY <1>6, <1>7 DEF h

-----------------------------------------------------------------------------
(* The payments, and the steps *)

(* findIndex() finds the seat of a player. *)
LEMMA SeatOfFacts ==
  ASSUME NEW g, TableOK(g), NEW p \in Seated(g)
  PROVE  /\ SeatOf(g, p) \in 0..(SeatCount(g) - 1)
         /\ PlayerAt(g, SeatOf(g, p)) = p
  <1>1. \E i \in 0..(SeatCount(g) - 1) : PlayerAt(g, i) = p
    BY SeatFacts
  <1> QED BY <1>1 DEF SeatOf

(* completeHand() takes seats away, and no chips. *)
LEMMA CompleteHandMoney ==
  ASSUME NEW g, TableOK(g), g.currentPhase # "HandComplete"
  PROVE  LET h == completeHand(g)
         IN  /\ h.chipStack = g.chipStack
             /\ (\A p \in Players \ Seated(g) : g.chipStack[p] = 0)
                  => Books(h)
             /\ ~h.gameRunning
  <1> DEFINE a == advancePhase(g)
             d == [a EXCEPT !.gameRunning = FALSE]
             B == {p \in Seated(d) : d.chipStack[p] <= 0}
             h == removePlayers(d, B)
  <1>1. TableOK(a) /\ SameMoney(g, a)
    BY AdvancePhaseFacts
  <1>2. completeHand(g) = h
    BY DEF completeHand
  <1> HIDE DEF a
  <1>3. /\ TableOK(d) /\ ~d.gameRunning /\ d.players = a.players
        /\ d.chipStack = a.chipStack
    BY <1>1 DEF TableOK, Table
  <1> HIDE DEF d
  <1>4. Seated(d) = Seated(g) /\ d.chipStack = g.chipStack
    BY <1>1, <1>3 DEF SameMoney, Seated
  <1>5. \A p \in Players : p \in B => g.chipStack[p] = 0
    BY <1>4 DEF TableOK, Table
  <1> HIDE DEF B
  <1>6. /\ TableOK(h) /\ ~h.gameRunning /\ Seated(h) = Seated(d) \ B
        /\ Left(d, h, B)
    BY <1>3, RemovePlayersFacts
  <1> HIDE DEF h
  <1>7. h.chipStack \in [Players -> Nat] /\ g.chipStack \in [Players -> Nat]
    BY <1>6 DEF TableOK, Table
  <1>8. \A p \in Players : h.chipStack[p] = g.chipStack[p]
    BY <1>4, <1>5, <1>6 DEF Left
  <1>9. h.chipStack = g.chipStack
    BY <1>7, <1>8
  <1>10. ASSUME \A p \in Players \ Seated(g) : g.chipStack[p] = 0
         PROVE  Books(h)
    BY <1>4, <1>5, <1>6, <1>9, <1>10 DEF Books
  <1> QED BY <1>2, <1>6, <1>9, <1>10

(* w is what determineWinners() pays out. *)
Wins(g, strength, w) ==
  LET inHand == PlayersInHand(g)
      evaluations == [p \in inHand |-> strength[p]]
      seat == [p \in inHand |-> SeatOf(g, p)]
      won(p) == IF Cardinality(inHand) = 1 THEN getTotalPotAmount(g.pots)
                ELSE Winnings(g.pots, evaluations, inHand, seat, p)
  IN  /\ w \in [Players -> Nat]
      /\ \A p \in Players : w[p] = IF p \in inHand THEN won(p) ELSE 0

(* What the winners of a hand are paid is what the pots hold, the single   *)
(* winner of a hand that the others folded included.                       *)
LEMMA WonTotal ==
  ASSUME NEW g, TableOK(g), NEW strength, ~NoWinner(g, strength),
         NEW w, Wins(g, strength, w)
  PROVE  Total(w) = getTotalPotAmount(g.pots)
  <1> DEFINE inHand == PlayersInHand(g)
             evaluations == [p \in inHand |-> strength[p]]
             seat == [p \in inHand |-> SeatOf(g, p)]
             won(p) == Winnings(g.pots, evaluations, inHand, seat, p)
  <1>1. /\ inHand \in SUBSET Players /\ inHand \subseteq Seated(g)
        /\ IsFiniteSet(inHand) /\ IsFiniteSet(Players)
    BY SeatFacts, PlayersAssumption, FS_Subset DEF PlayersInHand
  <1>2. g.pots \in PotsOver(Players)
    BY PotsOfTable
  <1>3. CASE Cardinality(inHand) = 1
    <2>0. /\ w \in [Players -> Nat]
          /\ \A p \in Players : w[p] = IF p \in inHand THEN getTotalPotAmount(g.pots) ELSE 0
      BY <1>3 DEF Wins
    <2>1. PICK x : inHand = {x}
      BY <1>1, <1>3, FS_Singleton
    <2> HIDE DEF inHand
    <2>2. x \in Players /\ w[x] = getTotalPotAmount(g.pots)
      BY <1>1, <2>0, <2>1
    <2>3. \A y \in Players \ {x} : w[y] = 0
      BY <2>0, <2>1
    <2>4. Total(w) = w[x]
      BY <2>0, <2>2, <2>3, TotalSingle
    <2> QED BY <2>2, <2>4
  <1>4. CASE Cardinality(inHand) # 1
    <2>0. /\ w \in [Players -> Nat]
          /\ \A p \in Players : w[p] = IF p \in inHand THEN won(p) ELSE 0
      BY <1>4 DEF Wins
    <2>1. /\ ~HasOrphanPot(g.pots, evaluations, inHand)
          /\ \A p \in inHand : w[p] = won(p)
          /\ \A p \in Players \ inHand : w[p] = 0
      <3>1. ~HasOrphanPot(g.pots, evaluations, inHand)
        BY <1>4 DEF NoWinner
      <3> HIDE DEF inHand, won
      <3> QED BY <1>1, <2>0, <3>1
    <2> DEFINE v == [p \in inHand |-> w[p]]
    <2>2. \A x \in g.pots : Recipients(x, evaluations, inHand) \subseteq inHand
      BY DEF Recipients
    <2>3. \A p \in inHand : seat[p] \in Int /\ seat[p] = SeatOf(g, p)
      BY SeatFacts
    <2>4. \A p, q \in inHand : seat[p] = seat[q] => p = q
      <3>1. \A p \in inHand : PlayerAt(g, SeatOf(g, p)) = p
        BY <1>1, SeatOfFacts
      <3> HIDE DEF inHand, seat
      <3> QED BY <2>3, <3>1
    <2> HIDE DEF inHand, seat, evaluations
    <2>5. v \in [inHand -> Nat] /\ \A p \in inHand : v[p] = won(p) /\ v[p] = w[p]
      BY <1>1, <2>0, <2>1
    <2> HIDE DEF v
    <2>6. Total(v) = getTotalPotAmount(g.pots)
      BY <1>1, <1>2, <2>1, <2>2, <2>3, <2>4, <2>5, WinningsTotal
    <2>7. Total(w) = Total(v)
      BY <1>1, <2>0, <2>1, <2>5, TotalRestrict
    <2> QED BY <2>6, <2>7
  <1> QED BY <1>3, <1>4

(* determineWinners() pays the winners and ends the hand. *)
LEMMA DetermineWinnersPays ==
  ASSUME NEW g, TableOK(g), g.currentPhase # "HandComplete",
         NEW strength, ~NoWinner(g, strength)
  PROVE  LET h == determineWinners(g, strength)
         IN  /\ ~h.gameRunning
             /\ \E w : /\ Wins(g, strength, w)
                       /\ h.chipStack = [p \in Players |-> g.chipStack[p] + w[p]]
             /\ (\A p \in Players \ Seated(g) : g.chipStack[p] = 0) => Books(h)
  <1> DEFINE inHand == PlayersInHand(g)
             evaluations == [p \in inHand |-> strength[p]]
             seat == [p \in inHand |-> SeatOf(g, p)]
             won(p) == IF Cardinality(inHand) = 1 THEN getTotalPotAmount(g.pots)
                       ELSE Winnings(g.pots, evaluations, inHand, seat, p)
             w == [p \in Players |-> IF p \in inHand THEN won(p) ELSE 0]
             c == [p \in Players |-> g.chipStack[p] + IF p \in inHand THEN won(p) ELSE 0]
             d == [p \in Players |-> g.chipStack[p] + w[p]]
             k == [g EXCEPT !.chipStack = c]
             h == determineWinners(g, strength)
  <1>1. h = completeHand(k)
    BY DEF determineWinners, NoWinner
  <1>2. g \in Table /\ g.chipStack \in [Players -> Nat]
    BY DEF TableOK, Table
  <1>3. \A p \in Players : won(p) \in Nat
    BY PotsOfTable, PotTotalType, WinningsType, PlayersAssumption
  <1>4. Wins(g, strength, w)
    <2>1. w \in [Players -> Nat]
      <3> HIDE DEF won, inHand
      <3> QED BY <1>3
    <2> QED BY <2>1 DEF Wins
  <1>5. c \in [Players -> Nat] /\ c = d
    <2> HIDE DEF won, inHand
    <2> QED BY <1>2, <1>3
  <1>6. \A p \in Players \ Seated(g) : c[p] = g.chipStack[p]
    BY <1>2 DEF PlayersInHand
  <1> HIDE DEF w, c, h
  <1>7. /\ TableOK(k) /\ k.currentPhase = g.currentPhase /\ k.players = g.players
        /\ k.chipStack = c
    BY <1>2, <1>5 DEF TableOK, Table
  <1>8. Seated(k) = Seated(g)
    BY <1>7 DEF Seated
  <1> HIDE DEF k
  <1>9. /\ h.chipStack = c /\ ~h.gameRunning
        /\ (\A p \in Players \ Seated(k) : k.chipStack[p] = 0) => Books(h)
    BY <1>1, <1>7, CompleteHandMoney
  <1>10. (\A p \in Players \ Seated(g) : g.chipStack[p] = 0) => Books(h)
    BY <1>6, <1>7, <1>8, <1>9
  <1> QED BY <1>4, <1>5, <1>9, <1>10 DEF h

(* determineWinners() pays out the pots, or fails and keeps the books. *)
LEMMA DetermineWinnersBooks ==
  ASSUME NEW g, TableOK(g), g.currentPhase # "HandComplete",
         Books(g), g.gameRunning, NEW strength
  PROVE  LET h == determineWinners(g, strength)
         IN  Books(h) /\ Value(h) = Value(g)
  <1> DEFINE h == determineWinners(g, strength)
             t == [g EXCEPT !.thrown = TRUE]
  <1>1. CASE NoWinner(g, strength)
    <2>1. h = t
      BY <1>1 DEF determineWinners, NoWinner
    <2>2. SameMoney(g, t) /\ t.gameRunning = g.gameRunning
      BY DEF SameMoney, TableOK, Table
    <2> HIDE DEF t, h
    <2> QED BY <2>1, <2>2, SameMoneyBooks DEF h
  <1>2. CASE ~NoWinner(g, strength)
    <2>1. \A p \in Players \ Seated(g) : g.chipStack[p] = 0
      BY DEF Books
    <2>2. PICK w : /\ Wins(g, strength, w)
                   /\ h.chipStack = [p \in Players |-> g.chipStack[p] + w[p]]
      BY <1>2, DetermineWinnersPays
    <2>3. Books(h) /\ ~h.gameRunning
      BY <1>2, <2>1, DetermineWinnersPays
    <2> DEFINE c == [p \in Players |-> g.chipStack[p] + w[p]]
    <2>4. w \in [Players -> Nat] /\ g.chipStack \in [Players -> Nat]
      BY <2>2 DEF Wins, TableOK, Table
    <2>5. c \in [Players -> Nat] /\ \A p \in Players : c[p] = g.chipStack[p] + w[p]
      BY <2>4
    <2> HIDE DEF h, c
    <2>6. Total(c) = Total(g.chipStack) + Total(w)
      BY <2>4, <2>5, PlayersAssumption, TotalAdd
    <2>7. Total(w) = Total(g.totalBetThisHand)
      BY <1>2, <2>2, WonTotal DEF Books, Funded
    <2>8. Total(c) \in Nat /\ h.chipStack = c
      BY <2>2, <2>5, PlayersAssumption, TotalType DEF c
    <2>9. Value(h) = Value(g)
      BY <2>3, <2>6, <2>7, <2>8 DEF Value
    <2> QED BY <2>3, <2>9 DEF h
  <1> QED BY <1>1, <1>2

(* One street keeps the books, also the one that ends the hand. *)
LEMMA StreetBooks ==
  ASSUME NEW g, TableOK(g), g.currentPhase # "HandComplete",
         Books(g), g.gameRunning, NEW strength
  PROVE  LET h == Street(g, strength)
         IN  Books(h) /\ Value(h) = Value(g)
  <1> DEFINE s == createSidePotsOf(g)
             h == Street(g, strength)
  <1>1. TableOK(s) /\ s.currentPhase = g.currentPhase /\ s.gameRunning
    BY CreateSidePotsFacts
  <1>2. Books(s) /\ Value(s) = Value(g)
    BY CreateSidePotsBooks
  <1>3. h = CASE s.currentPhase \in {"PreFlop", "Flop", "Turn"} -> advancePhase(s)
              [] s.currentPhase = "River" -> startShowdown(s, strength)
              [] OTHER -> [s EXCEPT !.thrown = TRUE]
    BY DEF Street
  <1> HIDE DEF s, h
  <1> DEFINE a == advancePhase(s)
  <1>4. /\ TableOK(a) /\ a.currentPhase = NextPhase[s.currentPhase]
        /\ SameMoney(s, a) /\ a.gameRunning = s.gameRunning
    BY <1>1, AdvancePhaseFacts
  <1>5. startShowdown(s, strength) = determineWinners(a, strength)
    BY DEF startShowdown
  <1> HIDE DEF a
  <1>6. Books(a) /\ Value(a) = Value(g)
    BY <1>2, <1>4, SameMoneyBooks
  <1>7. CASE s.currentPhase \in {"PreFlop", "Flop", "Turn"}
    BY <1>3, <1>6, <1>7 DEF h, a
  <1>8. CASE s.currentPhase = "River"
    <2>1. a.currentPhase # "HandComplete"
      BY <1>4, <1>8 DEF NextPhase
    <2>2. /\ Books(determineWinners(a, strength))
          /\ Value(determineWinners(a, strength)) = Value(a)
      BY <1>1, <1>4, <1>6, <2>1, DetermineWinnersBooks
    <2> QED BY <1>3, <1>5, <1>6, <1>8, <2>2 DEF h
  <1>9. CASE s.currentPhase \notin {"PreFlop", "Flop", "Turn", "River"}
    <2> DEFINE t == [s EXCEPT !.thrown = TRUE]
    <2>1. h = t
      BY <1>3, <1>9
    <2>2. SameMoney(s, t) /\ t.gameRunning = s.gameRunning
      BY <1>1 DEF TableOK, Table, SameMoney
    <2> HIDE DEF t
    <2> QED BY <1>2, <2>1, <2>2, SameMoneyBooks DEF h
  <1> QED BY <1>7, <1>8, <1>9

(* The loop over the streets keeps the books. *)
LEMMA StreetAgainBooks ==
  ASSUME NEW g, Good(g), Books(g), NEW strength
  PROVE  LET h == StreetAgain(g, strength)
         IN  Good(h) /\ Books(h) /\ Value(h) = Value(g)
  <1> DEFINE h == StreetAgain(g, strength)
             again == /\ g.gameRunning /\ ~g.thrown
                      /\ PlayersWhoCanAct(g) = {} /\ ~isHandComplete(g)
  <1>1. Good(h)
    BY StreetAgainGood
  <1>2. IF again THEN h = Street(g, strength) ELSE h = g
    BY DEF StreetAgain
  <1> HIDE DEF h
  <1>3. CASE again
    <2>1. TableOK(g) /\ g.currentPhase # "HandComplete" /\ g.gameRunning
      BY <1>3 DEF Good
    <2> QED BY <1>1, <1>2, <1>3, <2>1, StreetBooks DEF h
  <1>4. CASE ~again
    BY <1>1, <1>2, <1>4 DEF h
  <1> QED BY <1>3, <1>4

(* completeBettingRound() keeps the books. *)
LEMMA CompleteBettingRoundBooks ==
  ASSUME NEW g, TableOK(g), g.currentPhase # "HandComplete", Fair(g), Closed(g),
         Books(g), g.gameRunning, NEW strength
  PROVE  LET h == completeBettingRound(g, strength)
         IN  Books(h) /\ Value(h) = Value(g)
  <1> DEFINE s1 == Street(g, strength)
             s2 == StreetAgain(s1, strength)
             s3 == StreetAgain(s2, strength)
             s4 == StreetAgain(s3, strength)
  <1>1. Good(s1) /\ Books(s1) /\ Value(s1) = Value(g)
    BY StreetGood, StreetBooks
  <1>5. completeBettingRound(g, strength) = s4
    BY DEF completeBettingRound
  <1> HIDE DEF s1
  <1>2. Good(s2) /\ Books(s2) /\ Value(s2) = Value(s1)
    BY <1>1, StreetAgainBooks
  <1> HIDE DEF s2
  <1>3. Good(s3) /\ Books(s3) /\ Value(s3) = Value(s2)
    BY <1>2, StreetAgainBooks
  <1> HIDE DEF s3
  <1>4. Good(s4) /\ Books(s4) /\ Value(s4) = Value(s3)
    BY <1>3, StreetAgainBooks
  <1> HIDE DEF s4
  <1> QED BY <1>1, <1>2, <1>3, <1>4, <1>5

(* Resetting the flag of the exception changes nothing an action reads. *)
LEMMA ThrownReset ==
  ASSUME NEW g, Good(g), g.gameRunning, NEW p, NEW a, validateAction(g, p, a)
  PROVE  LET u == [g EXCEPT !.thrown = FALSE]
         IN  /\ TableOK(u) /\ SameBets(g, u) /\ SameMoney(g, u)
             /\ u.currentPhase = g.currentPhase /\ u.gameRunning /\ ~u.thrown
             /\ u.currentPlayerToAct = g.currentPlayerToAct
             /\ u.currentPhase # "HandComplete"
             /\ Fair(u) /\ validateAction(u, p, a)
  <1> DEFINE u == [g EXCEPT !.thrown = FALSE]
  <1>1. /\ TableOK(g) /\ g \in Table /\ Fair(g) /\ g.currentPhase # "HandComplete"
    BY DEF Good, TableOK
  <1>2. /\ TableOK(u) /\ SameBets(g, u) /\ SameMoney(g, u)
        /\ u.currentPhase = g.currentPhase
        /\ u.gameRunning = g.gameRunning /\ ~u.thrown
        /\ u.currentPlayerToAct = g.currentPlayerToAct
        /\ u.minimumRaise = g.minimumRaise
    BY <1>1 DEF TableOK, Table, SameBets, SameMoney
  <1> HIDE DEF u
  <1>3. Fair(u) /\ Seated(u) = Seated(g) /\ getCurrentBet(u) = getCurrentBet(g)
    BY <1>1, <1>2, SameBetsFair
  <1>4. validateAction(u, p, a)
    BY <1>2, <1>3 DEF SameBets, validateAction, canAct, validateCheck,
       validateCall, validateBet, validateRaise, validateAllIn, MaxRaise,
       hasBettingOccurred
  <1> QED BY <1>1, <1>2, <1>3, <1>4 DEF u

(* processAction() keeps the books and every chip. *)
LEMMA ProcessedBooks ==
  ASSUME NEW g, Good(g), g.gameRunning, Books(g), NEW p, NEW a \in BotAction,
         validateAction(g, p, a), NEW strength
  PROVE  LET h == Processed(g, p, a, strength)
         IN  Books(h) /\ Value(h) = Value(g)
  <1> DEFINE u == [g EXCEPT !.thrown = FALSE]
             s == applyAction(u, p, a)
             r == IF isBettingRoundComplete(s) THEN completeBettingRound(s, strength)
                  ELSE s
             h == Processed(g, p, a, strength)
  <1>1. h = IF r.gameRunning /\ ~r.thrown /\ isHandComplete(r)
            THEN determineWinners(r, strength) ELSE r
    BY DEF Processed
  <1>2. /\ TableOK(u) /\ SameMoney(g, u) /\ u.gameRunning
        /\ u.currentPhase # "HandComplete" /\ Fair(u) /\ validateAction(u, p, a)
    BY ThrownReset
  <1>3. u.gameRunning = g.gameRunning
    BY DEF Good, TableOK, Table
  <1> HIDE DEF u
  <1>4. Books(u) /\ Value(u) = Value(g)
    BY <1>2, <1>3, SameMoneyBooks
  <1>5. /\ TableOK(s) /\ Fair(s)
        /\ s.currentPhase # "HandComplete" /\ s.gameRunning
    BY <1>2, ApplyActionFacts
  <1>6. Books(s) /\ Value(s) = Value(u)
    BY <1>2, <1>4, ApplyActionBooks
  <1> HIDE DEF s, h
  <1>7. Good(r) /\ Books(r) /\ Value(r) = Value(g)
    <2>1. CASE isBettingRoundComplete(s)
      <3>1. Closed(s)
        BY <2>1 DEF isBettingRoundComplete, Closed
      <3>2. Good(completeBettingRound(s, strength))
        BY <1>5, <3>1, CompleteBettingRoundGood
      <3>3. /\ Books(completeBettingRound(s, strength))
            /\ Value(completeBettingRound(s, strength)) = Value(s)
        BY <1>5, <1>6, <3>1, CompleteBettingRoundBooks
      <3> QED BY <1>4, <1>6, <2>1, <3>2, <3>3
    <2>2. CASE ~isBettingRoundComplete(s)
      BY <1>4, <1>5, <1>6, <2>2 DEF Good
    <2> QED BY <2>1, <2>2
  <1> HIDE DEF r
  <1>8. CASE r.gameRunning /\ ~r.thrown /\ isHandComplete(r)
    <2>1. TableOK(r) /\ r.currentPhase # "HandComplete"
      BY <1>7, <1>8 DEF Good
    <2> QED BY <1>1, <1>7, <1>8, <2>1, DetermineWinnersBooks DEF h
  <1>9. CASE ~(r.gameRunning /\ ~r.thrown /\ isHandComplete(r))
    BY <1>1, <1>7, <1>9 DEF h
  <1> QED BY <1>8, <1>9

(* Blinds keep the books. *)
LEMMA PostedBooks ==
  ASSUME NEW g, TableOK(g), Books(g), g.gameRunning, NEW h, NEW p \in Seated(g),
         NEW blind, NEW x, Posted(g, h, p, blind, x)
  PROVE  Books(h) /\ Value(h) = Value(g)
  <1>1. /\ TableOK(h) /\ h.gameRunning /\ Staked(g, h, p, x)
        /\ h.pots = addBet(g.pots, p, x) /\ x \in Nat /\ x <= g.chipStack[p]
    BY DEF Posted
  <1> QED BY <1>1, StakedBooks

(* startHand() opens new books, whatever hand it interrupts. *)
LEMMA StartedHandBooks ==
  ASSUME NEW g, TableOK(g), SeatCount(g) >= 2, Books(g)
  PROVE  LET h == StartedHand(g)
         IN  Books(h) /\ h.gameRunning /\ Value(h) = Total(g.chipStack)
  <1> DEFINE h == StartedHand(g)
  <1>1. PICK n, s, t, x, y : \E sb, bb \in Seated(g) :
          /\ TableOK(n) /\ NewHand(g, n) /\ n.gameRunning
          /\ Posted(n, s, sb, SmallBlindAmount, x)
          /\ Posted(s, t, bb, BigBlindAmount, y)
          /\ Dealt(t, h)
    BY StartedHandSteps
  <1>2. PICK sb \in Seated(g), bb \in Seated(g) :
          /\ Posted(n, s, sb, SmallBlindAmount, x)
          /\ Posted(s, t, bb, BigBlindAmount, y)
    BY <1>1
  <1> HIDE DEF h
  <1>3. Seated(n) = Seated(g) /\ Seated(s) = Seated(g)
    BY <1>1, <1>2 DEF NewHand, Seated, Posted, Staked
  <1> DEFINE z == n.totalBetThisHand
             m == MakePot(0, 0, {})
             a == [w \in {m} |-> w.amount]
  <1>4. z \in [Players -> Nat] /\ \A q \in Players : z[q] = 0
    BY <1>1 DEF TableOK, Table, NewHand
  <1>5. Total(z) = 0
    <2> HIDE DEF z
    <2> QED BY <1>4, TotalZero
  <1>6. getTotalPotAmount(n.pots) = 0 /\ LevelsDiffer(n.pots)
    <2>1. n.pots = {m}
      BY <1>1 DEF NewHand, resetPots
    <2>2. a \in [{m} -> Nat] /\ \A w \in {m} : a[w] = 0
      BY DEF MakePot
    <2>3. Total(a) = 0
      <3> HIDE DEF a
      <3> QED BY <2>2, TotalZero
    <2>4. LevelsDiffer(n.pots)
      BY <2>1 DEF LevelsDiffer
    <2> QED BY <2>1, <2>3, <2>4 DEF getTotalPotAmount
  <1>7. Books(n)
    BY <1>1, <1>3, <1>4, <1>5, <1>6 DEF Books, Funded, NewHand
  <1>8. Value(n) = Total(g.chipStack)
    <2>1. g.chipStack \in [Players -> Nat]
      BY DEF TableOK, Table
    <2>2. Total(g.chipStack) \in Nat
      BY <2>1, PlayersAssumption, TotalType
    <2> QED BY <1>1, <1>5, <2>2 DEF Value, NewHand
  <1>9. TableOK(s) /\ s.gameRunning /\ Books(s) /\ Value(s) = Value(n)
    BY <1>1, <1>2, <1>3, <1>7, PostedBooks DEF Posted
  <1>10. t.gameRunning /\ Books(t) /\ Value(t) = Value(s)
    BY <1>2, <1>3, <1>9, PostedBooks DEF Posted
  <1>11. SameMoney(t, h) /\ h.gameRunning = t.gameRunning
    BY <1>1 DEF Dealt
  <1>12. Books(h) /\ Value(h) = Value(t) /\ h.gameRunning
    BY <1>10, <1>11, SameMoneyBooks
  <1> QED BY <1>8, <1>9, <1>10, <1>12 DEF h

(* addPlayer() adds a seat. *)
LEMMA AddPlayerSeats ==
  ASSUME NEW g, TableOK(g), NEW p \in Players, NEW chips
  PROVE  Seated(addPlayer(g, p, chips)) = Seated(g) \cup {p}
  <1> DEFINE s == Append(g.players, p)
             h == addPlayer(g, p, chips)
  <1>1. g.players \in Seq(Players) /\ h.players = s
    BY DEF addPlayer, TableOK, Table
  <1>2. /\ DOMAIN s = 1..(Len(g.players) + 1) /\ Len(g.players) \in Nat
        /\ s[Len(g.players) + 1] = p /\ DOMAIN g.players = 1..Len(g.players)
        /\ \A i \in 1..Len(g.players) : s[i] = g.players[i]
    BY <1>1
  <1> HIDE DEF s, h
  <1>3. \A i \in DOMAIN g.players : i \in DOMAIN s /\ s[i] = g.players[i]
    BY <1>2
  <1>4. Len(g.players) + 1 \in DOMAIN s
    BY <1>2
  <1>5. \A i \in DOMAIN s : i \in DOMAIN g.players \/ i = Len(g.players) + 1
    BY <1>2
  <1>6. Seated(h) = Seated(g) \cup {p}
    BY <1>1, <1>2, <1>3, <1>4, <1>5 DEF Seated
  <1> QED BY <1>6 DEF h

(* A player sits down with his chips. *)
LEMMA AddPlayerBooks ==
  ASSUME NEW g, TableOK(g), Books(g), ~g.gameRunning,
         NEW p \in Players \ Seated(g), NEW chips \in Nat
  PROVE  LET h == addPlayer(g, p, chips)
         IN  Books(h) /\ Value(h) = Value(g) + chips
  <1> DEFINE c == g.chipStack
             d == [c EXCEPT ![p] = chips]
             h == addPlayer(g, p, chips)
  <1>1. c \in [Players -> Nat] /\ g.players \in Seq(Players)
    BY DEF TableOK, Table
  <1>2. d \in [Players -> Nat]
    BY <1>1
  <1>3. /\ h.players = Append(g.players, p) /\ h.chipStack = d
        /\ h.gameRunning = g.gameRunning
    BY DEF addPlayer, TableOK, Table
  <1> HIDE DEF h
  <1>4. Seated(g) \subseteq Seated(h) /\ p \in Seated(h)
    BY AddPlayerSeats DEF h
  <1>5. c[p] = 0
    BY DEF Books
  <1>6. d[p] = c[p] + chips /\ \A q \in Players \ {p} : d[q] = c[q]
    BY <1>1, <1>5
  <1> HIDE DEF d
  <1>7. Total(d) = Total(c) + chips /\ Total(c) \in Nat
    <2>1. p \in Players /\ IsFiniteSet(Players)
      BY PlayersAssumption
    <2>2. c \in [Players -> Nat]
      BY <1>1
    <2> HIDE DEF c
    <2>3. Total(c) \in Nat
      BY <2>1, <2>2, TotalType
    <2>4. Total(d) = Total(c) + chips
      BY <1>2, <1>6, <2>1, <2>2, TotalIncrease
    <2> QED BY <2>3, <2>4
  <1>8. Value(h) = Value(g) + chips
    BY <1>3, <1>7 DEF Value
  <1>9. Books(h)
    BY <1>3, <1>4, <1>6 DEF Books
  <1> QED BY <1>8, <1>9 DEF h

(* A player leaves between two hands, with his chips. *)
LEMMA RemovePlayerBooks ==
  ASSUME NEW g, TableOK(g), Books(g), ~g.gameRunning, NEW p \in Seated(g)
  PROVE  LET h == removePlayers(g, {p})
         IN  Books(h) /\ Value(h) = Value(g) - g.chipStack[p]
  <1> DEFINE c == g.chipStack
             h == removePlayers(g, {p})
             d == h.chipStack
             a == g.chipStack[p]
  <1>1. /\ TableOK(h) /\ Seated(h) = Seated(g) \ {p} /\ ~h.gameRunning
        /\ Left(g, h, {p})
    BY RemovePlayersFacts
  <1>2. p \in Players
    BY SeatFacts
  <1> HIDE DEF h
  <1>3. c \in [Players -> Nat] /\ d \in [Players -> Nat] /\ a \in Nat
    BY <1>1, <1>2 DEF TableOK, Table
  <1>4. d[p] = 0 /\ \A q \in Players \ {p} : c[q] = d[q]
    BY <1>1, <1>2 DEF Left
  <1>5. c[p] = d[p] + a
    BY <1>3, <1>4
  <1>6. Total(c) = Total(d) + a /\ Total(d) \in Nat
    <2> HIDE DEF c, d, a
    <2> QED BY <1>2, <1>3, <1>4, <1>5, PlayersAssumption, TotalIncrease, TotalType
  <1>7. Value(h) = Value(g) - a
    BY <1>1, <1>3, <1>6 DEF Value
  <1>8. Books(h)
    BY <1>1, <1>4 DEF Books
  <1> QED BY <1>7, <1>8 DEF h

(* The books of the table are in order. *)
BInv == IInv /\ Books(game)

(* Without players who leave a running hand every step keeps the books,    *)
(* and without hands that are restarted it accounts for every chip.        *)
LEMMA StepBooks ==
  ASSUME "leave" \notin Liberties, BInv, [Next]_vars
  PROVE  /\ BInv'
         /\ "restart" \notin Liberties =>
              Value(game)' - bankroll' = Value(game) - bankroll
  <1> DEFINE Kept(d) == /\ Books(game)'
                        /\ bankroll' = bankroll + d
                        /\ "restart" \notin Liberties =>
                             Value(game') = Value(game) + d
  <1>1. Good(game) /\ TableOK(game) /\ bankroll \in Int /\ Books(game)
    BY DEF BInv, IInv, Good
  <1>2. Value(game) \in Int
    <2>1. game.chipStack \in [Players -> Nat] /\ game.totalBetThisHand \in [Players -> Nat]
      BY <1>1 DEF TableOK, Table
    <2>2. Total(game.chipStack) \in Nat /\ Total(game.totalBetThisHand) \in Nat
      BY <2>1, PlayersAssumption, TotalType
    <2> QED BY <2>2 DEF Value
  <1>3. IInv'
    BY StepGood DEF BInv
  <1>4. ASSUME NEW p \in Players, NEW chips \in BuyIns, AddPlayer(p, chips)
        PROVE  \E d \in Int : Kept(d)
    <2>1. chips \in Nat
      BY EngineAssumption
    <2>2. Books(game') /\ Value(game') = Value(game) + chips
      BY <1>1, <1>4, <2>1, AddPlayerBooks DEF AddPlayer
    <2>3. Kept(chips)
      BY <1>4, <2>2 DEF AddPlayer
    <2> QED BY <2>1, <2>3
  <1>5. ASSUME NEW p \in Players, RemovePlayer(p) PROVE \E d \in Int : Kept(d)
    <2> DEFINE a == game.chipStack[p]
    <2>1. a \in Nat
      BY <1>1 DEF TableOK, Table
    <2>2. p \in Seated(game) /\ ~game.gameRunning /\ game' = removePlayers(game, {p})
      BY <1>5 DEF RemovePlayer
    <2>3. Books(game') /\ Value(game') = Value(game) - a
      BY <1>1, <2>2, RemovePlayerBooks
    <2>4. bankroll' = bankroll + (-a) /\ Value(game') = Value(game) + (-a) /\ -a \in Int
      BY <1>1, <1>2, <1>5, <2>1, <2>3 DEF RemovePlayer
    <2> QED BY <2>3, <2>4
  <1>6. ASSUME StartHand PROVE Kept(0)
    <2>1. Books(game') /\ Value(game') = Total(game.chipStack)
      BY <1>1, <1>6, StartedHandBooks DEF StartHand
    <2>2. bankroll' = bankroll + 0
      BY <1>1, <1>6 DEF StartHand
    <2>3. ASSUME "restart" \notin Liberties PROVE Value(game') = Value(game) + 0
      <3>1. ~game.gameRunning
        BY <1>6, <2>3 DEF StartHand
      <3>2. Total(game.chipStack) \in Nat
        BY <1>1, PlayersAssumption, TotalType DEF TableOK, Table
      <3> QED BY <2>1, <3>1, <3>2 DEF Value
    <2> QED BY <2>1, <2>2, <2>3
  <1>7. ASSUME NEW p \in Players, ProcessAction(p) \/ ForcePlayerAction(p)
        PROVE  Kept(0)
    <2>1. PICK a, strength : Played(p, a, strength)
      BY <1>1, <1>7, PlayedSteps
    <2>2. Books(game') /\ Value(game') = Value(game)
      BY <1>1, <2>1, ProcessedBooks DEF Played
    <2> QED BY <1>1, <1>2, <2>1, <2>2 DEF Played
  <1>8. ASSUME UNCHANGED vars PROVE Kept(0)
    BY <1>1, <1>2, <1>8 DEF vars
  <1>9. PICK d \in Int : Kept(d)
    <2> HIDE DEF Kept
    <2>1. 0 \in Int
      OBVIOUS
    <2> QED BY <2>1, <1>4, <1>5, <1>6, <1>7, <1>8 DEF Next, TurnTimer
  <1>10. BInv'
    BY <1>3, <1>9 DEF BInv
  <1> QED BY <1>1, <1>2, <1>9, <1>10

(* An empty table has its books in order. *)
LEMMA InitBooks ==
  Init => BInv /\ Value(game) = bankroll
  <1> SUFFICES ASSUME Init PROVE BInv /\ Value(game) = bankroll
    OBVIOUS
  <1>1. IInv
    BY InitGood
  <1> DEFINE z == [p \in Players |-> 0]
  <1>2. game.chipStack = z /\ ~game.gameRunning /\ bankroll = 0
    BY DEF Init, EmptyTable
  <1>3. z \in [Players -> Nat] /\ \A p \in Players : z[p] = 0
    OBVIOUS
  <1> HIDE DEF z
  <1>4. Total(z) = 0
    BY <1>3, TotalZero
  <1> QED BY <1>1, <1>2, <1>3, <1>4 DEF BInv, Books, Value

(* The rebuilding of the pots loses nothing, on any street of any hand, as *)
(* long as nobody leaves a running hand: removePlayer() drops the counter  *)
(* of the leaver's bets, which the rebuilding needs.                       *)
THEOREM PotsAreFunded ==
  ASSUME "leave" \notin Liberties
  PROVE  Spec => []PotsHoldTheBets
  <1>1. Init => BInv
    BY InitBooks
  <1>2. BInv /\ [Next]_vars => BInv'
    BY StepBooks
  <1>3. BInv => PotsHoldTheBets
    BY DEF BInv, Books, Funded, PotsHoldTheBets
  <1> QED BY <1>1, <1>2, <1>3, PTL DEF Spec

(* No chip is made or lost, whatever the bots send, as long as nobody      *)
(* leaves a running hand and no running hand is restarted.                 *)
THEOREM ChipsAreConserved ==
  ASSUME Liberties \cap {"leave", "restart"} = {}
  PROVE  Spec => []ChipConservation
  <1> DEFINE CInv == BInv /\ Value(game) = bankroll
  <1>1. "leave" \notin Liberties /\ "restart" \notin Liberties
    OBVIOUS
  <1>2. Init => CInv
    BY InitBooks
  <1>3. CInv /\ [Next]_vars => CInv'
    <2> SUFFICES ASSUME CInv, [Next]_vars PROVE CInv'
      OBVIOUS
    <2>1. BInv' /\ Value(game)' - bankroll' = Value(game) - bankroll
      BY <1>1, StepBooks
    <2>2. bankroll \in Int /\ bankroll' \in Int /\ Value(game)' \in Int
      <3>1. (game.chipStack \in [Players -> Nat] /\ game.totalBetThisHand \in [Players -> Nat])'
        BY <2>1 DEF BInv, IInv, Good, TableOK, Table
      <3>2. (Total(game.chipStack) \in Nat /\ Total(game.totalBetThisHand) \in Nat)'
        BY <3>1, PlayersAssumption, TotalType
      <3> QED BY <2>1, <3>2 DEF BInv, IInv, Value
    <2> QED BY <2>1, <2>2
  <1>4. CInv => ChipConservation
    BY DEF BInv, Books, Funded, Value, ChipConservation
  <1> QED BY <1>2, <1>3, <1>4, PTL DEF Spec

-----------------------------------------------------------------------------
(* The turn *)

(* The turn of a running hand is with somebody who can act. *)
TurnInv == IInv /\ (game.gameRunning => Turn(game))

(* One street gives the turn to somebody, or the hand is over. *)
LEMMA StreetTurn ==
  ASSUME NEW g, TableOK(g), g.currentPhase # "HandComplete", Turn(g), NEW strength
  PROVE  LET h == Street(g, strength) IN h.gameRunning => Turn(h)
  <1> DEFINE s == createSidePotsOf(g)
             h == Street(g, strength)
             a == advancePhase(s)
             t == [s EXCEPT !.thrown = TRUE]
  <1>1. /\ TableOK(s) /\ SameBets(g, s) /\ s.currentPhase = g.currentPhase
        /\ s.currentPlayerToAct = g.currentPlayerToAct
    BY CreateSidePotsFacts
  <1>2. h = CASE s.currentPhase \in {"PreFlop", "Flop", "Turn"} -> a
              [] s.currentPhase = "River" -> determineWinners(a, strength)
              [] OTHER -> t
    BY DEF Street, startShowdown
  <1> HIDE DEF s, h
  <1>3. TableOK(a) /\ Turn(a) /\ a.currentPhase = NextPhase[s.currentPhase]
    BY <1>1, AdvancePhaseFacts
  <1>4. CASE s.currentPhase = "River"
    <2> DEFINE w == determineWinners(a, strength)
    <2>1. a.currentPhase # "HandComplete"
      BY <1>3, <1>4 DEF NextPhase
    <2> HIDE DEF a
    <2>2. \/ ~w.gameRunning
          \/ SameBets(a, w) /\ w.currentPlayerToAct = a.currentPlayerToAct
      BY <1>3, <2>1, DetermineWinnersFacts DEF Over
    <2> HIDE DEF w
    <2>3. w.gameRunning => Turn(w)
      BY <1>3, <2>2, SameBetsFair DEF Turn
    <2> QED BY <1>2, <1>4, <2>3 DEF h, w
  <1>5. CASE s.currentPhase \in {"PreFlop", "Flop", "Turn"}
    BY <1>2, <1>3, <1>5 DEF h
  <1>6. CASE s.currentPhase \notin {"PreFlop", "Flop", "Turn", "River"}
    <2>1. SameBets(s, t) /\ t.currentPlayerToAct = s.currentPlayerToAct
      BY <1>1 DEF TableOK, Table, SameBets
    <2>2. h = t
      BY <1>2, <1>6
    <2> HIDE DEF t
    <2>3. Turn(h)
      BY <1>1, <2>1, <2>2, SameBetsFair DEF Turn
    <2> QED BY <2>3 DEF h
  <1> QED BY <1>4, <1>5, <1>6

(* So does the loop over the streets. *)
LEMMA StreetAgainTurn ==
  ASSUME NEW g, Good(g), g.gameRunning => Turn(g), NEW strength
  PROVE  LET h == StreetAgain(g, strength)
         IN  Good(h) /\ (h.gameRunning => Turn(h))
  <1> DEFINE h == StreetAgain(g, strength)
             again == /\ g.gameRunning /\ ~g.thrown
                      /\ PlayersWhoCanAct(g) = {} /\ ~isHandComplete(g)
  <1>1. Good(h)
    BY StreetAgainGood
  <1>2. IF again THEN h = Street(g, strength) ELSE h = g
    BY DEF StreetAgain
  <1> HIDE DEF h
  <1>3. CASE again
    <2>1. TableOK(g) /\ g.currentPhase # "HandComplete" /\ Turn(g)
      BY <1>3 DEF Good
    <2> QED BY <1>1, <1>2, <1>3, <2>1, StreetTurn DEF h
  <1>4. CASE ~again
    BY <1>1, <1>2, <1>4 DEF h
  <1> QED BY <1>3, <1>4

(* After an accepted action the turn is with somebody who can act. *)
LEMMA ProcessedTurn ==
  ASSUME NEW g, Good(g), g.gameRunning, NEW p, NEW a \in BotAction,
         validateAction(g, p, a), NEW strength
  PROVE  LET h == Processed(g, p, a, strength) IN h.gameRunning => Turn(h)
  <1> DEFINE u == [g EXCEPT !.thrown = FALSE]
             s == applyAction(u, p, a)
             s1 == Street(s, strength)
             s2 == StreetAgain(s1, strength)
             s3 == StreetAgain(s2, strength)
             s4 == StreetAgain(s3, strength)
             r == IF isBettingRoundComplete(s) THEN completeBettingRound(s, strength)
                  ELSE s
             h == Processed(g, p, a, strength)
  <1>1. h = IF r.gameRunning /\ ~r.thrown /\ isHandComplete(r)
            THEN determineWinners(r, strength) ELSE r
    BY DEF Processed
  <1>2. /\ TableOK(u) /\ u.gameRunning /\ u.currentPhase # "HandComplete"
        /\ Fair(u) /\ validateAction(u, p, a)
    BY ThrownReset
  <1> HIDE DEF u
  <1>3. /\ TableOK(s) /\ Fair(s) /\ s.currentPhase # "HandComplete" /\ s.gameRunning
        /\ Turn(s)
    BY <1>2, ApplyActionFacts
  <1> HIDE DEF s, h
  <1>4. Good(r) /\ (r.gameRunning => Turn(r))
    <2>1. CASE isBettingRoundComplete(s)
      <3>1. r = s4
        BY <2>1 DEF completeBettingRound
      <3>2. Closed(s)
        BY <2>1 DEF isBettingRoundComplete, Closed
      <3>3. Good(s1) /\ (s1.gameRunning => Turn(s1))
        BY <1>3, <3>2, StreetGood, StreetTurn
      <3> HIDE DEF s1, r
      <3>4. Good(s2) /\ (s2.gameRunning => Turn(s2))
        BY <3>3, StreetAgainTurn
      <3> HIDE DEF s2
      <3>5. Good(s3) /\ (s3.gameRunning => Turn(s3))
        BY <3>4, StreetAgainTurn
      <3> HIDE DEF s3
      <3>6. Good(s4) /\ (s4.gameRunning => Turn(s4))
        BY <3>5, StreetAgainTurn
      <3> HIDE DEF s4
      <3> QED BY <3>1, <3>6
    <2>2. CASE ~isBettingRoundComplete(s)
      BY <1>3, <2>2 DEF Good
    <2> QED BY <2>1, <2>2
  <1> HIDE DEF r
  <1>5. CASE r.gameRunning /\ ~r.thrown /\ isHandComplete(r)
    <2> DEFINE w == determineWinners(r, strength)
    <2>1. TableOK(r) /\ r.currentPhase # "HandComplete" /\ Turn(r)
      BY <1>4, <1>5 DEF Good
    <2>2. \/ ~w.gameRunning
          \/ SameBets(r, w) /\ w.currentPlayerToAct = r.currentPlayerToAct
      BY <2>1, DetermineWinnersFacts DEF Over
    <2> HIDE DEF w
    <2>3. w.gameRunning => Turn(w)
      BY <2>1, <2>2, SameBetsFair DEF Turn
    <2> QED BY <1>1, <1>5, <2>3 DEF h, w
  <1>6. CASE ~(r.gameRunning /\ ~r.thrown /\ isHandComplete(r))
    BY <1>1, <1>4, <1>6 DEF h
  <1> QED BY <1>5, <1>6

(* Who can act is offered something, and every action and amount that is   *)
(* offered is accepted.                                                    *)
LEMMA OfferedIsAccepted ==
  ASSUME NEW g, TableOK(g), NEW p \in PlayersWhoCanAct(g), g.currentPlayerToAct = p
  PROVE  /\ getPossibleActions(g, p) # {}
         /\ \A a \in getPossibleActions(g, p) : validateAction(g, p, a)
  <1> DEFINE cb == getCurrentBet(g)
             callAmount == getCallAmount(g, p)
             S == {cb + g.minimumRaise, MaxRaise(g, p)}
             Offer(type, M) == {Act(type, n) : n \in M}
             canRaise == \/ /\ cb > g.currentBet[p]
                            /\ g.lastRaiseAmount >= g.minimumRaise
                         \/ /\ cb = g.currentBet[p]
                            /\ g.currentBet[p] = BigBlindAmount
                            /\ ~g.hasActed[p]
  <1>1. /\ p \in Seated(g) /\ p \in Players /\ canAct(g, p) /\ p \in PlayersInHand(g)
    BY SeatFacts DEF PlayersWhoCanAct, PlayersInHand, canAct
  <1>2. /\ g.currentBet[p] \in Nat /\ cb \in Nat /\ callAmount \in Nat
        /\ g.currentBet[p] + callAmount = cb
    BY <1>1, CallAmountFacts
  <1>3. g.chipStack[p] \in Nat /\ g.minimumRaise \in Nat /\ BigBlindAmount \in Nat
    BY <1>1, BlindsAssumption DEF TableOK, Table
  <1>4. MaxRaise(g, p) \in Nat
    BY <1>2, <1>3 DEF MaxRaise
  <1>5. Min(S) \in Nat /\ (Min(S) = cb + g.minimumRaise \/ Min(S) = MaxRaise(g, p))
    <2>1. S \in SUBSET Nat /\ S # {}
      BY <1>2, <1>3, <1>4
    <2>2. Min(S) \in S
      <3> HIDE DEF S
      <3> QED BY <2>1, MinNatural
    <2> QED BY <2>1, <2>2
  <1>6. ASSUME NEW a, \A t \in ActionType : a.type = t =>
                 CASE t = "fold"  -> TRUE
                   [] t = "check" -> validateCheck(g, p)
                   [] t = "call"  -> validateCall(g, p)
                   [] t = "bet"   -> validateBet(g, p, a.amount)
                   [] t = "raise" -> validateRaise(g, p, a.amount)
                   [] t = "allin" -> validateAllIn(g, p),
               a.type \in ActionType
        PROVE  validateAction(g, p, a)
    BY <1>1, <1>6 DEF validateAction, ActionType
  <1>7. \A type, n : Act(type, n).type = type /\ Act(type, n).amount = n
    BY DEF Act
  <1>8. \A a \in getPossibleActions(g, p) :
          \/ a \in Offer("fold", {0})
          \/ a \in Offer("check", {0}) /\ callAmount = 0
          \/ a \in Offer("call", {0}) /\ callAmount > 0 /\ callAmount <= g.chipStack[p]
          \/ /\ a \in Offer("bet", BigBlindAmount..g.chipStack[p])
             /\ cb = 0 /\ ~hasBettingOccurred(g)
          \/ a \in Offer("raise", Min(S)..MaxRaise(g, p)) /\ cb > 0
          \/ a \in Offer("allin", {0})
    BY ZenonT(60) DEF getPossibleActions
  <1>9. ASSUME NEW a \in getPossibleActions(g, p) PROVE validateAction(g, p, a)
    <2> HIDE DEF Offer, cb, callAmount, S
    <2>1. CASE a \in Offer("fold", {0})
      BY <1>6, <1>7, <2>1 DEF Offer, ActionType
    <2>2. CASE a \in Offer("check", {0}) /\ callAmount = 0
      <3>1. validateCheck(g, p)
        BY <1>2, <2>2 DEF validateCheck, cb
      <3> QED BY <1>6, <1>7, <2>2, <3>1 DEF Offer, ActionType
    <2>3. CASE a \in Offer("call", {0}) /\ callAmount > 0 /\ callAmount <= g.chipStack[p]
      <3>1. validateCall(g, p)
        BY <1>2, <2>3 DEF validateCall, cb
      <3> QED BY <1>6, <1>7, <2>3, <3>1 DEF Offer, ActionType
    <2>4. CASE /\ a \in Offer("bet", BigBlindAmount..g.chipStack[p])
               /\ cb = 0 /\ ~hasBettingOccurred(g)
      <3>1. PICK n \in BigBlindAmount..g.chipStack[p] : a = Act("bet", n)
        BY <2>4 DEF Offer
      <3>2. validateBet(g, p, n)
        BY <1>3, <2>4 DEF validateBet, cb
      <3> QED BY <1>6, <1>7, <3>1, <3>2 DEF ActionType
    <2>5. CASE a \in Offer("raise", Min(S)..MaxRaise(g, p)) /\ cb > 0
      <3>1. PICK n \in Min(S)..MaxRaise(g, p) : a = Act("raise", n)
        BY <2>5 DEF Offer
      <3>2. validateRaise(g, p, n)
        BY <1>2, <1>3, <1>4, <1>5, <2>5 DEF validateRaise, cb
      <3> QED BY <1>6, <1>7, <3>1, <3>2 DEF ActionType
    <2>6. CASE a \in Offer("allin", {0})
      <3>1. validateAllIn(g, p)
        BY <1>1, <1>3 DEF validateAllIn, canAct
      <3> QED BY <1>6, <1>7, <2>6, <3>1 DEF Offer, ActionType
    <2> QED BY <1>8, <2>1, <2>2, <2>3, <2>4, <2>5, <2>6
  <1>10. Act("allin", 0) \in getPossibleActions(g, p)
    BY <1>1, Zenon DEF getPossibleActions
  <1> QED BY <1>9, <1>10

(* Without players who leave a running hand every step keeps the turn with *)
(* somebody who can act.                                                   *)
LEMMA StepTurn ==
  ASSUME "leave" \notin Liberties, TurnInv, [Next]_vars
  PROVE  TurnInv'
  <1>1. IInv /\ Good(game) /\ TableOK(game)
    BY DEF TurnInv, IInv, Good
  <1>2. IInv'
    BY <1>1, StepGood
  <1> SUFFICES game'.gameRunning => Turn(game')
    BY <1>2 DEF TurnInv
  <1>3. ASSUME NEW p \in Players, NEW chips \in BuyIns, AddPlayer(p, chips)
        PROVE  ~game'.gameRunning
    <2>1. chips \in Nat
      BY EngineAssumption
    <2> QED BY <1>1, <1>3, <2>1, AddPlayerGood DEF AddPlayer
  <1>4. ASSUME NEW p \in Players, RemovePlayer(p) PROVE ~game'.gameRunning
    BY <1>1, <1>4, RemovePlayersFacts DEF RemovePlayer
  <1>5. ASSUME StartHand PROVE Turn(game')
    <2> DEFINE h == StartedHand(game)
    <2>1. game' = h /\ SeatCount(game) >= 2
      BY <1>5 DEF StartHand
    <2>2. \E t : Dealt(t, h)
      BY <1>1, <2>1, StartedHandSteps
    <2> HIDE DEF h
    <2> QED BY <2>1, <2>2 DEF Dealt
  <1>6. ASSUME NEW p \in Players, ProcessAction(p) \/ ForcePlayerAction(p)
        PROVE  game'.gameRunning => Turn(game')
    <2>1. PICK a, strength : Played(p, a, strength)
      BY <1>1, <1>6, PlayedSteps
    <2> QED BY <1>1, <2>1, ProcessedTurn DEF Played
  <1>7. ASSUME UNCHANGED vars PROVE game'.gameRunning => Turn(game')
    BY <1>7 DEF vars, TurnInv
  <1> QED BY <1>3, <1>4, <1>5, <1>6, <1>7 DEF Next, TurnTimer

(* The bot whose turn it is gets an offer, and every action and amount of  *)
(* it passes the validation, as long as nobody leaves a running hand.      *)
THEOREM OffersAreAccepted ==
  ASSUME "leave" \notin Liberties
  PROVE  Spec => []OffersAccepted
  <1>1. Init => TurnInv
    BY InitGood DEF Init, EmptyTable, TurnInv
  <1>2. TurnInv /\ [Next]_vars => TurnInv'
    BY StepTurn
  <1>3. TurnInv => OffersAccepted
    <2> SUFFICES ASSUME TurnInv, game.gameRunning, game.currentPlayerToAct # NoPlayer
                 PROVE  LET p == game.currentPlayerToAct
                        IN  /\ getPossibleActions(game, p) # {}
                            /\ \A a \in getPossibleActions(game, p) :
                                 validateAction(game, p, a)
      BY DEF OffersAccepted
    <2>1. TableOK(game) /\ game.currentPlayerToAct \in PlayersWhoCanAct(game)
      BY DEF TurnInv, IInv, Good, Turn
    <2> QED BY <2>1, OfferedIsAccepted
  <1> QED BY <1>1, <1>2, <1>3, PTL DEF Spec

-----------------------------------------------------------------------------
(* A hand goes on until somebody wins *)

(* Somebody in the hand covers what any player at the table has put in. *)
Covered(g) ==
  /\ PlayersInHand(g) # {}
  /\ \A q \in Seated(g) : \E p \in PlayersInHand(g) :
       g.totalBetThisHand[p] >= g.totalBetThisHand[q]

(* Who has a bet in the round has paid for the closed streets. *)
Bettors(g) ==
  \A p, q \in PlayersInHand(g) :
    g.currentBet[p] > 0 => PaidBefore(g, p) >= PaidBefore(g, q)

(* A hand that goes on is on a street with cards to come or in sight, and  *)
(* every pot of it will have a winner.                                     *)
Playing(g) ==
  /\ ~g.thrown
  /\ g.gameRunning => g.currentPhase \in Betting /\ Covered(g) /\ Bettors(g)

(* The hands of the players in the hand can be compared. *)
Ranked(g, strength) == \A p \in PlayersInHand(g) : strength[p] \in Int

(* A player whose bets are covered by somebody else may fold. *)
LEMMA FoldPlaying ==
  ASSUME NEW g, TableOK(g), Covered(g), Bettors(g), NEW p \in PlayersInHand(g),
         getCallAmount(g, p) > 0, NEW h,
         h.players = g.players, h.currentBet = g.currentBet,
         h.totalBetThisHand = g.totalBetThisHand,
         h.isFolded = [g.isFolded EXCEPT ![p] = TRUE]
  PROVE  Covered(h) /\ Bettors(h)
  <1>1. /\ Seated(g) \subseteq Players /\ Seated(h) = Seated(g)
        /\ p \in Seated(g) /\ PlayersInHand(g) \subseteq Seated(g)
    <2>1. Seated(h) = Seated(g)
      BY DEF Seated
    <2> QED BY <2>1, SeatFacts DEF PlayersInHand
  <1>2. /\ g.isFolded \in [Players -> BOOLEAN] /\ g.currentBet \in [Players -> Nat]
        /\ g.totalBetThisHand \in [Players -> Nat]
    BY DEF TableOK, Table
  <1>3. PlayersInHand(h) = PlayersInHand(g) \ {p}
    BY <1>1, <1>2 DEF PlayersInHand
  <1>4. /\ g.currentBet[p] \in Nat /\ getCurrentBet(g) \in Nat
        /\ getCallAmount(g, p) \in Nat
        /\ g.currentBet[p] + getCallAmount(g, p) = getCurrentBet(g)
    BY CallAmountFacts
  <1>5. PICK r \in PlayersInHand(g) : g.currentBet[r] = getCurrentBet(g)
    BY <1>4, CurrentBetFacts
  <1>6. r # p /\ g.currentBet[r] > 0 /\ g.currentBet[r] > g.currentBet[p]
    BY <1>4, <1>5
  <1>7. PaidBefore(g, r) >= PaidBefore(g, p)
    BY <1>6 DEF Bettors
  <1>8. g.totalBetThisHand[r] >= g.totalBetThisHand[p]
    <2>1. /\ g.totalBetThisHand[r] \in Nat /\ g.totalBetThisHand[p] \in Nat
          /\ g.currentBet[r] \in Nat /\ g.currentBet[p] \in Nat
      BY <1>1, <1>2
    <2> QED BY <1>6, <1>7, <2>1 DEF PaidBefore
  <1>9. ASSUME NEW q \in Seated(g)
        PROVE  \E x \in PlayersInHand(h) : h.totalBetThisHand[x] >= h.totalBetThisHand[q]
    <2>1. PICK x \in PlayersInHand(g) : g.totalBetThisHand[x] >= g.totalBetThisHand[q]
      BY DEF Covered
    <2>2. CASE x # p
      BY <1>3, <2>1, <2>2
    <2>3. CASE x = p
      <3>1. /\ g.totalBetThisHand[r] \in Nat /\ g.totalBetThisHand[p] \in Nat
            /\ g.totalBetThisHand[q] \in Nat
        BY <1>1, <1>2
      <3>2. g.totalBetThisHand[r] >= g.totalBetThisHand[q]
        BY <1>8, <2>1, <2>3, <3>1
      <3> QED BY <1>3, <1>6, <3>2
    <2> QED BY <2>2, <2>3
  <1>10. Covered(h)
    BY <1>1, <1>3, <1>5, <1>6, <1>9 DEF Covered
  <1>11. Bettors(h)
    BY <1>3 DEF Bettors, PaidBefore
  <1> QED BY <1>10, <1>11

(* Whoever puts in more covers himself, and has paid for the closed streets. *)
LEMMA StakedPlaying ==
  ASSUME NEW g, TableOK(g), Even(g), Covered(g), Bettors(g),
         NEW p \in PlayersWhoCanAct(g), NEW a \in Nat, NEW h, Staked(g, h, p, a)
  PROVE  Covered(h) /\ Bettors(h)
  <1>1. /\ Seated(g) \subseteq Players /\ Seated(h) = Seated(g)
        /\ PlayersInHand(h) = PlayersInHand(g)
        /\ p \in PlayersInHand(g) /\ PlayersInHand(g) \subseteq Seated(g)
    <2>1. Seated(h) = Seated(g) /\ h.isFolded = g.isFolded
      BY DEF Seated, Staked
    <2> QED BY <2>1, SeatFacts DEF PlayersInHand, PlayersWhoCanAct, canAct
  <1>2. /\ g.currentBet \in [Players -> Nat] /\ g.totalBetThisHand \in [Players -> Nat]
    BY DEF TableOK, Table
  <1>3. /\ h.currentBet = [g.currentBet EXCEPT ![p] = @ + a]
        /\ h.totalBetThisHand = [g.totalBetThisHand EXCEPT ![p] = @ + a]
    BY DEF Staked
  <1>4. \A q \in Players \ {p} : /\ h.currentBet[q] = g.currentBet[q]
                                 /\ h.totalBetThisHand[q] = g.totalBetThisHand[q]
    BY <1>2, <1>3
  <1>5. /\ h.currentBet[p] = g.currentBet[p] + a
        /\ h.totalBetThisHand[p] = g.totalBetThisHand[p] + a
        /\ g.totalBetThisHand[p] \in Nat /\ g.currentBet[p] \in Nat
    BY <1>1, <1>2, <1>3
  <1>6. ASSUME NEW q \in Seated(g)
        PROVE  \E x \in PlayersInHand(g) : h.totalBetThisHand[x] >= h.totalBetThisHand[q]
    <2>1. h.totalBetThisHand[p] \in Nat /\ h.totalBetThisHand[p] >= h.totalBetThisHand[p]
      BY <1>5
    <2>2. PICK x \in PlayersInHand(g) : g.totalBetThisHand[x] >= g.totalBetThisHand[q]
      BY DEF Covered
    <2>3. CASE q = p
      BY <1>1, <2>1, <2>3
    <2>4. CASE q # p
      <3>1. g.totalBetThisHand[x] \in Nat /\ g.totalBetThisHand[q] \in Nat
        BY <1>1, <1>2
      <3>2. h.totalBetThisHand[x] >= g.totalBetThisHand[x]
        BY <1>1, <1>4, <1>5, <3>1
      <3>3. h.totalBetThisHand[x] \in Nat
        BY <1>1, <1>4, <1>5, <3>1
      <3>4. h.totalBetThisHand[q] = g.totalBetThisHand[q]
        BY <1>1, <1>4, <2>4
      <3>5. h.totalBetThisHand[x] >= h.totalBetThisHand[q]
        BY <2>2, <3>1, <3>2, <3>3, <3>4
      <3> QED BY <3>5
    <2> QED BY <2>3, <2>4
  <1>7. \A q \in Players : PaidBefore(h, q) = PaidBefore(g, q)
    <2>1. PaidBefore(h, p) = PaidBefore(g, p)
      BY <1>5 DEF PaidBefore
    <2> QED BY <1>4, <2>1 DEF PaidBefore
  <1>8. ASSUME NEW x \in PlayersInHand(h), NEW y \in PlayersInHand(h),
               h.currentBet[x] > 0
        PROVE  PaidBefore(h, x) >= PaidBefore(h, y)
    <2>1. x \in Players /\ y \in Players
      BY <1>1
    <2>2. PaidBefore(g, x) >= PaidBefore(g, y)
      <3>1. CASE x = p
        BY <1>1, <3>1 DEF Even
      <3>2. CASE x # p
        BY <1>1, <1>4, <1>8, <2>1, <3>2 DEF Bettors
      <3> QED BY <3>1, <3>2
    <2> QED BY <1>7, <2>1, <2>2
  <1> QED BY <1>1, <1>5, <1>6, <1>8 DEF Covered, Bettors

(* The invariant reads seats, bets and folds. *)
LEMMA SameBetsPlaying ==
  ASSUME NEW g, NEW h, h.players = g.players, h.isFolded = g.isFolded,
         h.totalBetThisHand = g.totalBetThisHand, h.currentBet = g.currentBet
  PROVE  (Covered(g) => Covered(h)) /\ (Bettors(g) => Bettors(h))
  <1>1. Seated(h) = Seated(g) /\ PlayersInHand(h) = PlayersInHand(g)
    BY DEF Seated, PlayersInHand
  <1> QED BY <1>1 DEF Covered, Bettors, PaidBefore

(* Nobody comes into a hand by an action. *)
LEMMA ApplyActionInHand ==
  ASSUME NEW g, TableOK(g), NEW p, NEW a \in BotAction, validateAction(g, p, a)
  PROVE  PlayersInHand(applyAction(g, p, a)) \subseteq PlayersInHand(g)
  <1>1. p \in PlayersWhoCanAct(g) /\ p \in PlayersInHand(g) /\ p \in Players
    BY AcceptedActions
  <1>2. PICK h : Answer(g, h, p, a) /\ applyAction(g, p, a) = setNextPlayerToAct(h)
    BY AcceptedActions
  <1>3. TableOK(h) /\ PlayersInHand(h) \subseteq PlayersInHand(g)
    <2>1. CASE h = fold(g, p)
      <3>1. /\ TableOK(h) /\ h.players = g.players
            /\ h.isFolded = [g.isFolded EXCEPT ![p] = TRUE]
        BY <1>1, <2>1, FoldFacts DEF SameMoney
      <3>2. Seated(h) = Seated(g)
        BY <3>1 DEF Seated
      <3>4. Seated(g) \subseteq Players
        BY SeatFacts
      <3>3. g.isFolded \in [Players -> BOOLEAN]
        BY DEF TableOK, Table
      <3> QED BY <3>1, <3>2, <3>3, <3>4 DEF PlayersInHand
    <2>2. CASE validateCheck(g, p) /\ h = check(g, p)
      <3>1. TableOK(h) /\ h.players = g.players /\ h.isFolded = g.isFolded
        BY <1>1, <2>2, CheckFacts DEF SameMoney
      <3> QED BY <3>1 DEF PlayersInHand, Seated
    <2>3. ASSUME NEW n \in Nat, h = processBet(g, p, n)
          PROVE  TableOK(h) /\ PlayersInHand(h) \subseteq PlayersInHand(g)
      <3>1. TableOK(h) /\ h.players = g.players /\ h.isFolded = g.isFolded
        <4>1. TableOK(h) /\ AfterBet(g, h, p, n)
          BY <1>1, <2>3, ProcessBetFacts
        <4> QED BY <4>1 DEF AfterBet, Staked
      <3> QED BY <3>1 DEF PlayersInHand, Seated
    <2> QED BY <1>2, <2>1, <2>2, <2>3 DEF Answer
  <1>4. SameBets(h, setNextPlayerToAct(h))
    BY <1>3, SetNextFacts
  <1>5. PlayersInHand(setNextPlayerToAct(h)) = PlayersInHand(h)
    BY <1>4, SameBetsFair
  <1> QED BY <1>2, <1>3, <1>5

(* Every accepted action but an idle fold keeps the pots covered. *)
LEMMA ApplyActionPlaying ==
  ASSUME NEW g, TableOK(g), Fair(g), Covered(g), Bettors(g),
         NEW p, NEW a \in BotAction, validateAction(g, p, a),
         a.type = "fold" => getCallAmount(g, p) > 0
  PROVE  LET h == applyAction(g, p, a) IN Covered(h) /\ Bettors(h)
  <1>1. p \in PlayersWhoCanAct(g) /\ p \in PlayersInHand(g) /\ p \in Players
    BY AcceptedActions
  <1>2. PICK h : Answer(g, h, p, a) /\ applyAction(g, p, a) = setNextPlayerToAct(h)
    BY AcceptedActions
  <1>3. TableOK(h) /\ Covered(h) /\ Bettors(h)
    <2>1. CASE a.type = "fold" /\ h = fold(g, p)
      <3>1. /\ TableOK(h) /\ SameMoney(g, h) /\ h.currentBet = g.currentBet
            /\ h.isFolded = [g.isFolded EXCEPT ![p] = TRUE]
        BY <1>1, <2>1, FoldFacts
      <3> QED BY <1>1, <2>1, <3>1, FoldPlaying DEF SameMoney
    <2>2. CASE validateCheck(g, p) /\ h = check(g, p)
      <3>1. /\ TableOK(h) /\ SameMoney(g, h) /\ h.currentBet = g.currentBet
            /\ h.isFolded = g.isFolded
        BY <1>1, <2>2, CheckFacts
      <3> QED BY <3>1, SameBetsPlaying DEF SameMoney
    <2>3. ASSUME NEW n \in Nat, n <= g.chipStack[p], h = processBet(g, p, n)
          PROVE  TableOK(h) /\ Covered(h) /\ Bettors(h)
      <3>1. TableOK(h) /\ AfterBet(g, h, p, n)
        BY <1>1, <2>3, ProcessBetFacts
      <3>2. ~(n > g.chipStack[p])
        BY <1>1, <2>3 DEF TableOK, Table
      <3>3. Staked(g, h, p, n)
        BY <3>1, <3>2 DEF AfterBet
      <3> QED BY <1>1, <3>1, <3>3, StakedPlaying DEF Fair
    <2> QED BY <1>2, <2>1, <2>2, <2>3 DEF Answer
  <1> DEFINE n == setNextPlayerToAct(h)
  <1>4. SameBets(h, n)
    BY <1>3, SetNextFacts
  <1> HIDE DEF n
  <1>5. Covered(n) /\ Bettors(n)
    BY <1>3, <1>4, SameBetsPlaying DEF SameBets
  <1> QED BY <1>2, <1>5 DEF n

(* The pots rebuilt for a table whose bets are covered all have a winner. *)
LEMMA SidePotsHaveWinners ==
  ASSUME NEW g, TableOK(g), Covered(g), NEW strength, Ranked(g, strength), NEW a,
         a.pots = createSidePots(g.pots, Seated(g), g.totalBetThisHand, g.isFolded),
         PlayersInHand(a) = PlayersInHand(g)
  PROVE  ~NoWinner(a, strength)
  <1> DEFINE H == PlayersInHand(g)
             e == [p \in H |-> strength[p]]
             players == Seated(g)
             t == g.totalBetThisHand
             levels == {t[p] : p \in players} \ {0}
             reached(l) == {p \in players : t[p] >= l}
             betSize(l) == l - PreviousAmount(levels, l)
  <1>1. /\ H # {} /\ IsFiniteSet(H) /\ H = {p \in players : ~g.isFolded[p]}
        /\ \A p \in H : strength[p] \in Int
    BY SeatFacts, FS_Subset DEF PlayersInHand, Covered, Ranked
  <1>2. \/ a.pots = {MakePot(0, getTotalPotAmount(g.pots), H)}
        \/ a.pots = {MakePot(l, betSize(l) * Cardinality(reached(l)), reached(l) \cap H)
                        : l \in levels}
    BY <1>1 DEF createSidePots, rebuildMainPotWithCorrectEligibility
  <1>3. ASSUME NEW pot \in a.pots PROVE pot.eligiblePlayers \cap H # {}
    <2>1. \/ pot.eligiblePlayers = H
          \/ \E l \in levels : pot.eligiblePlayers = reached(l) \cap H
      <3> DEFINE T == getTotalPotAmount(g.pots)
                 A(l) == betSize(l) * Cardinality(reached(l))
                 E(l) == reached(l) \cap H
      <3>1. \A l, n, X : MakePot(l, n, X).eligiblePlayers = X
        BY DEF MakePot
      <3>2. pot = MakePot(0, T, H) \/ \E l \in levels : pot = MakePot(l, A(l), E(l))
        BY <1>2
      <3> HIDE DEF T, A, E, H, levels
      <3>3. pot.eligiblePlayers = H \/ \E l \in levels : pot.eligiblePlayers = E(l)
        BY <3>1, <3>2
      <3> QED BY <3>3 DEF E
    <2>2. ASSUME NEW l \in levels PROVE reached(l) \cap H # {}
      <3>1. PICK q \in players : t[q] = l
        OBVIOUS
      <3>2. PICK p \in H : t[p] >= t[q]
        BY DEF Covered
      <3> QED BY <1>1, <3>1, <3>2
    <2> QED BY <1>1, <2>1, <2>2
  <1> HIDE DEF H
  <1>4. ASSUME NEW pot \in a.pots PROVE Recipients(pot, e, H) # {}
    <2> DEFINE C == pot.eligiblePlayers \cap H
    <2>1. C # {} /\ C \subseteq H /\ IsFiniteSet(C)
      BY <1>1, <1>3, FS_Subset
    <2>2. C = pot.eligiblePlayers \cap DOMAIN e
      OBVIOUS
    <2> DEFINE f == [p \in C |-> strength[p]]
               S == {f[p] : p \in DOMAIN f}
    <2> HIDE DEF C
    <2>3. IsFiniteSet(S) /\ S # {} /\ S \in SUBSET Int
      <3>1. IsFiniteSet(S)
        BY <2>1, FiniteImage
      <3> QED BY <1>1, <2>1, <3>1
    <2>4. PICK x \in S : \A y \in S : x >= y
      <3> HIDE DEF S
      <3> QED BY <2>3, GreatestInteger
    <2>5. PICK p \in C : strength[p] = x
      OBVIOUS
    <2>6. \A q \in C : e[q] <= e[p]
      <3> SUFFICES ASSUME NEW q \in C PROVE e[q] <= e[p]
        OBVIOUS
      <3>1. strength[q] \in S /\ e[q] = strength[q] /\ e[p] = strength[p]
        BY <2>1
      <3>2. strength[q] \in Int /\ strength[p] \in Int
        BY <1>1, <2>1
      <3>3. strength[p] >= strength[q]
        BY <2>4, <2>5, <3>1
      <3> HIDE DEF e, S
      <3> QED BY <3>1, <3>2, <3>3
    <2> HIDE DEF e
    <2> QED BY <2>1, <2>2, <2>6 DEF Recipients
  <1>5. ~HasOrphanPot(a.pots, e, H)
    <2> HIDE DEF e
    <2> QED BY <1>4 DEF HasOrphanPot
  <1> QED BY <1>5 DEF NoWinner, H

(* One street of a hand whose pots are covered leads to the next one, or   *)
(* to a showdown that ends the hand.                                       *)
LEMMA StreetPlaying ==
  ASSUME NEW g, TableOK(g), g.gameRunning, Playing(g),
         NEW strength, Ranked(g, strength)
  PROVE  LET h == Street(g, strength)
         IN  /\ Playing(h)
             /\ \/ Over(g, h)
                \/ /\ h.gameRunning /\ g.currentPhase # "River"
                   /\ h.currentPhase = NextPhase[g.currentPhase]
                   /\ PlayersInHand(h) = PlayersInHand(g)
                   /\ PlayersWhoCanAct(h) = PlayersWhoCanAct(g)
                   /\ \A p \in Players : ~h.hasActed[p]
  <1> DEFINE s == createSidePotsOf(g)
             h == Street(g, strength)
             a == advancePhase(s)
  <1>1. /\ TableOK(s) /\ SameBets(g, s) /\ s.currentPhase = g.currentPhase
        /\ s.gameRunning /\ s.thrown = g.thrown
        /\ s.pots = createSidePots(g.pots, Seated(g), g.totalBetThisHand, g.isFolded)
    BY CreateSidePotsFacts DEF Playing
  <1>2. /\ g.currentPhase \in Betting /\ Covered(g) /\ g.currentPhase # "HandComplete"
    BY DEF Playing, Betting
  <1>3. /\ PlayersInHand(s) = PlayersInHand(g)
        /\ PlayersWhoCanAct(s) = PlayersWhoCanAct(g)
    BY <1>1, SameBetsFair
  <1>4. h = IF s.currentPhase = "River" THEN determineWinners(a, strength) ELSE a
    BY <1>1, <1>2 DEF Street, startShowdown, Betting
  <1> HIDE DEF s, h
  <1>5. /\ TableOK(a) /\ a.currentPhase = NextPhase[g.currentPhase]
        /\ a.gameRunning /\ a.thrown = g.thrown
        /\ PlayersInHand(a) = PlayersInHand(g)
        /\ PlayersWhoCanAct(a) = PlayersWhoCanAct(g)
        /\ SameMoney(s, a) /\ a.isFolded = s.isFolded
        /\ \A p \in Players : a.currentBet[p] = 0 /\ ~a.hasActed[p]
    BY <1>1, <1>2, <1>3, AdvancePhaseFacts
  <1> HIDE DEF a
  <1>6. CASE g.currentPhase = "River"
    <2>1. ~NoWinner(a, strength)
      BY <1>1, <1>2, <1>5, SidePotsHaveWinners DEF SameMoney
    <2>2. a.currentPhase # "HandComplete"
      BY <1>5, <1>6 DEF NextPhase
    <2>3. Over(a, determineWinners(a, strength))
      BY <1>5, <2>1, <2>2, DetermineWinnersFacts
    <2>4. Over(g, h)
      BY <1>1, <1>4, <1>5, <1>6, <2>3 DEF Over, Playing
    <2> QED BY <2>4 DEF Over, Playing, h
  <1>7. CASE g.currentPhase # "River"
    <2>1. h = a
      BY <1>1, <1>4, <1>7
    <2>2. a.currentPhase \in Betting
      BY <1>2, <1>5, <1>7 DEF Betting, NextPhase
    <2>3. Covered(a)
      <3>1. /\ Seated(a) = Seated(g)
            /\ a.totalBetThisHand = g.totalBetThisHand
        BY <1>1, <1>5 DEF SameBets, SameMoney, Seated
      <3> QED BY <1>2, <1>5, <3>1 DEF Covered
    <2>4. Bettors(a)
      <3>1. PlayersInHand(a) \subseteq Players
        BY <1>5, SeatFacts DEF PlayersInHand
      <3>2. \A p \in PlayersInHand(a) : ~(a.currentBet[p] > 0)
        BY <1>5, <3>1
      <3> QED BY <3>2 DEF Bettors
    <2>5. Playing(a)
      BY <1>5, <2>2, <2>3, <2>4 DEF Playing
    <2> QED BY <1>5, <1>7, <2>1, <2>5 DEF h
  <1> QED BY <1>6, <1>7

(* Every player at the table has chips. *)
Solvent(g) == \A p \in Seated(g) : g.chipStack[p] > 0

(* A table after a street of a round that has ended: the hand is over, or  *)
(* nobody has acted yet, and somebody can, or the hand is complete, or the *)
(* street is one of those of S.                                            *)
Later(g, strength, S) ==
  /\ Good(g) /\ Playing(g)
  /\ IF g.gameRunning
     THEN /\ Ranked(g, strength)
          /\ \A p \in Players : ~g.hasActed[p]
          /\ \/ PlayersWhoCanAct(g) # {} \/ isHandComplete(g) \/ g.currentPhase \in S
     ELSE Solvent(g)

(* The streets after those of S are those of T. *)
Follow(S, T) == \A x \in S : x # "River" => NextPhase[x] \in T

(* The first street. *)
LEMMA StreetLater ==
  ASSUME NEW g, TableOK(g), Fair(g), Closed(g), g.gameRunning, Playing(g),
         NEW strength, Ranked(g, strength),
         NEW S, g.currentPhase \in S, NEW T, Follow(S, T)
  PROVE  Later(Street(g, strength), strength, T)
  <1> DEFINE h == Street(g, strength)
  <1>1. Good(h)
    <2>1. g.currentPhase # "HandComplete"
      BY DEF Playing, Betting
    <2> QED BY <2>1, StreetGood
  <1>2. /\ Playing(h)
        /\ \/ Over(g, h)
           \/ /\ h.gameRunning /\ g.currentPhase # "River"
              /\ h.currentPhase = NextPhase[g.currentPhase]
              /\ PlayersInHand(h) = PlayersInHand(g)
              /\ \A p \in Players : ~h.hasActed[p]
    BY StreetPlaying
  <1> HIDE DEF h
  <1>3. CASE Over(g, h)
    BY <1>1, <1>2, <1>3 DEF Later, Over, Solvent, h
  <1>4. CASE /\ h.gameRunning /\ g.currentPhase # "River"
             /\ h.currentPhase = NextPhase[g.currentPhase]
             /\ PlayersInHand(h) = PlayersInHand(g)
             /\ \A p \in Players : ~h.hasActed[p]
    <2>1. h.currentPhase \in T
      BY <1>4 DEF Follow
    <2> QED BY <1>1, <1>2, <1>4, <2>1 DEF Later, Ranked, h
  <1> QED BY <1>2, <1>3, <1>4

(* One more turn of the loop. *)
LEMMA StreetAgainLater ==
  ASSUME NEW g, NEW strength, NEW S, Later(g, strength, S), NEW T, Follow(S, T)
  PROVE  Later(StreetAgain(g, strength), strength, T)
  <1> DEFINE h == StreetAgain(g, strength)
             again == /\ g.gameRunning /\ ~g.thrown
                      /\ PlayersWhoCanAct(g) = {} /\ ~isHandComplete(g)
  <1>1. IF again THEN h = Street(g, strength) ELSE h = g
    BY DEF StreetAgain
  <1> HIDE DEF h
  <1>2. CASE again
    <2>1. /\ TableOK(g) /\ Fair(g) /\ Closed(g) /\ Playing(g) /\ Ranked(g, strength)
          /\ g.currentPhase \in S
      BY <1>2 DEF Later, Good, Closed
    <2> QED BY <1>1, <1>2, <2>1, StreetLater DEF h
  <1>3. CASE ~again
    BY <1>1, <1>3 DEF Later, Playing, h
  <1> QED BY <1>2, <1>3

(* The loop ends with the hand, or with somebody who can act. *)
LEMMA CompleteBettingRoundLater ==
  ASSUME NEW g, TableOK(g), Fair(g), Closed(g), g.gameRunning, Playing(g),
         NEW strength, Ranked(g, strength)
  PROVE  Later(completeBettingRound(g, strength), strength, {})
  <1> DEFINE s1 == Street(g, strength)
             s2 == StreetAgain(s1, strength)
             s3 == StreetAgain(s2, strength)
             s4 == StreetAgain(s3, strength)
  <1>1. /\ Follow(Betting, {"Flop", "Turn", "River"})
        /\ Follow({"Flop", "Turn", "River"}, {"Turn", "River"})
        /\ Follow({"Turn", "River"}, {"River"})
        /\ Follow({"River"}, {})
    BY DEF Follow, Betting, NextPhase
  <1>2. completeBettingRound(g, strength) = s4
    BY DEF completeBettingRound
  <1>3. Later(s1, strength, {"Flop", "Turn", "River"})
    BY <1>1, StreetLater DEF Playing
  <1> HIDE DEF s1
  <1>4. Later(s2, strength, {"Turn", "River"})
    BY <1>1, <1>3, StreetAgainLater
  <1> HIDE DEF s2
  <1>5. Later(s3, strength, {"River"})
    BY <1>1, <1>4, StreetAgainLater
  <1> HIDE DEF s3
  <1>6. Later(s4, strength, {})
    BY <1>1, <1>5, StreetAgainLater
  <1> QED BY <1>2, <1>6

(* A table after an action: the hand is over, or goes on with somebody who *)
(* can act, in the same round or at the start of another.                  *)
Continues(s, h) ==
  /\ Playing(h)
  /\ IF h.gameRunning
     THEN /\ PlayersWhoCanAct(h) # {} /\ ~isHandComplete(h)
          /\ \/ h = s /\ ~isBettingRoundComplete(s)
             \/ \A p \in Players : ~h.hasActed[p]
     ELSE Solvent(h)

(* The only player left takes the pots. *)
LEMMA LastPlayerWins ==
  ASSUME NEW g, TableOK(g), g.gameRunning, Playing(g), isHandComplete(g), NEW strength
  PROVE  Over(g, determineWinners(g, strength))
  <1>1. /\ g.currentPhase # "HandComplete" /\ PlayersInHand(g) # {}
        /\ Cardinality(PlayersInHand(g)) <= 1
    BY DEF Playing, Betting, Covered, isHandComplete
  <1>2. IsFiniteSet(PlayersInHand(g))
    BY SeatFacts, FS_Subset DEF PlayersInHand
  <1>3. Cardinality(PlayersInHand(g)) = 1
    <2>1. Cardinality(PlayersInHand(g)) \in Nat /\ Cardinality(PlayersInHand(g)) # 0
      BY <1>1, <1>2, FS_CardinalityType, FS_EmptySet
    <2> QED BY <1>1, <2>1
  <1>4. ~NoWinner(g, strength)
    BY <1>3 DEF NoWinner
  <1> QED BY <1>1, <1>4, DetermineWinnersFacts

(* After an action that was offered the hand goes on, or is over. *)
LEMMA ProcessedContinues ==
  ASSUME NEW g, Good(g), g.gameRunning, Playing(g),
         NEW p, NEW a \in BotAction, validateAction(g, p, a),
         a.type = "fold" => getCallAmount(g, p) > 0,
         NEW strength, Ranked(g, strength)
  PROVE  LET u == [g EXCEPT !.thrown = FALSE]
         IN  Continues(applyAction(u, p, a), Processed(g, p, a, strength))
  <1> DEFINE u == [g EXCEPT !.thrown = FALSE]
             s == applyAction(u, p, a)
             r == IF isBettingRoundComplete(s) THEN completeBettingRound(s, strength)
                  ELSE s
             h == Processed(g, p, a, strength)
  <1>1. h = IF r.gameRunning /\ ~r.thrown /\ isHandComplete(r)
            THEN determineWinners(r, strength) ELSE r
    BY DEF Processed
  <1>2. /\ TableOK(u) /\ SameBets(g, u) /\ u.gameRunning /\ ~u.thrown
        /\ u.currentPhase = g.currentPhase /\ Fair(u) /\ validateAction(u, p, a)
    BY ThrownReset
  <1> HIDE DEF u
  <1>3. /\ Covered(u) /\ Bettors(u) /\ u.currentPhase \in Betting
        /\ a.type = "fold" => getCallAmount(u, p) > 0
    <2>1. Covered(u) /\ Bettors(u)
      BY <1>2, SameBetsPlaying DEF SameBets, Playing
    <2>2. getCallAmount(u, p) = getCallAmount(g, p)
      BY <1>2, SameBetsFair DEF SameBets, getCallAmount
    <2> QED BY <1>2, <2>1, <2>2 DEF Playing
  <1>4. /\ TableOK(s) /\ Fair(s) /\ s.currentPhase \in Betting /\ s.gameRunning
        /\ ~s.thrown
    BY <1>2, <1>3, ApplyActionFacts
  <1>5. Covered(s) /\ Bettors(s)
    BY <1>2, <1>3, ApplyActionPlaying
  <1>6. PlayersInHand(s) \subseteq PlayersInHand(g)
    <2>1. PlayersInHand(s) \subseteq PlayersInHand(u)
      BY <1>2, ApplyActionInHand
    <2> QED BY <1>2, <2>1, SameBetsFair
  <1> HIDE DEF s, h
  <1>7. Playing(s) /\ Ranked(s, strength) /\ s.currentPhase # "HandComplete"
    BY <1>4, <1>5, <1>6 DEF Playing, Ranked, Betting
  <1>8. /\ Good(r) /\ Playing(r)
        /\ IF r.gameRunning
           THEN /\ PlayersWhoCanAct(r) # {} \/ isHandComplete(r)
                /\ \/ r = s /\ ~isBettingRoundComplete(s)
                   \/ \A q \in Players : ~r.hasActed[q]
           ELSE Solvent(r)
    <2>1. CASE isBettingRoundComplete(s)
      <3>1. Closed(s)
        BY <2>1 DEF isBettingRoundComplete, Closed
      <3>2. Later(r, strength, {})
        BY <1>4, <1>7, <2>1, <3>1, CompleteBettingRoundLater
      <3> HIDE DEF r
      <3> QED BY <3>2 DEF Later
    <2>2. CASE ~isBettingRoundComplete(s)
      <3>1. PlayersWhoCanAct(s) # {}
        BY <2>2 DEF isBettingRoundComplete
      <3> QED BY <1>4, <1>7, <2>2, <3>1 DEF Good
    <2> QED BY <2>1, <2>2
  <1> HIDE DEF r
  <1>9. CASE r.gameRunning /\ isHandComplete(r)
    <2>1. h = determineWinners(r, strength) /\ TableOK(r)
      BY <1>1, <1>8, <1>9 DEF Playing, Good
    <2>2. Over(r, h)
      BY <1>8, <1>9, <2>1, LastPlayerWins
    <2>3. Continues(s, h)
      BY <1>8, <2>2 DEF Over, Continues, Playing, Solvent
    <2> QED BY <2>3 DEF h, s, u
  <1>10. CASE ~(r.gameRunning /\ isHandComplete(r))
    <2>1. h = r
      BY <1>1, <1>10
    <2>2. Continues(s, h)
      BY <1>8, <1>10, <2>1 DEF Continues
    <2> QED BY <2>2 DEF h, s, u
  <1> QED BY <1>9, <1>10

(* The blinds alone: nobody has folded and no street is closed. *)
LEMMA OpenedPlaying ==
  ASSUME NEW g, NEW h, TableOK(h), Opened(g, h), SeatCount(h) # 0
  PROVE  Playing(h) /\ PlayersInHand(h) = Seated(h)
  <1>1. Seated(h) \subseteq Players /\ Seated(h) # {}
    BY SeatFacts
  <1>2. PlayersInHand(h) = Seated(h)
    BY <1>1 DEF PlayersInHand, Opened
  <1>3. h.totalBetThisHand \in [Players -> Nat]
    BY DEF TableOK, Table
  <1>4. \A p \in Seated(h) : h.totalBetThisHand[p] >= h.totalBetThisHand[p]
    BY <1>1, <1>3
  <1>5. Covered(h)
    BY <1>1, <1>2, <1>4 DEF Covered
  <1>6. Bettors(h)
    BY <1>1, <1>2 DEF Bettors, Opened, Fresh
  <1> QED BY <1>2, <1>5, <1>6 DEF Playing, Opened, Betting

(* With bots that choose among their offers and stay for the hand, the     *)
(* invariant of the hand.                                                  *)
PInv == TurnInv /\ Playing(game)

(* An accepted action, by such bots. *)
LEMMA PlayedContinues ==
  ASSUME "unoffered" \notin Liberties, PInv, NEW p, NEW a, NEW strength,
         Played(p, a, strength)
  PROVE  Continues(applyAction([game EXCEPT !.thrown = FALSE], p, a), game')
  <1>1. /\ Good(game) /\ game.gameRunning /\ Playing(game)
        /\ a \in BotAction /\ validateAction(game, p, a)
        /\ a.type = "fold" => getCallAmount(game, p) > 0
        /\ game' = Processed(game, p, a, strength)
    BY DEF PInv, TurnInv, IInv, Played
  <1>2. Ranked(game, strength)
    <2> DEFINE H == PlayersInHand(game)
    <2>1. IsFiniteSet(H)
      <3>1. TableOK(game)
        BY <1>1 DEF Good
      <3> QED BY <3>1, SeatFacts, FS_Subset DEF PlayersInHand
    <2>2. strength \in [H -> 1..Cardinality(H)] /\ Cardinality(H) \in Nat
      BY <2>1, FS_CardinalityType DEF Played, HandStrengths
    <2> HIDE DEF H
    <2>3. \A q \in H : strength[q] \in Int
      BY <2>2
    <2> QED BY <2>3 DEF Ranked, H
  <1> QED BY <1>1, <1>2, ProcessedContinues

(* Every step keeps it. *)
LEMMA StepPlaying ==
  ASSUME Liberties \cap {"unoffered", "leave"} = {}, PInv, [Next]_vars
  PROVE  PInv'
  <1>1. IInv /\ Good(game) /\ TableOK(game) /\ TurnInv /\ Playing(game)
    BY DEF PInv, TurnInv, IInv, Good
  <1>2. TurnInv'
    BY <1>1, StepTurn
  <1> SUFFICES Playing(game')
    BY <1>2 DEF PInv
  <1>3. ASSUME NEW p \in Players, NEW chips \in BuyIns, AddPlayer(p, chips)
        PROVE  Playing(game')
    <2>1. game' = addPlayer(game, p, chips) /\ ~game.gameRunning
      BY <1>3 DEF AddPlayer
    <2>2. game'.gameRunning = game.gameRunning /\ game'.thrown = game.thrown
      BY <1>1, <2>1 DEF addPlayer, TableOK, Table
    <2> QED BY <1>1, <2>1, <2>2 DEF Playing
  <1>4. ASSUME NEW p \in Players, RemovePlayer(p) PROVE Playing(game')
    <2>1. ~game.gameRunning
      BY <1>4 DEF RemovePlayer
    <2>2. game'.gameRunning = game.gameRunning /\ game'.thrown = game.thrown
      BY <1>1, <1>4, RemovePlayersFacts DEF RemovePlayer
    <2> QED BY <1>1, <2>1, <2>2 DEF Playing
  <1>5. ASSUME StartHand PROVE Playing(game')
    <2>1. game' = StartedHand(game) /\ SeatCount(game) >= 2
      BY <1>5 DEF StartHand
    <2>2. Good(game') /\ Opened(game, game')
      BY <1>1, <2>1, StartedHandFacts
    <2>3. TableOK(game') /\ SeatCount(game') # 0
      <3>1. SeatCount(game) \in Nat
        BY <1>1, SeatFacts
      <3>2. SeatCount(game') = SeatCount(game)
        BY <2>2 DEF Opened, SeatCount
      <3> QED BY <2>1, <2>2, <3>1, <3>2 DEF Good
    <2> QED BY <2>2, <2>3, OpenedPlaying
  <1>6. ASSUME NEW p \in Players, ProcessAction(p) \/ ForcePlayerAction(p)
        PROVE  Playing(game')
    <2>1. PICK a, strength : Played(p, a, strength)
      BY <1>1, <1>6, PlayedSteps
    <2> QED BY <2>1, PlayedContinues DEF Continues
  <1>7. ASSUME UNCHANGED vars PROVE Playing(game')
    BY <1>1, <1>7 DEF vars
  <1> QED BY <1>3, <1>4, <1>5, <1>6, <1>7 DEF Next, TurnTimer

(* The empty table. *)
LEMMA InitPlaying ==
  Init => PInv
  BY InitGood DEF Init, EmptyTable, PInv, TurnInv, Playing

(* No accepted call ends in an exception, and every pot of every showdown  *)
(* has a winner, when bots choose among their offers and stay for the      *)
(* hand: who is behind in the betting may fold, because the player he owes *)
(* covers him, and the player who is covered by nobody is not offered it.  *)
THEOREM NoCallThrows ==
  ASSUME Liberties \cap {"unoffered", "leave"} = {}
  PROVE  Spec => []NeverThrown
  <1>1. Init => PInv
    BY InitPlaying
  <1>2. PInv /\ [Next]_vars => PInv'
    BY StepPlaying
  <1>3. PInv => NeverThrown
    BY DEF PInv, Playing, NeverThrown
  <1> QED BY <1>1, <1>2, <1>3, PTL DEF Spec

(* At a table of three or more somebody is left who posts no blind. *)
LEMMA ThirdPlayer ==
  ASSUME NEW g, TableOK(g), SeatCount(g) > 2, NEW p, NEW q
  PROVE  \E r \in Seated(g) : r # p /\ r # q
  <1> DEFINE n == SeatCount(g)
  <1>1. n \in Nat /\ g.players \in Seq(Players) /\ DOMAIN g.players = 1..n
    BY SeatFacts DEF TableOK, Table, SeatCount
  <1>2. 1 \in DOMAIN g.players /\ 2 \in DOMAIN g.players /\ 3 \in DOMAIN g.players
    BY <1>1
  <1>3. /\ g.players[1] # g.players[2] /\ g.players[1] # g.players[3]
        /\ g.players[2] # g.players[3]
    BY <1>2 DEF TableOK
  <1>4. \A i \in {1, 2, 3} : g.players[i] \in Seated(g)
    BY <1>2 DEF Seated
  <1> QED BY <1>3, <1>4

(* He can act: he has all his chips. *)
LEMMA OpenedCanAct ==
  ASSUME NEW g, TableOK(g), SeatCount(g) > 2, Solvent(g)
  PROVE  PlayersWhoCanAct(StartedHand(g)) # {}
  <1> DEFINE h == StartedHand(g)
  <1>1. SeatCount(g) >= 2
    <2>1. SeatCount(g) \in Nat
      BY SeatFacts
    <2> QED BY <2>1
  <1>2. PICK n, s, t, x, y : \E sb, bb \in Seated(g) :
          /\ NewHand(g, n)
          /\ Posted(n, s, sb, SmallBlindAmount, x)
          /\ Posted(s, t, bb, BigBlindAmount, y)
          /\ Dealt(t, h)
    BY <1>1, StartedHandSteps
  <1>3. PICK sb \in Seated(g), bb \in Seated(g) :
          /\ Posted(n, s, sb, SmallBlindAmount, x)
          /\ Posted(s, t, bb, BigBlindAmount, y)
    BY <1>2
  <1> HIDE DEF h
  <1>4. PICK r \in Seated(g) : r # sb /\ r # bb
    BY ThirdPlayer
  <1>5. r \in Players /\ g.chipStack \in [Players -> Nat]
    BY SeatFacts DEF TableOK, Table
  <1>6. n.chipStack = g.chipStack /\ ~n.isFolded[r] /\ ~n.isAllIn[r] /\ n.players = g.players
    BY <1>2, <1>5 DEF NewHand
  <1>7. /\ s.chipStack[r] = n.chipStack[r] /\ s.isFolded = n.isFolded
        /\ s.isAllIn[r] = n.isAllIn[r] /\ s.players = g.players /\ TableOK(s)
    BY <1>3, <1>4, <1>6 DEF Posted, Staked
  <1>8. /\ t.chipStack[r] = s.chipStack[r] /\ t.isFolded = s.isFolded
        /\ t.isAllIn[r] = s.isAllIn[r] /\ t.players = g.players
    <2>1. s.chipStack \in [Players -> Nat] /\ s.isAllIn \in [Players -> BOOLEAN]
      BY <1>7 DEF TableOK, Table
    <2>2. /\ t.chipStack = [s.chipStack EXCEPT ![bb] = @ - y]
          /\ t.isAllIn = [s.isAllIn EXCEPT ![bb] = @ \/ s.chipStack[bb] = y]
          /\ t.isFolded = s.isFolded /\ t.players = s.players
      BY <1>3 DEF Posted, Staked
    <2> QED BY <1>4, <1>5, <1>7, <2>1, <2>2
  <1>9. SameBets(t, h)
    BY <1>2 DEF Dealt
  <1>10. /\ h.chipStack[r] = g.chipStack[r] /\ ~h.isFolded[r] /\ ~h.isAllIn[r]
         /\ h.players = g.players
    BY <1>6, <1>7, <1>8, <1>9 DEF SameBets
  <1>11. r \in Seated(h) /\ h.chipStack[r] > 0
    BY <1>10 DEF Seated, Solvent
  <1>12. canAct(h, r)
    BY <1>10, <1>11 DEF canAct
  <1>13. r \in PlayersWhoCanAct(h)
    BY <1>11, <1>12 DEF PlayersWhoCanAct
  <1> QED BY <1>13 DEF h

(* With callers who use the engine with care: the players who wait for a   *)
(* hand have chips, and the hand that waits for nobody is as described.    *)
SInv == PInv /\ StuckOnlyFromBlinds /\ (~game.gameRunning => Solvent(game))

(* Every step keeps it. *)
LEMMA StepStuck ==
  ASSUME Liberties \subseteq {"cashout"}, SInv, [Next]_vars
  PROVE  SInv'
  <1>1. /\ IInv /\ Good(game) /\ TableOK(game) /\ PInv
        /\ "unoffered" \notin Liberties /\ "leave" \notin Liberties
        /\ "restart" \notin Liberties
    BY DEF SInv, PInv, TurnInv, IInv, Good
  <1>2. PInv'
    <2>1. Liberties \cap {"unoffered", "leave"} = {}
      BY <1>1
    <2> QED BY <1>1, <2>1, StepPlaying
  <1>3. TableOK(game')
    BY <1>2 DEF PInv, TurnInv, IInv, Good
  <1> DEFINE Goal == StuckOnlyFromBlinds' /\ (~game'.gameRunning => Solvent(game'))
  <1> SUFFICES Goal
    BY <1>2 DEF SInv
  <1>4. ASSUME NEW p \in Players, NEW chips \in BuyIns, AddPlayer(p, chips) PROVE Goal
    <2>1. /\ game' = addPlayer(game, p, chips) /\ ~game.gameRunning
          /\ p \notin Seated(game) /\ chips \in Nat /\ chips > 0
      BY <1>4, EngineAssumption DEF AddPlayer
    <2>2. /\ game'.gameRunning = game.gameRunning
          /\ game'.players = Append(game.players, p)
          /\ game'.chipStack = [game.chipStack EXCEPT ![p] = chips]
          /\ game.players \in Seq(Players) /\ game.chipStack \in [Players -> Nat]
      BY <1>1, <2>1 DEF addPlayer, TableOK, Table
    <2>3. Seated(game') = Seated(game) \cup {p}
      BY <1>1, <2>1, AddPlayerSeats
    <2>4. Solvent(game)
      BY <2>1 DEF SInv
    <2>5. \A q \in Seated(game') : game'.chipStack[q] > 0
      <3>1. Seated(game) \subseteq Players
        BY <1>1, SeatFacts
      <3>2. \A q \in Seated(game) : game.chipStack[q] > 0
        BY <2>4 DEF Solvent
      <3> QED BY <2>1, <2>2, <2>3, <3>1, <3>2
    <2> QED BY <2>1, <2>2, <2>5 DEF Solvent, StuckOnlyFromBlinds
  <1>5. ASSUME NEW p \in Players, RemovePlayer(p) PROVE Goal
    <2>1. ~game.gameRunning /\ game' = removePlayers(game, {p})
      BY <1>1, <1>5 DEF RemovePlayer
    <2>2. /\ game'.gameRunning = game.gameRunning
          /\ Seated(game') = Seated(game) \ {p} /\ Left(game, game', {p})
      BY <1>1, <2>1, RemovePlayersFacts
    <2>3. Solvent(game) /\ Seated(game) \subseteq Players
      BY <1>1, <2>1, SeatFacts DEF SInv
    <2>4. \A q \in Seated(game') : game'.chipStack[q] > 0
      BY <2>2, <2>3 DEF Left, Solvent
    <2> QED BY <2>1, <2>2, <2>4 DEF Solvent, StuckOnlyFromBlinds
  <1>6. ASSUME StartHand PROVE Goal
    <2>1. game' = StartedHand(game) /\ SeatCount(game) >= 2 /\ ~game.gameRunning
      BY <1>1, <1>6 DEF StartHand
    <2>2. Opened(game, game')
      BY <1>1, <2>1, StartedHandFacts
    <2>3. Solvent(game)
      BY <2>1 DEF SInv
    <2>4. CASE SeatCount(game) > 2
      <3>1. PlayersWhoCanAct(game') # {}
        BY <1>1, <2>1, <2>3, <2>4, OpenedCanAct
      <3> QED BY <2>2, <3>1 DEF StuckOnlyFromBlinds, Opened
    <2>5. CASE ~(SeatCount(game) > 2)
      <3>1. SeatCount(game) \in Nat
        BY <1>1, SeatFacts
      <3>2. Len(game'.players) = 2
        <4>1. SeatCount(game) = 2
          BY <2>1, <2>5, <3>1
        <4> QED BY <2>2, <4>1 DEF Opened, SeatCount
      <3>3. Seated(game') \subseteq Players
        BY <1>3, SeatFacts
      <3>4. \A p \in Seated(game') : ~game'.hasActed[p]
        BY <2>2, <3>3 DEF Opened, Fresh
      <3> QED BY <2>2, <3>2, <3>4 DEF StuckOnlyFromBlinds, Opened
    <2> QED BY <2>4, <2>5
  <1>7. ASSUME NEW p \in Players, ProcessAction(p) \/ ForcePlayerAction(p) PROVE Goal
    <2>1. PICK a, strength : Played(p, a, strength)
      BY <1>1, <1>7, PlayedSteps
    <2> DEFINE s == applyAction([game EXCEPT !.thrown = FALSE], p, a)
    <2>2. Continues(s, game')
      BY <1>1, <2>1, PlayedContinues
    <2> HIDE DEF s
    <2> QED BY <2>2 DEF Continues, StuckOnlyFromBlinds
  <1>8. ASSUME UNCHANGED vars PROVE Goal
    BY <1>8 DEF vars, SInv, StuckOnlyFromBlinds
  <1> HIDE DEF Goal
  <1> QED BY <1>4, <1>5, <1>6, <1>7, <1>8 DEF Next, TurnTimer

(* A hand that is running waits for somebody, or was over at its blinds:   *)
(* startHand() posts two blinds that take both players all-in and does not *)
(* look whether anybody can act.                                           *)
THEOREM OnlyBlindsGetStuck ==
  ASSUME Liberties \subseteq {"cashout"}
  PROVE  Spec => []StuckOnlyFromBlinds
  <1>1. Init => SInv
    <2>1. Init => ~game.gameRunning /\ Seated(game) = {}
      BY DEF Init, EmptyTable, Seated
    <2> QED BY <2>1, InitPlaying DEF SInv, StuckOnlyFromBlinds, Solvent
  <1>2. SInv /\ [Next]_vars => SInv'
    BY StepStuck
  <1>3. SInv => StuckOnlyFromBlinds
    BY DEF SInv
  <1> QED BY <1>1, <1>2, <1>3, PTL DEF Spec

-----------------------------------------------------------------------------
(* The order of the turns *)

(* The number of seats from seat c on, clockwise, to seat x of n. *)
Dist(n, c, x) == IF x >= c THEN x - c ELSE x - c + n

(* Clockwise from the player to act, nobody who can act has acted before   *)
(* somebody who has not.                                                   *)
Ordered(g) ==
  LET n == SeatCount(g)
      c == SeatOf(g, g.currentPlayerToAct)
  IN  \A x, y \in 0..(n - 1) :
        /\ canAct(g, PlayerAt(g, x)) /\ canAct(g, PlayerAt(g, y))
        /\ Dist(n, c, x) < Dist(n, c, y)
        /\ g.hasActed[PlayerAt(g, x)]
        => g.hasActed[PlayerAt(g, y)]

(* Counting seats, modulo the size of the table. *)
LEMMA SeatSum ==
  ASSUME NEW n \in Nat \ {0}, NEW a \in 0..(n - 1), NEW b \in 0..n
  PROVE  (a + b) % n = IF a + b < n THEN a + b ELSE a + b - n
  <1>1. CASE a + b < n
    <2>1. a + b \in 0..(n - 1) /\ a + b = n * 0 + (a + b) /\ a + b \in Int
      BY <1>1
    <2>2. (a + b) % n = a + b
      BY <2>1, RemainderUnique
    <2> QED BY <1>1, <2>2
  <1>2. CASE ~(a + b < n)
    <2>1. a + b - n \in 0..(n - 1) /\ a + b = n * 1 + (a + b - n) /\ a + b \in Int
      BY <1>2
    <2>2. (a + b) % n = a + b - n
      BY <2>1, RemainderUnique
    <2> QED BY <1>2, <2>2
  <1> QED BY <1>1, <1>2

(* A seat has one number. *)
LEMMA SeatOfPlayerAt ==
  ASSUME NEW g, TableOK(g), NEW x \in 0..(SeatCount(g) - 1)
  PROVE  SeatOf(g, PlayerAt(g, x)) = x
  <1> DEFINE p == PlayerAt(g, x)
             y == SeatOf(g, p)
  <1>1. p \in Seated(g) /\ SeatCount(g) \in Nat
    BY SeatFacts
  <1>2. y \in 0..(SeatCount(g) - 1) /\ PlayerAt(g, y) = p
    BY <1>1, SeatOfFacts
  <1> HIDE DEF y
  <1>3. /\ DOMAIN g.players = 1..SeatCount(g)
        /\ \A i, j \in DOMAIN g.players : g.players[i] = g.players[j] => i = j
    BY DEF TableOK, Table, SeatCount
  <1>4. x + 1 \in DOMAIN g.players /\ y + 1 \in DOMAIN g.players
    BY <1>1, <1>2, <1>3
  <1>5. x + 1 = y + 1
    BY <1>2, <1>3, <1>4 DEF PlayerAt
  <1>6. y = x
    BY <1>1, <1>2, <1>5
  <1> QED BY <1>6 DEF y

(* The turn goes to the first player after the one who has acted. *)
LEMMA NextInOrder ==
  ASSUME NEW g, TableOK(g), g.currentPlayerToAct \in Seated(g),
         PlayersWhoCanAct(g) # {}
  PROVE  LET n == SeatCount(g)
             c == SeatOf(g, g.currentPlayerToAct)
             k == IF c + 1 < n THEN c + 1 ELSE 0
             h == setNextPlayerToAct(g)
             e == SeatOf(g, h.currentPlayerToAct)
         IN  /\ n \in Nat \ {0} /\ c \in 0..(n - 1) /\ e \in 0..(n - 1)
             /\ \A x \in 0..(n - 1) :
                  canAct(g, PlayerAt(g, x)) => Dist(n, k, e) <= Dist(n, k, x)
  <1> DEFINE n == SeatCount(g)
             c == SeatOf(g, g.currentPlayerToAct)
             k == IF c + 1 < n THEN c + 1 ELSE 0
             h == setNextPlayerToAct(g)
             e == SeatOf(g, h.currentPlayerToAct)
             able == {i \in 0..(n - 1) : canAct(g, PlayerAt(g, (k + i) % n))}
             m == Min(able)
             z == IF k + m < n THEN k + m ELSE k + m - n
  <1>1. n \in Nat
    BY SeatFacts
  <1>2. c \in 0..(n - 1)
    BY SeatOfFacts
  <1>3. n \in Nat \ {0} /\ k \in 0..(n - 1)
    <2> HIDE DEF n, c
    <2> QED BY <1>1, <1>2
  <1>4. StartPosition(g) = k
    <2>1. g.currentPlayerToAct # NoPlayer
      BY SeatFacts, PlayersAssumption
    <2>2. StartPosition(g) = (c + 1) % n
      BY <2>1 DEF StartPosition
    <2> HIDE DEF n, c
    <2>3. (c + 1) % n = IF c + 1 < n THEN c + 1 ELSE c + 1 - n
      <3>1. 1 \in 0..n
        BY <1>3
      <3> QED BY <1>2, <1>3, <3>1, SeatSum
    <2>4. c + 1 - n = 0 \/ c + 1 < n
      BY <1>2, <1>3
    <2> QED BY <2>2, <2>3, <2>4
  <1>5. h.currentPlayerToAct = PlayerAt(g, (k + m) % n)
    BY <1>4 DEF setNextPlayerToAct, FirstToActFrom, TableOK, Table
  <1> HIDE DEF n, c, k
  <1>6. ASSUME NEW x \in 0..(n - 1)
        PROVE  /\ Dist(n, k, x) \in 0..(n - 1)
               /\ (k + Dist(n, k, x)) % n = x
    <2> DEFINE d == Dist(n, k, x)
    <2>1. /\ d \in 0..(n - 1) /\ d \in 0..n
          /\ x = IF k + d < n THEN k + d ELSE k + d - n
      BY <1>3 DEF Dist
    <2> HIDE DEF d
    <2>2. (k + d) % n = x
      BY <1>3, <2>1, SeatSum
    <2> QED BY <2>1, <2>2 DEF d
  <1>7. able \in SUBSET Nat /\ able # {}
    <2>1. PICK p \in Seated(g) : canAct(g, p)
      BY DEF PlayersWhoCanAct
    <2>2. PICK x \in 0..(n - 1) : PlayerAt(g, x) = p
      BY SeatFacts DEF n
    <2>3. Dist(n, k, x) \in able
      BY <1>6, <2>1, <2>2
    <2>4. able \in SUBSET Nat
      BY <1>3
    <2> QED BY <2>3, <2>4
  <1>8. m \in able /\ \A y \in able : m <= y
    <2> HIDE DEF able
    <2> QED BY <1>7, MinNatural
  <1>9. m \in 0..(n - 1) /\ m \in 0..n
    BY <1>3, <1>8
  <1> HIDE DEF m
  <1>10. (k + m) % n = z
    BY <1>3, <1>9, SeatSum
  <1>11. z \in 0..(n - 1) /\ Dist(n, k, z) = m
    BY <1>3, <1>9 DEF Dist
  <1> HIDE DEF z, h
  <1>12. e = z
    BY <1>5, <1>10, <1>11, SeatOfPlayerAt DEF n
  <1>13. ASSUME NEW x \in 0..(n - 1), canAct(g, PlayerAt(g, x))
         PROVE  Dist(n, k, e) <= Dist(n, k, x)
    <2>1. Dist(n, k, x) \in able
      BY <1>6, <1>13
    <2> QED BY <1>8, <1>11, <1>12, <2>1
  <1> HIDE DEF e
  <1> QED BY <1>2, <1>3, <1>11, <1>12, <1>13 DEF n, c, k, h, e

(* Seats in clockwise order from e are in clockwise order from c, if no    *)
(* seat of interest lies between c and e; c comes last.                    *)
LEMMA ClockwiseOrder ==
  ASSUME NEW n \in Nat \ {0}, NEW c \in 0..(n - 1), NEW e \in 0..(n - 1),
         NEW k, k = IF c + 1 < n THEN c + 1 ELSE 0,
         NEW x \in 0..(n - 1), NEW y \in 0..(n - 1),
         Dist(n, k, e) <= Dist(n, k, x), Dist(n, k, e) <= Dist(n, k, y),
         Dist(n, e, x) < Dist(n, e, y)
  PROVE  y = c \/ (x # c /\ Dist(n, c, x) < Dist(n, c, y))
  BY DEF Dist

(* The table h is g after p has acted: those who have acted before him     *)
(* have still acted, or all owe an answer again.                           *)
Acted(g, h, p) ==
  /\ h.players = g.players /\ h.currentPlayerToAct = p
  /\ h.hasActed[p]
  /\ PlayersWhoCanAct(h) \subseteq PlayersWhoCanAct(g)
  /\ \/ \A q \in PlayersWhoCanAct(h) : q # p => h.hasActed[q] = g.hasActed[q]
     \/ \A q \in PlayersWhoCanAct(h) : q # p => ~h.hasActed[q]

(* The turn moves on in order. *)
LEMMA ActedOrdered ==
  ASSUME NEW g, TableOK(g), NEW p \in Seated(g), g.currentPlayerToAct = p, Ordered(g),
         NEW h, TableOK(h), Acted(g, h, p), PlayersWhoCanAct(h) # {}
  PROVE  Ordered(setNextPlayerToAct(h))
  <1> DEFINE n == SeatCount(h)
             c == SeatOf(h, h.currentPlayerToAct)
             k == IF c + 1 < n THEN c + 1 ELSE 0
             s == setNextPlayerToAct(h)
             e == SeatOf(h, s.currentPlayerToAct)
  <1>1. Seated(h) = Seated(g) /\ SeatCount(g) = n /\ h.currentPlayerToAct = p
    BY DEF Acted, Seated, SeatCount
  <1>2. /\ n \in Nat \ {0} /\ c \in 0..(n - 1) /\ e \in 0..(n - 1)
        /\ \A x \in 0..(n - 1) :
             canAct(h, PlayerAt(h, x)) => Dist(n, k, e) <= Dist(n, k, x)
    BY <1>1, NextInOrder
  <1>3. /\ \A x : PlayerAt(h, x) = PlayerAt(g, x)
        /\ \A q : SeatOf(h, q) = SeatOf(g, q)
    BY <1>1 DEF Acted, PlayerAt, SeatOf
  <1>4. SameBets(h, s)
    BY SetNextFacts
  <1>5. /\ SeatCount(s) = n /\ \A x : PlayerAt(s, x) = PlayerAt(h, x)
        /\ \A q : canAct(s, q) = canAct(h, q)
        /\ s.hasActed = h.hasActed
    BY <1>4 DEF SameBets, SeatCount, PlayerAt, canAct
  <1>6. SeatOf(s, s.currentPlayerToAct) = e
    <2>1. Seated(s) = Seated(h)
      BY <1>4 DEF SameBets, Seated
    <2>2. \A q : SeatOf(s, q) = SeatOf(h, q)
      BY <1>4, <2>1 DEF SameBets, SeatOf, SeatCount, PlayerAt
    <2> QED BY <2>2
  <1>7. c = SeatOf(g, p)
    BY <1>1, <1>3
  <1>8. PlayerAt(h, c) = p
    BY <1>1, SeatOfFacts
  <1>9. \A x \in 0..(n - 1) : canAct(h, PlayerAt(h, x)) =>
          PlayerAt(h, x) \in PlayersWhoCanAct(h)
    BY SeatFacts DEF PlayersWhoCanAct
  <1> HIDE DEF n, c, k, e, s
  <1>10. ASSUME NEW x \in 0..(n - 1), NEW y \in 0..(n - 1),
                canAct(h, PlayerAt(h, x)), canAct(h, PlayerAt(h, y)),
                Dist(n, e, x) < Dist(n, e, y), h.hasActed[PlayerAt(h, x)]
         PROVE  h.hasActed[PlayerAt(h, y)]
    <2>1. y = c \/ (x # c /\ Dist(n, c, x) < Dist(n, c, y))
      <3>1. k = IF c + 1 < n THEN c + 1 ELSE 0
        BY DEF k
      <3>2. Dist(n, k, e) <= Dist(n, k, x) /\ Dist(n, k, e) <= Dist(n, k, y)
        BY <1>2, <1>10
      <3> QED BY <1>2, <1>10, <3>1, <3>2, ClockwiseOrder
    <2>2. CASE y = c
      BY <1>8, <2>2 DEF Acted
    <2>3. CASE y # c /\ x # c /\ Dist(n, c, x) < Dist(n, c, y)
      <3> DEFINE a == PlayerAt(h, x)
                 b == PlayerAt(h, y)
      <3>1. a # p /\ b # p
        <4>1. SeatOf(h, a) = x /\ SeatOf(h, b) = y /\ SeatOf(h, p) = c
          BY <1>1, SeatOfPlayerAt DEF n, c
        <4> QED BY <2>3, <4>1
      <3>2. a \in PlayersWhoCanAct(h) /\ b \in PlayersWhoCanAct(h)
        BY <1>9, <1>10
      <3>3. a \in PlayersWhoCanAct(g) /\ b \in PlayersWhoCanAct(g)
        BY <3>2 DEF Acted
      <3>4. canAct(g, PlayerAt(g, x)) /\ canAct(g, PlayerAt(g, y))
        BY <1>3, <3>3 DEF PlayersWhoCanAct
      <3>5. /\ h.hasActed[a] = g.hasActed[a] /\ h.hasActed[b] = g.hasActed[b]
        BY <1>10, <3>1, <3>2 DEF Acted
      <3>6. g.hasActed[PlayerAt(g, x)]
        BY <1>3, <1>10, <3>5
      <3>7. g.hasActed[PlayerAt(g, y)]
        <4>1. SeatCount(g) = n /\ SeatOf(g, g.currentPlayerToAct) = c
          BY <1>1, <1>7
        <4> QED BY <2>3, <3>4, <3>6, <4>1 DEF Ordered
      <3> QED BY <1>3, <3>5, <3>7
    <2> QED BY <2>1, <2>2, <2>3
  <1>11. Ordered(s)
    BY <1>5, <1>6, <1>10 DEF Ordered
  <1> QED BY <1>11 DEF s

(* An accepted action keeps the order. *)
LEMMA ApplyActionOrdered ==
  ASSUME NEW g, TableOK(g), Ordered(g),
         NEW p, NEW a \in BotAction, validateAction(g, p, a)
  PROVE  LET s == applyAction(g, p, a)
         IN  PlayersWhoCanAct(s) # {} => Ordered(s)
  <1>1. p \in PlayersWhoCanAct(g) /\ p \in PlayersInHand(g) /\ p \in Players
    BY AcceptedActions
  <1>2. p \in Seated(g) /\ g.currentPlayerToAct = p
    BY AcceptedActions
  <1>3. PICK h : Answer(g, h, p, a) /\ applyAction(g, p, a) = setNextPlayerToAct(h)
    BY AcceptedActions
  <1>4. /\ g.hasActed \in [Players -> BOOLEAN] /\ g.isFolded \in [Players -> BOOLEAN]
        /\ g.isAllIn \in [Players -> BOOLEAN] /\ g.chipStack \in [Players -> Nat]
        /\ Seated(g) \subseteq Players
    BY SeatFacts DEF TableOK, Table
  <1>5. TableOK(h) /\ Acted(g, h, p)
    <2>1. CASE h = fold(g, p)
      <3>1. /\ TableOK(h) /\ h.players = g.players /\ h.chipStack = g.chipStack
            /\ h.isFolded = [g.isFolded EXCEPT ![p] = TRUE] /\ h.isAllIn = g.isAllIn
            /\ h.hasActed = [g.hasActed EXCEPT ![p] = TRUE]
            /\ h.currentPlayerToAct = g.currentPlayerToAct
        BY <1>1, <2>1, FoldFacts DEF SameMoney
      <3>2. Seated(h) = Seated(g)
        BY <3>1 DEF Seated
      <3>3. PlayersWhoCanAct(h) \subseteq PlayersWhoCanAct(g)
        BY <1>4, <3>1, <3>2 DEF PlayersWhoCanAct, canAct
      <3>4. \A q \in PlayersWhoCanAct(h) : q # p => h.hasActed[q] = g.hasActed[q]
        BY <1>4, <3>1, <3>2 DEF PlayersWhoCanAct
      <3> QED BY <1>1, <1>2, <1>4, <3>1, <3>3, <3>4 DEF Acted
    <2>2. CASE validateCheck(g, p) /\ h = check(g, p)
      <3>1. /\ TableOK(h) /\ h.players = g.players /\ h.chipStack = g.chipStack
            /\ h.isFolded = g.isFolded /\ h.isAllIn = g.isAllIn
            /\ h.hasActed = [g.hasActed EXCEPT ![p] = TRUE]
            /\ h.currentPlayerToAct = g.currentPlayerToAct
        BY <1>1, <2>2, CheckFacts DEF SameMoney
      <3>2. Seated(h) = Seated(g)
        BY <3>1 DEF Seated
      <3>3. PlayersWhoCanAct(h) \subseteq PlayersWhoCanAct(g)
        BY <3>1, <3>2 DEF PlayersWhoCanAct, canAct
      <3>4. \A q \in PlayersWhoCanAct(h) : q # p => h.hasActed[q] = g.hasActed[q]
        BY <1>4, <3>1, <3>2 DEF PlayersWhoCanAct
      <3> QED BY <1>1, <1>2, <1>4, <3>1, <3>3, <3>4 DEF Acted
    <2>3. ASSUME NEW n \in Nat, h = processBet(g, p, n)
          PROVE  TableOK(h) /\ Acted(g, h, p)
      <3> DEFINE x == IF n > g.chipStack[p] THEN g.chipStack[p] ELSE n
      <3>1. TableOK(h) /\ AfterBet(g, h, p, n)
        BY <1>1, <2>3, ProcessBetFacts
      <3>2. /\ Staked(g, h, p, x) /\ h.currentPlayerToAct = p /\ h.hasActed[p]
            /\ \A q \in PlayersWhoCanAct(h) \ {p} :
                 h.hasActed[q] = (g.hasActed[q] /\ h.currentBet[p] <= getCurrentBet(g))
        BY <1>2, <3>1 DEF AfterBet
      <3> HIDE DEF x
      <3>3. /\ h.players = g.players /\ h.isFolded = g.isFolded
            /\ h.chipStack = [g.chipStack EXCEPT ![p] = @ - x]
            /\ h.isAllIn = [g.isAllIn EXCEPT ![p] = @ \/ g.chipStack[p] = x]
        BY <3>2 DEF Staked
      <3>4. Seated(h) = Seated(g)
        BY <3>3 DEF Seated
      <3>5. ASSUME NEW q \in PlayersWhoCanAct(h) PROVE q \in PlayersWhoCanAct(g)
        <4>1. CASE q = p
          BY <1>1, <4>1
        <4>2. CASE q # p
          BY <1>4, <3>3, <3>4, <4>2 DEF PlayersWhoCanAct, canAct
        <4> QED BY <4>1, <4>2
      <3>6. \A q \in PlayersWhoCanAct(h) : q \in Players
        BY <1>4, <3>5 DEF PlayersWhoCanAct
      <3>7. \/ \A q \in PlayersWhoCanAct(h) : q # p => h.hasActed[q] = g.hasActed[q]
            \/ \A q \in PlayersWhoCanAct(h) : q # p => ~h.hasActed[q]
        <4>1. CASE h.currentBet[p] <= getCurrentBet(g)
          BY <1>4, <3>2, <3>6, <4>1
        <4>2. CASE ~(h.currentBet[p] <= getCurrentBet(g))
          BY <1>4, <3>2, <3>6, <4>2
        <4> QED BY <4>1, <4>2
      <3> QED BY <3>1, <3>2, <3>3, <3>5, <3>7 DEF Acted
    <2> QED BY <1>3, <2>1, <2>2, <2>3 DEF Answer
  <1> DEFINE s == setNextPlayerToAct(h)
  <1>6. PlayersWhoCanAct(s) = PlayersWhoCanAct(h)
    <2>1. SameBets(h, s)
      BY <1>5, SetNextFacts
    <2> QED BY <2>1, SameBetsFair
  <1>7. PlayersWhoCanAct(h) # {} => Ordered(s)
    BY <1>2, <1>5, ActedOrdered
  <1> HIDE DEF s
  <1> QED BY <1>3, <1>6, <1>7 DEF s

(* A round that nobody has acted in is in order, and not closed. *)
LEMMA UnactedOrdered ==
  ASSUME NEW g, TableOK(g), \A p \in Players : ~g.hasActed[p]
  PROVE  Ordered(g) /\ (PlayersWhoCanAct(g) # {} => ~Closed(g))
  <1>1. \A x \in 0..(SeatCount(g) - 1) : PlayerAt(g, x) \in Players
    BY SeatFacts
  <1>2. PlayersWhoCanAct(g) \subseteq Players
    BY SeatFacts DEF PlayersWhoCanAct
  <1> QED BY <1>1, <1>2 DEF Ordered, Closed

(* A round that goes on has somebody who owes an answer. *)
LEMMA OpenRound ==
  ASSUME NEW g, Fair(g), ~isBettingRoundComplete(g)
  PROVE  ~Closed(g)
  BY DEF Fair, Matched, Closed, isBettingRoundComplete

(* The invariant of the turns. *)
OInv == /\ PInv
        /\ game.gameRunning /\ PlayersWhoCanAct(game) # {} =>
             Ordered(game) /\ ~Closed(game)

(* Every step keeps it. *)
LEMMA StepOrdered ==
  ASSUME Liberties \cap {"unoffered", "leave"} = {}, OInv, [Next]_vars
  PROVE  OInv'
  <1>1. /\ IInv /\ Good(game) /\ TableOK(game) /\ PInv
        /\ "unoffered" \notin Liberties /\ "leave" \notin Liberties
    BY DEF OInv, PInv, TurnInv, IInv, Good
  <1>2. PInv'
    BY <1>1, StepPlaying
  <1>3. TableOK(game') /\ Good(game')
    BY <1>2 DEF PInv, TurnInv, IInv, Good
  <1> DEFINE Goal == game'.gameRunning /\ PlayersWhoCanAct(game') # {} =>
                       Ordered(game') /\ ~Closed(game')
  <1> SUFFICES Goal
    BY <1>2 DEF OInv
  <1>4. ASSUME \A p \in Players : ~game'.hasActed[p] PROVE Goal
    BY <1>3, <1>4, UnactedOrdered
  <1>5. ASSUME NEW p \in Players, NEW chips \in BuyIns, AddPlayer(p, chips)
        PROVE  ~game'.gameRunning
    <2>1. chips \in Nat
      BY EngineAssumption
    <2> QED BY <1>1, <1>5, <2>1, AddPlayerGood DEF AddPlayer
  <1>6. ASSUME NEW p \in Players, RemovePlayer(p) PROVE ~game'.gameRunning
    BY <1>1, <1>6, RemovePlayersFacts DEF RemovePlayer
  <1>7. ASSUME StartHand PROVE Goal
    <2>1. Opened(game, game')
      BY <1>1, <1>7, StartedHandFacts DEF StartHand
    <2>2. \A p \in Players : ~game'.hasActed[p]
      BY <2>1 DEF Opened, Fresh
    <2> QED BY <1>4, <2>2
  <1>8. ASSUME NEW p \in Players, ProcessAction(p) \/ ForcePlayerAction(p) PROVE Goal
    <2>1. PICK a, strength : Played(p, a, strength)
      BY <1>1, <1>8, PlayedSteps
    <2> DEFINE u == [game EXCEPT !.thrown = FALSE]
               s == applyAction(u, p, a)
    <2>2. Continues(s, game')
      BY <1>1, <2>1, PlayedContinues
    <2>3. /\ TableOK(u) /\ SameBets(game, u) /\ validateAction(u, p, a)
          /\ u.currentPlayerToAct = game.currentPlayerToAct /\ a \in BotAction
          /\ Fair(u)
      BY <1>1, <2>1, ThrownReset DEF Played
    <2>4. Ordered(game) /\ p \in PlayersWhoCanAct(game)
      <3>1. p \in PlayersWhoCanAct(game)
        BY <1>1, <2>1, AcceptedActions DEF Played
      <3> QED BY <2>1, <3>1 DEF OInv, Played
    <2> HIDE DEF u
    <2>5. Ordered(u)
      <3>1. Seated(u) = Seated(game) /\ SeatCount(u) = SeatCount(game)
        BY <2>3 DEF SameBets, Seated, SeatCount
      <3>2. /\ \A x : PlayerAt(u, x) = PlayerAt(game, x)
            /\ \A q : canAct(u, q) = canAct(game, q)
            /\ u.hasActed = game.hasActed
        BY <2>3 DEF SameBets, PlayerAt, canAct
      <3>3. SeatOf(u, u.currentPlayerToAct) = SeatOf(game, game.currentPlayerToAct)
        BY <2>3, <3>1 DEF SameBets, SeatOf, PlayerAt
      <3> QED BY <2>4, <3>1, <3>2, <3>3 DEF Ordered
    <2>6. /\ PlayersWhoCanAct(s) # {} => Ordered(s)
          /\ Fair(s)
      BY <2>3, <2>5, ApplyActionOrdered, ApplyActionFacts
    <2> HIDE DEF s
    <2>7. CASE game' = s /\ ~isBettingRoundComplete(s)
      BY <2>6, <2>7, OpenRound
    <2>8. CASE ~game'.gameRunning
      BY <2>8
    <2>9. CASE \A q \in Players : ~game'.hasActed[q]
      BY <1>4, <2>9
    <2> QED BY <2>2, <2>7, <2>8, <2>9 DEF Continues
  <1>9. ASSUME UNCHANGED vars PROVE Goal
    BY <1>9 DEF vars, OInv
  <1> QED BY <1>5, <1>6, <1>7, <1>8, <1>9 DEF Next, TurnTimer

(* The turn is with somebody who can act and has not answered the last     *)
(* raise, on every street: if he had, so would everybody after him, and    *)
(* the round would be over.                                                *)
THEOREM TurnIsOwed ==
  ASSUME Liberties \cap {"unoffered", "leave"} = {}
  PROVE  Spec => []TurnOwed
  <1>1. Init => OInv
    BY InitPlaying DEF Init, EmptyTable, OInv
  <1>2. OInv /\ [Next]_vars => OInv'
    BY StepOrdered
  <1>3. OInv => TurnOwed
    <2> DEFINE p == game.currentPlayerToAct
               n == SeatCount(game)
               c == SeatOf(game, p)
    <2> SUFFICES ASSUME OInv, game.gameRunning, PlayersWhoCanAct(game) # {}
                 PROVE  p \in PlayersWhoCanAct(game) /\ ~game.hasActed[p]
      BY DEF TurnOwed
    <2>1. TableOK(game) /\ Turn(game) /\ Ordered(game) /\ ~Closed(game)
      BY DEF OInv, PInv, TurnInv, IInv, Good
    <2>2. p \in PlayersWhoCanAct(game)
      BY <2>1 DEF Turn
    <2>3. PICK q \in PlayersWhoCanAct(game) : ~game.hasActed[q]
      BY <2>1 DEF Closed
    <2>4. p \in Seated(game) /\ q \in Seated(game) /\ canAct(game, p) /\ canAct(game, q)
      BY <2>2, <2>3 DEF PlayersWhoCanAct
    <2>5. ASSUME game.hasActed[p] PROVE FALSE
      <3>1. c \in 0..(n - 1) /\ PlayerAt(game, c) = p /\ n \in Nat
        BY <2>1, <2>4, SeatOfFacts, SeatFacts
      <3>2. PICK y \in 0..(n - 1) : PlayerAt(game, y) = q
        BY <2>1, <2>4, SeatFacts
      <3> HIDE DEF c, n
      <3>3. c # y
        BY <2>3, <2>5, <3>1, <3>2
      <3>4. Dist(n, c, c) < Dist(n, c, y)
        BY <3>1, <3>2, <3>3 DEF Dist
      <3>5. game.hasActed[PlayerAt(game, y)]
        BY <2>1, <2>4, <2>5, <3>1, <3>2, <3>4 DEF Ordered, n, c
      <3> QED BY <2>3, <3>2, <3>5
    <2> QED BY <2>2, <2>5
  <1> QED BY <1>1, <1>2, <1>3, PTL DEF Spec

-----------------------------------------------------------------------------
(* The refinement of the ledger *)

(* The ledger counts chips as the engine does. *)
LEMMA LedgerTotal ==
  ASSUME NEW f
  PROVE  Ledger!Total(f) = Total(f)
  BY Zenon DEF Ledger!Total, Ledger!Chips, Total, Chips, Ledger!Cardinality, Cardinality

(* Who is in the hand and cannot act has put something in. *)
Committed(g) ==
  \A p \in PlayersInHand(g) : p \in PlayersWhoCanAct(g) \/ g.totalBetThisHand[p] > 0

(* What everybody has put in, up to the amount of q. *)
UpTo(t, q) == [x \in Players |-> IF t[x] < t[q] THEN t[x] ELSE t[q]]

(* The hand of table g is settled in h: what was put in is paid out, and   *)
(* nobody is paid more than the amounts that match his own.                *)
Settled(g, h) ==
  /\ ~h.gameRunning
  /\ \E w \in [Players -> Nat] :
       /\ Total(w) = Total(g.totalBetThisHand)
       /\ \A q \in Players : w[q] <= Total(UpTo(g.totalBetThisHand, q))
       /\ h.chipStack = [q \in Players |-> g.chipStack[q] + w[q]]

(* No chip has moved between g and h. *)
Held(g, h) ==
  /\ h.gameRunning
  /\ h.players = g.players /\ h.chipStack = g.chipStack
  /\ h.totalBetThisHand = g.totalBetThisHand
  /\ PlayersInHand(h) = PlayersInHand(g)
  /\ PlayersWhoCanAct(h) = PlayersWhoCanAct(g)

(* The amounts up to the one of q. *)
LEMMA UpToFacts ==
  ASSUME NEW t \in [Players -> Nat], NEW q \in Players
  PROVE  /\ CappedAt(UpTo(t, q), t, Players, t[q])
         /\ Total(UpTo(t, q)) \in Nat
         /\ (\A x \in Players : t[x] <= t[q]) => UpTo(t, q) = t
  <1> DEFINE m == UpTo(t, q)
  <1>1. m \in [Players -> Nat]
    BY DEF UpTo
  <1>2. \A x \in Players : m[x] = IF t[x] < t[q] THEN t[x] ELSE t[q]
    BY DEF UpTo
  <1> HIDE DEF m
  <1>3. CappedAt(m, t, Players, t[q])
    BY <1>1, <1>2 DEF CappedAt
  <1>4. Total(m) \in Nat
    BY <1>1, PlayersAssumption, TotalType
  <1>5. ASSUME \A x \in Players : t[x] <= t[q] PROVE m = t
    <2>1. \A x \in Players : m[x] = t[x]
      BY <1>2, <1>5
    <2> QED BY <1>1, <2>1
  <1> QED BY <1>3, <1>4, <1>5 DEF m

(* When a round is closed, who has put in nothing is in the hand only if   *)
(* nobody has put in anything.                                             *)
LEMMA ClosedStakes ==
  ASSUME NEW g, TableOK(g), Fair(g), Closed(g), Covered(g), Committed(g),
         NEW q \in PlayersInHand(g), g.totalBetThisHand[q] = 0
  PROVE  \A p \in Seated(g) : g.totalBetThisHand[p] = 0
  <1> DEFINE t == g.totalBetThisHand
             b == g.currentBet
             H == PlayersInHand(g)
  <1>1. /\ t \in [Players -> Nat] /\ b \in [Players -> Nat]
        /\ Seated(g) \subseteq Players /\ H \subseteq Seated(g)
    BY SeatFacts DEF TableOK, Table, PlayersInHand
  <1>2. q \in PlayersWhoCanAct(g)
    BY <1>1 DEF Committed
  <1>3. \A p \in H : b[q] >= b[p] /\ t[q] - b[q] >= t[p] - b[p]
    <2>1. b[q] = getCurrentBet(g)
      BY <1>2 DEF Fair, Matched, Closed
    <2>2. \A p \in H : b[p] <= getCurrentBet(g)
      BY CurrentBetFacts
    <2>3. \A p \in H : PaidBefore(g, q) >= PaidBefore(g, p)
      BY <1>2 DEF Fair, Even
    <2>4. b[q] \in Nat
      BY <1>1
    <2> QED BY <1>1, <2>1, <2>2, <2>3, <2>4 DEF PaidBefore
  <1>4. \A p \in H : t[p] = 0
    <2>1. t[q] = 0
      OBVIOUS
    <2> HIDE DEF t, b, H
    <2> QED BY <1>1, <1>3, <2>1 DEF H
  <1>5. ASSUME NEW p \in Seated(g) PROVE t[p] = 0
    <2>1. PICK c \in H : t[c] >= t[p]
      BY DEF Covered
    <2>2. t[c] = 0 /\ t[p] \in Nat
      BY <1>1, <1>4, <2>1
    <2> QED BY <2>1, <2>2
  <1> QED BY <1>5

(* Where one player is left, he covers what everybody has put in. *)
LEMMA LastPlayerCovers ==
  ASSUME NEW g, TableOK(g), Covered(g), Books(g), g.gameRunning,
         NEW q, PlayersInHand(g) = {q}
  PROVE  \A p \in Players : g.totalBetThisHand[p] <= g.totalBetThisHand[q]
  <1>1. g.totalBetThisHand \in [Players -> Nat] /\ q \in Players
    BY SeatFacts DEF TableOK, Table, PlayersInHand
  <1>2. \A p \in Seated(g) : g.totalBetThisHand[q] >= g.totalBetThisHand[p]
    BY DEF Covered
  <1>3. \A p \in Players \ Seated(g) : g.totalBetThisHand[p] = 0
    BY DEF Books, Funded
  <1> QED BY <1>1, <1>2, <1>3

(* The table of a showdown: the pots of g have been rebuilt. *)
Shown(g, a, strength) ==
  /\ TableOK(a) /\ a.currentPhase # "HandComplete" /\ ~NoWinner(a, strength)
  /\ a.chipStack = g.chipStack /\ PlayersInHand(a) = PlayersInHand(g)
  /\ a.pots = createSidePots(g.pots, Seated(g), g.totalBetThisHand, g.isFolded)

(* Nobody wins more at a showdown than his own amount matches. *)
LEMMA WinsAtMost ==
  ASSUME NEW g, TableOK(g), Fair(g), Closed(g), g.gameRunning,
         Covered(g), Books(g), Committed(g),
         NEW strength, NEW a, Shown(g, a, strength),
         NEW w, Wins(a, strength, w), NEW q \in Players
  PROVE  w[q] <= Total(UpTo(g.totalBetThisHand, q))
  <1> DEFINE t == g.totalBetThisHand
             m == UpTo(t, q)
             H == PlayersInHand(g)
             pots == createSidePots(g.pots, Seated(g), t, g.isFolded)
             evaluations == [p \in H |-> strength[p]]
             seat == [p \in H |-> SeatOf(a, p)]
  <1>1. /\ t \in [Players -> Nat] /\ Seated(g) \in SUBSET Players
        /\ H \subseteq Seated(g) /\ g.pots \in PotsOver(Players)
        /\ IsFiniteSet(Players)
    BY SeatFacts, PotsOfTable, PlayersAssumption DEF TableOK, Table, PlayersInHand
  <1>2. /\ getTotalPotAmount(g.pots) = Total(t)
        /\ \A p \in Players \ Seated(g) : t[p] = 0
    BY DEF Books, Funded
  <1>3. /\ CappedAt(m, t, Players, t[q]) /\ Total(m) \in Nat
        /\ (\A x \in Players : t[x] <= t[q]) => m = t
    BY <1>1, UpToFacts
  <1>4. /\ a.pots = pots /\ PlayersInHand(a) = H
        /\ pots \in PotsOver(Players)
    BY <1>1, CreateSidePotsType DEF Shown
  <1>5. getTotalPotAmount(pots) = Total(t)
    BY <1>1, <1>2, CreateSidePotsTotal
  <1> HIDE DEF m
  <1>6. CASE q \notin H
    <2>1. w[q] = 0
      BY <1>4, <1>6 DEF Wins
    <2> QED BY <1>3, <2>1 DEF m
  <1>7. CASE q \in H /\ Cardinality(H) = 1
    <2>1. w[q] = getTotalPotAmount(pots)
      BY <1>4, <1>7 DEF Wins
    <2>2. IsFiniteSet(H)
      BY <1>1, FS_Subset
    <2>3. H = {q}
      BY <1>7, <2>2, FS_Singleton
    <2>4. m = t
      BY <1>3, <2>3, LastPlayerCovers
    <2> QED BY <1>3, <1>5, <2>1, <2>4 DEF m
  <1>8. CASE q \in H /\ Cardinality(H) # 1
    <2>1. w[q] = Winnings(pots, evaluations, H, seat, q)
      BY <1>4, <1>8 DEF Wins
    <2>2. Winnings(pots, evaluations, H, seat, q) <= getTotalPotAmount(InReach(pots, q))
      <3> HIDE DEF pots, evaluations, seat, H
      <3> QED BY <1>1, <1>4, WinningsInReach
    <2>3. ~(Cardinality({p \in Seated(g) : ~g.isFolded[p]}) <= 1)
      <3>1. IsFiniteSet(H)
        BY <1>1, FS_Subset
      <3>2. Cardinality(H) \in Nat /\ Cardinality(H) # 0
        BY <1>8, <3>1, FS_CardinalityType, FS_EmptySet
      <3>3. ~(Cardinality(H) <= 1)
        BY <1>8, <3>2
      <3> QED BY <3>3 DEF PlayersInHand
    <2>4. t[q] = 0 => \A p \in Seated(g) : t[p] = 0
      BY <1>8, ClosedStakes
    <2>5. q \in Seated(g)
      BY <1>1, <1>8
    <2>6. getTotalPotAmount(InReach(pots, q)) <= Total(m)
      <3> HIDE DEF t
      <3> QED BY <1>1, <1>2, <1>3, <2>3, <2>4, <2>5, SidePotsInReach
    <2>7. getTotalPotAmount(InReach(pots, q)) \in Nat
      <3> DEFINE E == InReach(pots, q)
                 f == [x \in E |-> x.amount]
      <3>1. IsFiniteSet(E) /\ f \in [E -> Nat]
        <4>1. E \subseteq pots /\ IsFiniteSet(pots) /\ \A x \in pots : x.amount \in Nat
          BY <1>4 DEF InReach, PotsOver
        <4> HIDE DEF E
        <4> QED BY <4>1, FS_Subset
      <3>2. Total(f) \in Nat
        <4> HIDE DEF E, f
        <4> QED BY <3>1, TotalType
      <3> QED BY <3>2 DEF getTotalPotAmount
    <2>8. w[q] \in Nat
      BY DEF Wins
    <2> QED BY <1>3, <2>1, <2>2, <2>6, <2>7, <2>8 DEF m
  <1> QED BY <1>6, <1>7, <1>8

(* A showdown settles the hand. *)
LEMMA ShowdownSettles ==
  ASSUME NEW g, TableOK(g), Fair(g), Closed(g), g.gameRunning,
         Covered(g), Books(g), Committed(g),
         NEW strength, NEW a, Shown(g, a, strength)
  PROVE  Settled(g, determineWinners(a, strength))
  <1> DEFINE h == determineWinners(a, strength)
             t == g.totalBetThisHand
  <1>1. /\ TableOK(a) /\ a.currentPhase # "HandComplete" /\ ~NoWinner(a, strength)
        /\ a.chipStack = g.chipStack
    BY DEF Shown
  <1>2. PICK w : /\ Wins(a, strength, w)
                 /\ h.chipStack = [p \in Players |-> a.chipStack[p] + w[p]]
    BY <1>1, DetermineWinnersPays
  <1>3. ~h.gameRunning
    BY <1>1, DetermineWinnersPays
  <1>4. w \in [Players -> Nat]
    BY <1>2 DEF Wins
  <1>5. Total(w) = getTotalPotAmount(a.pots)
    BY <1>1, <1>2, WonTotal
  <1>6. getTotalPotAmount(a.pots) = Total(t)
    <2>1. /\ t \in [Players -> Nat] /\ Seated(g) \in SUBSET Players
          /\ g.pots \in PotsOver(Players) /\ IsFiniteSet(Players)
      BY SeatFacts, PotsOfTable, PlayersAssumption DEF TableOK, Table
    <2>2. /\ getTotalPotAmount(g.pots) = Total(t)
          /\ \A p \in Players \ Seated(g) : t[p] = 0
      BY DEF Books, Funded
    <2>3. getTotalPotAmount(createSidePots(g.pots, Seated(g), t, g.isFolded)) = Total(t)
      BY <2>1, <2>2, CreateSidePotsTotal
    <2> QED BY <2>3 DEF Shown
  <1>7. \A q \in Players : w[q] <= Total(UpTo(t, q))
    BY <1>2, WinsAtMost
  <1> HIDE DEF h
  <1> QED BY <1>1, <1>2, <1>3, <1>4, <1>5, <1>6, <1>7 DEF Settled, h

(* The last player of a hand is paid what was put in, and covers it. *)
LEMMA LastPlayerSettles ==
  ASSUME NEW g, TableOK(g), g.gameRunning, Playing(g), Books(g),
         isHandComplete(g), NEW strength
  PROVE  Settled(g, determineWinners(g, strength))
  <1> DEFINE h == determineWinners(g, strength)
             t == g.totalBetThisHand
  <1>1. /\ g.currentPhase # "HandComplete" /\ PlayersInHand(g) # {}
        /\ Cardinality(PlayersInHand(g)) <= 1
    BY DEF Playing, Betting, Covered, isHandComplete
  <1>2. IsFiniteSet(PlayersInHand(g))
    BY SeatFacts, FS_Subset DEF PlayersInHand
  <1>3. Cardinality(PlayersInHand(g)) = 1
    <2>1. Cardinality(PlayersInHand(g)) \in Nat /\ Cardinality(PlayersInHand(g)) # 0
      BY <1>1, <1>2, FS_CardinalityType, FS_EmptySet
    <2> QED BY <1>1, <2>1
  <1>4. ~NoWinner(g, strength)
    BY <1>3 DEF NoWinner
  <1>5. PICK w : /\ Wins(g, strength, w)
                 /\ h.chipStack = [p \in Players |-> g.chipStack[p] + w[p]]
    BY <1>1, <1>4, DetermineWinnersPays
  <1>6. ~h.gameRunning
    BY <1>1, <1>4, DetermineWinnersPays
  <1>7. getTotalPotAmount(g.pots) = Total(t)
    BY DEF Books, Funded
  <1>8. Total(w) = Total(t)
    BY <1>4, <1>5, <1>7, WonTotal
  <1>9. ASSUME NEW q \in Players PROVE w[q] <= Total(UpTo(t, q))
    <2>1. /\ t \in [Players -> Nat]
      BY DEF TableOK, Table
    <2>2. /\ Total(UpTo(t, q)) \in Nat
          /\ (\A x \in Players : t[x] <= t[q]) => UpTo(t, q) = t
      BY <2>1, UpToFacts
    <2>3. CASE q \notin PlayersInHand(g)
      <3>1. w[q] = 0
        BY <1>5, <2>3 DEF Wins
      <3> QED BY <2>2, <3>1
    <2>4. CASE q \in PlayersInHand(g)
      <3>1. PlayersInHand(g) = {q}
        BY <1>2, <1>3, <2>4, FS_Singleton
      <3>2. UpTo(t, q) = t
        BY <2>2, <3>1, LastPlayerCovers DEF Playing
      <3>3. w[q] = Total(t)
        BY <1>3, <1>5, <1>7, <2>4 DEF Wins
      <3> QED BY <2>2, <3>2, <3>3
    <2> QED BY <2>3, <2>4
  <1>10. w \in [Players -> Nat]
    BY <1>5 DEF Wins
  <1> HIDE DEF h
  <1> QED BY <1>5, <1>6, <1>8, <1>9, <1>10 DEF Settled, h

(* A street moves no chip, or is the showdown and settles the hand. *)
LEMMA StreetSettles ==
  ASSUME NEW g, TableOK(g), Fair(g), Closed(g), g.gameRunning, Playing(g),
         Books(g), Committed(g), NEW strength, Ranked(g, strength)
  PROVE  LET h == Street(g, strength) IN Held(g, h) \/ Settled(g, h)
  <1> DEFINE s == createSidePotsOf(g)
             h == Street(g, strength)
             a == advancePhase(s)
  <1>1. /\ TableOK(s) /\ SameBets(g, s) /\ s.currentPhase = g.currentPhase
        /\ s.gameRunning /\ s.thrown = g.thrown
        /\ s.pots = createSidePots(g.pots, Seated(g), g.totalBetThisHand, g.isFolded)
    BY CreateSidePotsFacts DEF Playing
  <1>2. /\ g.currentPhase \in Betting /\ Covered(g) /\ g.currentPhase # "HandComplete"
    BY DEF Playing, Betting
  <1>3. /\ PlayersInHand(s) = PlayersInHand(g)
        /\ PlayersWhoCanAct(s) = PlayersWhoCanAct(g)
    BY <1>1, SameBetsFair
  <1>4. h = IF s.currentPhase = "River" THEN determineWinners(a, strength) ELSE a
    BY <1>1, <1>2 DEF Street, startShowdown, Betting
  <1> HIDE DEF s, h
  <1>5. /\ TableOK(a) /\ a.currentPhase = NextPhase[g.currentPhase]
        /\ a.gameRunning /\ SameMoney(s, a)
        /\ PlayersInHand(a) = PlayersInHand(g)
        /\ PlayersWhoCanAct(a) = PlayersWhoCanAct(g)
    BY <1>1, <1>2, <1>3, AdvancePhaseFacts
  <1> HIDE DEF a
  <1>6. /\ a.players = g.players /\ a.chipStack = g.chipStack
        /\ a.totalBetThisHand = g.totalBetThisHand
        /\ a.pots = createSidePots(g.pots, Seated(g), g.totalBetThisHand, g.isFolded)
    BY <1>1, <1>5 DEF SameBets, SameMoney
  <1>7. CASE g.currentPhase = "River"
    <2>1. ~NoWinner(a, strength)
      BY <1>2, <1>5, <1>6, SidePotsHaveWinners
    <2>2. a.currentPhase # "HandComplete"
      BY <1>5, <1>7 DEF NextPhase
    <2>3. Shown(g, a, strength)
      BY <1>5, <1>6, <2>1, <2>2 DEF Shown
    <2>4. Settled(g, determineWinners(a, strength))
      BY <1>2, <2>3, ShowdownSettles
    <2> QED BY <1>1, <1>4, <1>7, <2>4 DEF h
  <1>8. CASE g.currentPhase # "River"
    <2>1. h = a
      BY <1>1, <1>4, <1>8
    <2> QED BY <1>5, <1>6, <2>1 DEF Held, h
  <1> QED BY <1>7, <1>8

(* Nothing has happened to the money since table g, or it is settled. *)
Since(g, h) == IF h.gameRunning THEN Held(g, h) ELSE Settled(g, h)

(* Stages follow one another. *)
LEMMA HeldSince ==
  ASSUME NEW g, NEW h, Held(g, h), NEW k, Held(h, k) \/ Settled(h, k)
  PROVE  Since(g, k)
  <1>1. CASE Held(h, k)
    BY <1>1 DEF Held, Since
  <1>2. CASE Settled(h, k)
    <2>1. h.totalBetThisHand = g.totalBetThisHand /\ h.chipStack = g.chipStack
      BY DEF Held
    <2> QED BY <1>2, <2>1 DEF Settled, Since
  <1> QED BY <1>1, <1>2

(* Who has put in what stays. *)
LEMMA HeldCommitted ==
  ASSUME NEW g, Committed(g), NEW h, Held(g, h)
  PROVE  Committed(h)
  BY DEF Held, Committed

(* The loop over the streets. *)
LEMMA StreetAgainSettles ==
  ASSUME NEW g, Committed(g), NEW r, NEW strength, NEW S, Later(r, strength, S),
         Books(r), Since(g, r)
  PROVE  LET h == StreetAgain(r, strength) IN Books(h) /\ Since(g, h)
  <1> DEFINE h == StreetAgain(r, strength)
             again == /\ r.gameRunning /\ ~r.thrown
                      /\ PlayersWhoCanAct(r) = {} /\ ~isHandComplete(r)
  <1>1. Books(h)
    BY StreetAgainBooks DEF Later
  <1>2. IF again THEN h = Street(r, strength) ELSE h = r
    BY DEF StreetAgain
  <1> HIDE DEF h
  <1>3. CASE again
    <2>1. /\ TableOK(r) /\ Fair(r) /\ Closed(r) /\ Playing(r) /\ Ranked(r, strength)
          /\ r.gameRunning
      BY <1>3 DEF Later, Good, Closed
    <2>2. Held(g, r) /\ Committed(r)
      BY <2>1, HeldCommitted DEF Since
    <2>3. Held(r, h) \/ Settled(r, h)
      BY <1>2, <1>3, <2>1, <2>2, StreetSettles
    <2>4. Since(g, h)
      BY <2>2, <2>3, HeldSince
    <2> QED BY <1>1, <2>4 DEF h
  <1>4. CASE ~again
    BY <1>1, <1>2, <1>4 DEF h
  <1> QED BY <1>3, <1>4

(* completeBettingRound() moves no chip, or settles the hand. *)
LEMMA CompleteBettingRoundSettles ==
  ASSUME NEW g, TableOK(g), Fair(g), Closed(g), g.gameRunning, Playing(g),
         Books(g), Committed(g), NEW strength, Ranked(g, strength)
  PROVE  LET h == completeBettingRound(g, strength) IN Books(h) /\ Since(g, h)
  <1> DEFINE s1 == Street(g, strength)
             s2 == StreetAgain(s1, strength)
             s3 == StreetAgain(s2, strength)
             s4 == StreetAgain(s3, strength)
  <1>1. /\ Follow(Betting, {"Flop", "Turn", "River"})
        /\ Follow({"Flop", "Turn", "River"}, {"Turn", "River"})
        /\ Follow({"Turn", "River"}, {"River"})
    BY DEF Follow, Betting, NextPhase
  <1>2. completeBettingRound(g, strength) = s4
    BY DEF completeBettingRound
  <1>3. Later(s1, strength, {"Flop", "Turn", "River"})
    BY <1>1, StreetLater DEF Playing
  <1>4. Books(s1) /\ Since(g, s1)
    <2>1. Held(g, s1) \/ Settled(g, s1)
      BY StreetSettles
    <2>2. g.currentPhase # "HandComplete"
      BY DEF Playing, Betting
    <2>3. Books(s1)
      BY <2>2, StreetBooks
    <2> HIDE DEF s1
    <2> QED BY <2>1, <2>3 DEF Since, Held, Settled
  <1> HIDE DEF s1
  <1>5. Later(s2, strength, {"Turn", "River"}) /\ Books(s2) /\ Since(g, s2)
    BY <1>1, <1>3, <1>4, StreetAgainLater, StreetAgainSettles
  <1> HIDE DEF s2
  <1>6. Later(s3, strength, {"River"}) /\ Books(s3) /\ Since(g, s3)
    BY <1>1, <1>5, StreetAgainLater, StreetAgainSettles
  <1> HIDE DEF s3
  <1>7. Books(s4) /\ Since(g, s4)
    BY <1>6, StreetAgainSettles
  <1> QED BY <1>2, <1>7

(* p has moved n chips from his stack to his stake. *)
Puts(g, h, p, n) ==
  /\ n \in Nat /\ n <= g.chipStack[p]
  /\ h.chipStack = [g.chipStack EXCEPT ![p] = @ - n]
  /\ h.totalBetThisHand = [g.totalBetThisHand EXCEPT ![p] = @ + n]

(* Who puts in the last of his chips has put something in. *)
LEMMA StakedCommitted ==
  ASSUME NEW g, TableOK(g), Committed(g), NEW p \in PlayersWhoCanAct(g),
         NEW n \in Nat, n <= g.chipStack[p], NEW h, Staked(g, h, p, n)
  PROVE  Committed(h) /\ Puts(g, h, p, n)
  <1>1. /\ g.chipStack \in [Players -> Nat] /\ g.totalBetThisHand \in [Players -> Nat]
        /\ g.isAllIn \in [Players -> BOOLEAN]
        /\ p \in Players /\ Seated(g) \subseteq Players
        /\ PlayersInHand(g) \subseteq Seated(g)
    BY SeatFacts DEF TableOK, Table, PlayersWhoCanAct, PlayersInHand
  <1>2. /\ h.players = g.players /\ h.isFolded = g.isFolded
        /\ h.chipStack = [g.chipStack EXCEPT ![p] = @ - n]
        /\ h.totalBetThisHand = [g.totalBetThisHand EXCEPT ![p] = @ + n]
        /\ h.isAllIn = [g.isAllIn EXCEPT ![p] = @ \/ g.chipStack[p] = n]
    BY DEF Staked
  <1>3. Seated(h) = Seated(g)
    BY <1>2 DEF Seated
  <1>4. PlayersInHand(h) = PlayersInHand(g)
    BY <1>2, <1>3 DEF PlayersInHand
  <1>5. ASSUME NEW q \in PlayersInHand(h)
        PROVE  q \in PlayersWhoCanAct(h) \/ h.totalBetThisHand[q] > 0
    <2>1. q \in Seated(g) /\ q \in Players /\ q \in PlayersInHand(g)
      BY <1>1, <1>4
    <2>2. CASE q # p
      <3>1. /\ h.chipStack[q] = g.chipStack[q] /\ h.isAllIn[q] = g.isAllIn[q]
            /\ h.totalBetThisHand[q] = g.totalBetThisHand[q]
            /\ h.isFolded[q] = g.isFolded[q]
        BY <1>1, <1>2, <2>1, <2>2
      <3>2. q \in PlayersWhoCanAct(g) \/ g.totalBetThisHand[q] > 0
        BY <2>1 DEF Committed
      <3> QED BY <1>3, <3>1, <3>2 DEF PlayersWhoCanAct, canAct
    <2>3. CASE q = p
      <3>1. ~g.isFolded[p] /\ ~g.isAllIn[p] /\ g.chipStack[p] > 0
        BY DEF PlayersWhoCanAct, canAct
      <3>2. CASE g.chipStack[p] = n
        <4>1. h.totalBetThisHand[p] = g.totalBetThisHand[p] + n
          BY <1>1, <1>2
        <4>2. g.totalBetThisHand[p] \in Nat /\ n > 0
          BY <1>1, <3>1, <3>2
        <4> QED BY <2>3, <4>1, <4>2
      <3>3. CASE g.chipStack[p] # n
        <4>1. h.chipStack[p] = g.chipStack[p] - n
          BY <1>1, <1>2
        <4>2. h.isAllIn[p] = FALSE
          BY <1>1, <1>2, <3>1, <3>3
        <4>3. h.chipStack[p] > 0 /\ ~h.isFolded[p] /\ p \in Seated(h)
          BY <1>1, <1>2, <1>3, <2>1, <2>3, <3>1, <3>3, <4>1
        <4> QED BY <2>3, <4>2, <4>3 DEF PlayersWhoCanAct, canAct
      <3> QED BY <3>2, <3>3
    <2> QED BY <2>2, <2>3
  <1>6. Committed(h)
    BY <1>5 DEF Committed
  <1>7. Puts(g, h, p, n)
    BY <1>2 DEF Puts
  <1> QED BY <1>6, <1>7

(* An accepted action puts in chips of the player, or none. *)
LEMMA ApplyActionPuts ==
  ASSUME NEW g, TableOK(g), Committed(g),
         NEW p, NEW a \in BotAction, validateAction(g, p, a)
  PROVE  LET h == applyAction(g, p, a)
         IN  Committed(h) /\ \E n : Puts(g, h, p, n)
  <1>1. p \in PlayersWhoCanAct(g) /\ p \in PlayersInHand(g) /\ p \in Players
    BY AcceptedActions
  <1>2. PICK h : Answer(g, h, p, a) /\ applyAction(g, p, a) = setNextPlayerToAct(h)
    BY AcceptedActions
  <1>3. ASSUME SameMoney(g, h) PROVE Puts(g, h, p, 0)
    <2>1. /\ g.chipStack \in [Players -> Nat] /\ g.totalBetThisHand \in [Players -> Nat]
      BY DEF TableOK, Table
    <2>2. /\ [g.chipStack EXCEPT ![p] = @ - 0] = g.chipStack
          /\ [g.totalBetThisHand EXCEPT ![p] = @ + 0] = g.totalBetThisHand
      BY <1>1, <2>1
    <2>3. 0 <= g.chipStack[p]
      BY <1>1, <2>1
    <2> QED BY <1>3, <2>2, <2>3 DEF Puts, SameMoney
  <1>4. TableOK(h) /\ Committed(h) /\ \E n : Puts(g, h, p, n)
    <2>1. CASE h = fold(g, p)
      <3>1. /\ TableOK(h) /\ SameMoney(g, h) /\ h.isFolded = [g.isFolded EXCEPT ![p] = TRUE]
        BY <1>1, <2>1, FoldFacts
      <3>2. h.isAllIn = g.isAllIn
        BY <2>1 DEF fold, TableOK, Table
      <3>3. Committed(h)
        <4>1. Seated(h) = Seated(g)
          BY <3>1 DEF SameMoney, Seated
        <4>2. Seated(g) \subseteq Players /\ g.isFolded \in [Players -> BOOLEAN]
          BY SeatFacts DEF TableOK, Table
        <4>3. \A q \in Seated(g) : ~h.isFolded[q] => ~g.isFolded[q]
          BY <1>1, <3>1, <4>2
        <4>4. ASSUME NEW q \in PlayersInHand(h)
              PROVE  q \in PlayersWhoCanAct(h) \/ h.totalBetThisHand[q] > 0
          <5>1. q \in Seated(g) /\ ~h.isFolded[q] /\ q \in PlayersInHand(g)
            BY <4>1, <4>3 DEF PlayersInHand
          <5>2. q \in PlayersWhoCanAct(g) \/ g.totalBetThisHand[q] > 0
            BY <5>1 DEF Committed
          <5> QED BY <3>1, <3>2, <4>1, <5>1, <5>2 DEF PlayersWhoCanAct, canAct, SameMoney
        <4> QED BY <4>4 DEF Committed
      <3> QED BY <1>3, <3>1, <3>3
    <2>2. CASE validateCheck(g, p) /\ h = check(g, p)
      <3>1. TableOK(h) /\ SameMoney(g, h) /\ h.isFolded = g.isFolded
        BY <1>1, <2>2, CheckFacts
      <3>2. h.isAllIn = g.isAllIn
        BY <2>2 DEF check, TableOK, Table
      <3>3. Seated(h) = Seated(g)
        BY <3>1 DEF SameMoney, Seated
      <3>4. Committed(h)
        BY <3>1, <3>2, <3>3
           DEF Committed, PlayersInHand, PlayersWhoCanAct, canAct, SameMoney
      <3> QED BY <1>3, <3>1, <3>4
    <2>3. ASSUME NEW n \in Nat, n <= g.chipStack[p], h = processBet(g, p, n)
          PROVE  TableOK(h) /\ Committed(h) /\ \E m : Puts(g, h, p, m)
      <3>1. TableOK(h) /\ AfterBet(g, h, p, n)
        BY <1>1, <2>3, ProcessBetFacts
      <3>2. ~(n > g.chipStack[p])
        BY <1>1, <2>3 DEF TableOK, Table
      <3>3. Staked(g, h, p, n)
        BY <3>1, <3>2 DEF AfterBet
      <3>4. Committed(h) /\ Puts(g, h, p, n)
        BY <1>1, <2>3, <3>3, StakedCommitted
      <3> QED BY <3>1, <3>4
    <2> QED BY <1>2, <2>1, <2>2, <2>3 DEF Answer
  <1> DEFINE k == setNextPlayerToAct(h)
  <1>5. SameBets(h, k)
    BY <1>4, SetNextFacts
  <1> HIDE DEF k
  <1>6. Committed(k)
    <2>1. PlayersInHand(k) = PlayersInHand(h) /\ PlayersWhoCanAct(k) = PlayersWhoCanAct(h)
      BY <1>5, SameBetsFair
    <2> QED BY <1>4, <1>5, <2>1 DEF Committed, SameBets
  <1>7. \E n : Puts(g, k, p, n)
    BY <1>4, <1>5 DEF Puts, SameBets
  <1> QED BY <1>2, <1>6, <1>7 DEF k

(* What an action does to the money. *)
LEMMA ProcessedSettles ==
  ASSUME NEW g, Good(g), g.gameRunning, Playing(g), Books(g), Committed(g),
         NEW p, NEW a \in BotAction, validateAction(g, p, a),
         a.type = "fold" => getCallAmount(g, p) > 0,
         NEW strength, Ranked(g, strength)
  PROVE  LET h == Processed(g, p, a, strength)
         IN  \E s, n : /\ Puts(g, s, p, n) /\ Since(s, h)
                       /\ h.gameRunning => Committed(h)
  <1> DEFINE u == [g EXCEPT !.thrown = FALSE]
             s == applyAction(u, p, a)
             r == IF isBettingRoundComplete(s) THEN completeBettingRound(s, strength)
                  ELSE s
             h == Processed(g, p, a, strength)
  <1>1. h = IF r.gameRunning /\ ~r.thrown /\ isHandComplete(r)
            THEN determineWinners(r, strength) ELSE r
    BY DEF Processed
  <1>2. /\ TableOK(u) /\ SameBets(g, u) /\ SameMoney(g, u) /\ u.gameRunning /\ ~u.thrown
        /\ u.currentPhase = g.currentPhase /\ Fair(u) /\ validateAction(u, p, a)
    BY ThrownReset
  <1>3. u.gameRunning = g.gameRunning
    BY DEF Good, TableOK, Table
  <1> HIDE DEF u
  <1>4. /\ Covered(u) /\ Bettors(u) /\ u.currentPhase \in Betting
        /\ a.type = "fold" => getCallAmount(u, p) > 0
    <2>1. Covered(u) /\ Bettors(u)
      BY <1>2, SameBetsPlaying DEF SameBets, Playing
    <2>2. getCallAmount(u, p) = getCallAmount(g, p)
      BY <1>2, SameBetsFair DEF SameBets, getCallAmount
    <2> QED BY <1>2, <2>1, <2>2 DEF Playing
  <1>5. Books(u) /\ Committed(u)
    <2>1. Books(u)
      BY <1>2, <1>3, SameMoneyBooks
    <2>2. Committed(u)
      BY <1>2, SameBetsFair DEF SameBets, Committed
    <2> QED BY <2>1, <2>2
  <1>6. /\ TableOK(s) /\ Fair(s) /\ s.currentPhase \in Betting /\ s.gameRunning
        /\ ~s.thrown
    BY <1>2, <1>4, ApplyActionFacts
  <1>7. Covered(s) /\ Bettors(s)
    BY <1>2, <1>4, ApplyActionPlaying
  <1>8. Books(s)
    BY <1>2, <1>5, ApplyActionBooks
  <1>9. Committed(s) /\ \E n : Puts(u, s, p, n)
    BY <1>2, <1>5, ApplyActionPuts
  <1>10. PlayersInHand(s) \subseteq PlayersInHand(g)
    <2>1. PlayersInHand(s) \subseteq PlayersInHand(u)
      BY <1>2, ApplyActionInHand
    <2> QED BY <1>2, <2>1, SameBetsFair
  <1>11. PICK n : Puts(g, s, p, n)
    BY <1>2, <1>9 DEF Puts, SameBets
  <1> HIDE DEF s, h
  <1>12. Playing(s) /\ Ranked(s, strength)
    BY <1>6, <1>7, <1>10 DEF Playing, Ranked
  <1>13. TableOK(r) /\ Playing(r) /\ Books(r) /\ Since(s, r)
    <2>1. CASE isBettingRoundComplete(s)
      <3>1. Closed(s)
        BY <2>1 DEF isBettingRoundComplete, Closed
      <3>2. Later(r, strength, {})
        BY <1>6, <1>12, <2>1, <3>1, CompleteBettingRoundLater
      <3>3. Books(r) /\ Since(s, r)
        BY <1>6, <1>8, <1>9, <1>12, <2>1, <3>1, CompleteBettingRoundSettles
      <3> HIDE DEF r
      <3> QED BY <3>2, <3>3 DEF Later, Good
    <2>2. CASE ~isBettingRoundComplete(s)
      BY <1>6, <1>8, <1>12, <2>2 DEF Since, Held
    <2> QED BY <2>1, <2>2
  <1> HIDE DEF r
  <1>14. Since(s, h)
    <2>1. CASE r.gameRunning /\ isHandComplete(r)
      <3>1. h = determineWinners(r, strength)
        BY <1>1, <1>13, <2>1 DEF Playing
      <3>2. Settled(r, h)
        BY <1>13, <2>1, <3>1, LastPlayerSettles
      <3>3. Held(s, r)
        BY <1>13, <2>1 DEF Since
      <3> QED BY <3>2, <3>3, HeldSince
    <2>2. CASE ~(r.gameRunning /\ isHandComplete(r))
      <3>1. h = r
        BY <1>1, <2>2
      <3> QED BY <1>13, <3>1
    <2> QED BY <2>1, <2>2
  <1>15. h.gameRunning => Committed(h)
    BY <1>9, <1>14, HeldCommitted DEF Since
  <1> QED BY <1>11, <1>14, <1>15 DEF h

(* sb and bb have posted x and y. *)
Blinds(g, h, sb, bb, x, y) ==
  /\ sb \in Players /\ bb \in Players /\ sb # bb
  /\ x \in 1..g.chipStack[sb] /\ y \in 1..g.chipStack[bb]
  /\ h.chipStack = [g.chipStack EXCEPT ![sb] = @ - x, ![bb] = @ - y]
  /\ h.totalBetThisHand = [[p \in Players |-> 0] EXCEPT ![sb] = x, ![bb] = y]

(* A hand starts with two blinds, of players who have chips. *)
LEMMA StartedHandBlinds ==
  ASSUME NEW g, TableOK(g), SeatCount(g) >= 2, Solvent(g)
  PROVE  LET h == StartedHand(g)
         IN  Committed(h) /\ \E sb, bb, x, y : Blinds(g, h, sb, bb, x, y)
  <1> DEFINE h == StartedHand(g)
  <1>1. PICK n, s, t, x, y : \E sb, bb \in Seated(g) :
          /\ TableOK(n) /\ NewHand(g, n)
          /\ sb # bb
          /\ Posted(n, s, sb, SmallBlindAmount, x)
          /\ Posted(s, t, bb, BigBlindAmount, y)
          /\ Dealt(t, h)
    BY StartedHandSteps
  <1>2. PICK sb \in Seated(g), bb \in Seated(g) :
          /\ sb # bb
          /\ Posted(n, s, sb, SmallBlindAmount, x)
          /\ Posted(s, t, bb, BigBlindAmount, y)
    BY <1>1
  <1> HIDE DEF h
  <1>3. /\ g.chipStack \in [Players -> Nat] /\ sb \in Players /\ bb \in Players
        /\ Seated(g) \subseteq Players
    BY SeatFacts DEF TableOK, Table
  <1>4. g.chipStack[sb] > 0 /\ g.chipStack[bb] > 0
    BY DEF Solvent
  <1>5. /\ n.chipStack = g.chipStack /\ n.players = g.players
        /\ \A p \in Players : /\ n.totalBetThisHand[p] = 0
                              /\ ~n.isFolded[p] /\ ~n.isAllIn[p]
        /\ TableOK(n) /\ TableOK(s) /\ TableOK(t) /\ SameBets(t, h)
    BY <1>1, <1>2 DEF NewHand, Posted, Dealt
  <1>6. Seated(n) = Seated(g)
    BY <1>5 DEF Seated
  <1>7. \A p \in Seated(n) : p \in PlayersWhoCanAct(n)
    BY <1>3, <1>5, <1>6 DEF PlayersWhoCanAct, canAct, Solvent
  <1>8. Committed(n)
    BY <1>7 DEF Committed, PlayersInHand
  <1>9. /\ Staked(n, s, sb, x) /\ Staked(s, t, bb, y)
        /\ x \in Nat /\ x <= n.chipStack[sb] /\ y \in Nat /\ y <= s.chipStack[bb]
        /\ x = SmallBlindAmount \/ x = n.chipStack[sb]
        /\ y = BigBlindAmount \/ y = s.chipStack[bb]
    BY <1>2 DEF Posted
  <1>10. sb \in PlayersWhoCanAct(n)
    BY <1>6, <1>7
  <1>11. Committed(s) /\ Puts(n, s, sb, x)
    BY <1>5, <1>8, <1>9, <1>10, StakedCommitted
  <1>12. s.chipStack[bb] = g.chipStack[bb] /\ bb \in PlayersWhoCanAct(s)
    <2>1. /\ s.chipStack = [n.chipStack EXCEPT ![sb] = @ - x]
          /\ s.isAllIn = [n.isAllIn EXCEPT ![sb] = @ \/ n.chipStack[sb] = x]
          /\ s.isFolded = n.isFolded /\ s.players = n.players
      BY <1>9 DEF Staked
    <2>2. /\ n.chipStack \in [Players -> Nat] /\ n.isAllIn \in [Players -> BOOLEAN]
      BY <1>5 DEF TableOK, Table
    <2>3. s.chipStack[bb] = n.chipStack[bb] /\ s.isAllIn[bb] = n.isAllIn[bb]
      BY <1>2, <1>3, <2>1, <2>2
    <2>4. Seated(s) = Seated(n)
      BY <2>1 DEF Seated
    <2>5. bb \in Seated(s) /\ ~s.isFolded[bb] /\ ~s.isAllIn[bb] /\ s.chipStack[bb] > 0
      BY <1>3, <1>4, <1>5, <1>6, <2>1, <2>3, <2>4
    <2> QED BY <1>5, <2>3, <2>5 DEF PlayersWhoCanAct, canAct
  <1>13. Committed(t) /\ Puts(s, t, bb, y)
    BY <1>5, <1>9, <1>11, <1>12, StakedCommitted
  <1>14. Committed(h)
    BY <1>5, <1>13, SameBetsFair DEF SameBets, Committed
  <1>15. x \in 1..g.chipStack[sb] /\ y \in 1..g.chipStack[bb]
    <2>1. x > 0 /\ y > 0
      BY <1>3, <1>4, <1>5, <1>9, <1>12, BlindsAssumption
    <2> QED BY <1>3, <1>5, <1>9, <1>12, <2>1
  <1>16. h.chipStack = [g.chipStack EXCEPT ![sb] = @ - x, ![bb] = @ - y]
    <2>1. h.chipStack = [[g.chipStack EXCEPT ![sb] = @ - x] EXCEPT ![bb] = @ - y]
      BY <1>5, <1>11, <1>13 DEF Puts, SameBets
    <2> QED BY <1>2, <1>3, <2>1
  <1>17. h.totalBetThisHand = [[p \in Players |-> 0] EXCEPT ![sb] = x, ![bb] = y]
    <2> DEFINE z == [p \in Players |-> 0]
    <2>1. n.totalBetThisHand = z
      <3>1. n.totalBetThisHand \in [Players -> Nat]
        BY <1>5 DEF TableOK, Table
      <3> QED BY <1>5, <3>1
    <2>2. h.totalBetThisHand = [[z EXCEPT ![sb] = @ + x] EXCEPT ![bb] = @ + y]
      <3> HIDE DEF z
      <3> QED BY <1>5, <1>11, <1>13, <2>1 DEF Puts, SameBets
    <2>3. [[z EXCEPT ![sb] = @ + x] EXCEPT ![bb] = @ + y] = [z EXCEPT ![sb] = x, ![bb] = y]
      <3>1. 0 + x = x /\ 0 + y = y
        BY <1>9
      <3> QED BY <1>2, <1>3, <3>1
    <2> QED BY <2>2, <2>3
  <1>18. Blinds(g, h, sb, bb, x, y)
    BY <1>2, <1>3, <1>15, <1>16, <1>17 DEF Blinds
  <1> QED BY <1>14, <1>18 DEF h

-----------------------------------------------------------------------------
(* The steps of the ledger *)

(* The invariant behind the refinement. *)
LInv == SInv /\ BInv /\ (game.gameRunning => Committed(game))

(* A player sits down. *)
LEMMA AddPlayerLedger ==
  ASSUME LInv, NEW p \in Players, NEW chips \in BuyIns, AddPlayer(p, chips)
  PROVE  Ledger!Next
  <1>1. TableOK(game) /\ Books(game)
    BY DEF LInv, BInv, IInv, Good
  <1>2. /\ game' = addPlayer(game, p, chips) /\ ~game.gameRunning
        /\ p \notin Seated(game) /\ chips \in Nat /\ chips > 0
    BY EngineAssumption DEF AddPlayer
  <1>3. /\ game'.gameRunning = game.gameRunning
        /\ game'.chipStack = [game.chipStack EXCEPT ![p] = chips]
        /\ game.chipStack \in [Players -> Nat]
    BY <1>1, <1>2 DEF addPlayer, TableOK, Table
  <1>4. game.chipStack[p] = 0
    BY <1>1, <1>2 DEF Books
  <1>5. game'.chipStack[p] = chips
    BY <1>3
  <1>6. Ledger!SitDown(p)
    BY <1>2, <1>3, <1>4, <1>5 DEF Ledger!SitDown
  <1> QED BY <1>6 DEF Ledger!Next

(* A player leaves between two hands. *)
LEMMA RemovePlayerLedger ==
  ASSUME "leave" \notin Liberties, LInv, NEW p \in Players, RemovePlayer(p)
  PROVE  Ledger!Next
  <1>1. TableOK(game)
    BY DEF LInv, BInv, IInv, Good
  <1>2. ~game.gameRunning /\ game' = removePlayers(game, {p})
    BY DEF RemovePlayer
  <1>3. /\ game'.gameRunning = game.gameRunning /\ TableOK(game')
        /\ Left(game, game', {p})
    BY <1>1, <1>2, RemovePlayersFacts
  <1>4. game.chipStack \in [Players -> Nat] /\ game'.chipStack \in [Players -> Nat]
    BY <1>1, <1>3 DEF TableOK, Table
  <1>5. game'.chipStack = [game.chipStack EXCEPT ![p] = 0]
    <2>1. \A q \in Players : game'.chipStack[q] = IF q \in {p} THEN 0 ELSE game.chipStack[q]
      BY <1>3 DEF Left
    <2> QED BY <1>4, <2>1
  <1>6. Ledger!CashOut(p)
    BY <1>2, <1>3, <1>5 DEF Ledger!CashOut
  <1> QED BY <1>6 DEF Ledger!Next

(* The blinds are dealt. *)
LEMMA StartHandLedger ==
  ASSUME "restart" \notin Liberties, LInv, StartHand
  PROVE  Ledger!Next /\ Committed(game')
  <1>1. /\ TableOK(game) /\ ~game.gameRunning /\ game' = StartedHand(game)
        /\ SeatCount(game) >= 2 /\ Solvent(game)
    BY DEF LInv, SInv, BInv, IInv, Good, StartHand
  <1>2. Committed(game') /\ \E sb, bb, x, y : Blinds(game, game', sb, bb, x, y)
    BY <1>1, StartedHandBlinds
  <1>3. PICK sb, bb, x, y : Blinds(game, game', sb, bb, x, y)
    BY <1>2
  <1>4. game'.gameRunning
    BY <1>1, StartedHandFacts DEF Opened
  <1>5. Ledger!Deal(sb, bb)
    BY <1>1, <1>3, <1>4 DEF Blinds, Ledger!Deal
  <1> QED BY <1>2, <1>3, <1>5 DEF Ledger!Next, Blinds

(* An action puts in chips, or puts in the last and settles the hand. *)
LEMMA PlayedLedger ==
  ASSUME "unoffered" \notin Liberties, LInv, TableOK(game'),
         NEW p \in Players, ProcessAction(p) \/ ForcePlayerAction(p)
  PROVE  Ledger!Next /\ (game'.gameRunning => Committed(game'))
  <1>1. PICK a, strength : Played(p, a, strength)
    BY PlayedSteps DEF LInv, BInv, IInv, Good
  <1>2. /\ game.gameRunning /\ Good(game) /\ TableOK(game) /\ Playing(game)
        /\ Books(game) /\ Committed(game)
        /\ a \in BotAction /\ validateAction(game, p, a)
        /\ a.type = "fold" => getCallAmount(game, p) > 0
        /\ game' = Processed(game, p, a, strength)
    BY <1>1 DEF Played, LInv, SInv, PInv, BInv, IInv, Good
  <1>3. Ranked(game, strength)
    <2>1. strength \in HandStrengths(PlayersInHand(game))
      BY <1>1 DEF Played
    <2>2. strength \in [PlayersInHand(game) -> 1..Cardinality(PlayersInHand(game))]
      BY <2>1 DEF HandStrengths
    <2> QED BY <2>2 DEF Ranked
  <1>4. PICK s, n : /\ Puts(game, s, p, n) /\ Since(s, game')
                    /\ game'.gameRunning => Committed(game')
    BY <1>2, <1>3, ProcessedSettles
  <1> DEFINE t == game.totalBetThisHand
             c == game.chipStack
             k == [c EXCEPT ![p] = @ - n]
             u == [t EXCEPT ![p] = @ + n]
  <1>5. /\ t \in [Players -> Nat] /\ c \in [Players -> Nat]
    BY <1>2 DEF TableOK, Table
  <1>6. /\ n \in 0..c[p] /\ s.chipStack = k /\ s.totalBetThisHand = u
    BY <1>4, <1>5 DEF Puts
  <1>7. k \in [Players -> Nat] /\ u \in [Players -> Nat]
    BY <1>5, <1>6
  <1>8. CASE game'.gameRunning
    <2>1. game'.chipStack = k /\ game'.totalBetThisHand = u
      BY <1>4, <1>6, <1>8 DEF Since, Held
    <2>2. Ledger!Put(p, n)
      BY <1>2, <1>8, <2>1 DEF Ledger!Put
    <2> QED BY <1>4, <1>6, <2>2 DEF Ledger!Next
  <1>9. CASE ~game'.gameRunning
    <2>1. PICK w \in [Players -> Nat] :
            /\ Total(w) = Total(u)
            /\ \A q \in Players : w[q] <= Total(UpTo(u, q))
            /\ game'.chipStack = [q \in Players |-> k[q] + w[q]]
      <3> HIDE DEF k, u
      <3> QED BY <1>4, <1>6, <1>9 DEF Since, Settled
    <2> DEFINE paid == [q \in Players |-> game'.chipStack[q] - k[q]]
    <2>2. paid = w
      <3> HIDE DEF k
      <3>1. \A q \in Players : game'.chipStack[q] - k[q] = w[q]
        BY <1>7, <2>1
      <3> QED BY <2>1, <3>1
    <2>3. \A q \in Players : Ledger!Matched(u, q) = Total(UpTo(u, q))
      <3> HIDE DEF u
      <3> QED BY LedgerTotal DEF Ledger!Matched, UpTo
    <2>4. Ledger!Total(paid) = Ledger!Total(u)
      BY <2>1, <2>2, LedgerTotal
    <2>5. \A q \in Players : paid[q] >= 0 /\ paid[q] <= Ledger!Matched(u, q)
      <3> HIDE DEF u, paid
      <3>1. \A q \in Players : w[q] \in Nat
        BY <2>1
      <3> QED BY <2>1, <2>2, <2>3, <3>1
    <2>6. Ledger!Settle(p, n)
      <3>1. (IF game.gameRunning THEN game.totalBetThisHand ELSE [q \in Players |-> 0]) = t
        BY <1>2
      <3> QED BY <1>2, <1>9, <2>4, <2>5, <3>1 DEF Ledger!Settle, Ledger!NoStakes
    <2> QED BY <1>6, <1>9, <2>6 DEF Ledger!Next
  <1> QED BY <1>8, <1>9

(* Every step of the engine is a step of the ledger, or does not touch it. *)
LEMMA StepLedger ==
  ASSUME Liberties \subseteq {"cashout"}, LInv, [Next]_vars
  PROVE  LInv' /\ [Ledger!Next]_(Ledger!vars)
  <1>1. /\ "unoffered" \notin Liberties /\ "leave" \notin Liberties
        /\ "restart" \notin Liberties /\ SInv /\ BInv
    BY DEF LInv
  <1>2. SInv' /\ BInv'
    BY <1>1, StepStuck, StepBooks
  <1>3. TableOK(game') /\ TableOK(game)
    BY <1>1, <1>2 DEF BInv, IInv, Good
  <1> DEFINE Goal == [Ledger!Next]_(Ledger!vars)
                       /\ (game'.gameRunning => Committed(game'))
  <1> SUFFICES Goal
    BY <1>2 DEF LInv
  <1>4. ASSUME NEW p \in Players, NEW chips \in BuyIns, AddPlayer(p, chips) PROVE Goal
    <2>1. ~game'.gameRunning
      BY <1>3, <1>4 DEF AddPlayer, addPlayer, TableOK, Table
    <2> QED BY <1>4, <2>1, AddPlayerLedger
  <1>5. ASSUME NEW p \in Players, RemovePlayer(p) PROVE Goal
    <2>1. ~game.gameRunning /\ game' = removePlayers(game, {p})
      BY <1>1, <1>5 DEF RemovePlayer
    <2>2. ~game'.gameRunning
      BY <1>3, <2>1, RemovePlayersFacts
    <2> QED BY <1>1, <1>5, <2>2, RemovePlayerLedger
  <1>6. ASSUME StartHand PROVE Goal
    BY <1>1, <1>6, StartHandLedger
  <1>7. ASSUME NEW p \in Players, ProcessAction(p) \/ ForcePlayerAction(p) PROVE Goal
    BY <1>1, <1>3, <1>7, PlayedLedger
  <1>8. ASSUME UNCHANGED vars PROVE Goal
    BY <1>8 DEF vars, LInv, Ledger!vars
  <1> HIDE DEF Goal
  <1> QED BY <1>4, <1>5, <1>6, <1>7, <1>8 DEF Next, TurnTimer

(* With careful callers the table implements the ledger: every hand pays   *)
(* out exactly what was put in, and nobody is paid more than his own       *)
(* amount matches of every other, over all side pots, splits and odd chips *)
(* and whatever number of players.                                         *)
THEOREM ImplementsLedger ==
  ASSUME Liberties \subseteq {"cashout"}
  PROVE  Spec => LedgerSpec
  <1>1. Init => LInv
    <2>1. Init => ~game.gameRunning /\ Seated(game) = {}
      BY DEF Init, EmptyTable, Seated
    <2> QED BY <2>1, InitPlaying, InitBooks
            DEF LInv, SInv, StuckOnlyFromBlinds, Solvent
  <1>2. LInv /\ [Next]_vars => LInv' /\ [Ledger!Next]_(Ledger!vars)
    BY StepLedger
  <1>3. Init => Ledger!Init
    BY DEF Init, EmptyTable, Ledger!Init, Ledger!NoStakes
  <1> QED BY <1>1, <1>2, <1>3, PTL DEF Spec, LedgerSpec, Ledger!Spec

=============================================================================
