--------------------------- MODULE HandEvaluator ----------------------------
(***************************************************************************)
(* The value of a hand: domain/poker/cards/HandEvaluator.ts.               *)
(*                                                                         *)
(* A hand is a set of cards; the array sortedCards of the code is used     *)
(* only through the ranks in it, in descending order.  Of an evaluation    *)
(* only the value is modelled: nothing else is ever compared.  A check     *)
(* that fails, null in the code, is NoHand.                                *)
(***************************************************************************)
EXTENDS Naturals, Sequences, FiniteSets, FiniteSetsExt

CONSTANTS
  Ranks,    \* the ranks of the deck, 2 to 14 in the code
  Suits,
  Radix     \* the base of calculateHandValue(), 100 in the code

Ace == 14

ASSUME DeckAssumption ==
  /\ Ranks \subseteq 2..Ace
  /\ IsFiniteSet(Suits) /\ Cardinality(Suits) <= 4
ASSUME RadixAssumption == Radix \in Nat /\ \A r \in Ranks : r < Radix

HighCard == 1
OnePair == 2
TwoPair == 3
ThreeOfAKind == 4
Straight == 5
Flush == 6
FullHouse == 7
FourOfAKind == 8
StraightFlush == 9
RoyalFlush == 10

NoHand == 0

(* The ranks of a set of cards, and how often each of them occurs. *)
RanksOf(cards) == {c.rank : c \in cards}
getRankCounts(cards) ==
  [r \in RanksOf(cards) |-> Cardinality({c \in cards : c.rank = r})]

(* The ranks that occur n times, and the highest of them: the one the code *)
(* finds first.                                                            *)
OfCount(cards, n) == {r \in RanksOf(cards) : getRankCounts(cards)[r] = n}
FirstOf(cards, n) == Max(OfCount(cards, n))

(* The ranks of the cards in descending order, with repetitions. *)
SortedRanks(cards) ==
  [i \in 1..Cardinality(cards) |->
     CHOOSE r \in RanksOf(cards) :
       /\ Cardinality({c \in cards : c.rank > r}) < i
       /\ i <= Cardinality({c \in cards : c.rank >= r})]

(* The cards that do not have one of the given ranks, best first. *)
Kickers(cards, ranks) == SortedRanks({c \in cards : c.rank \notin ranks})

isFlush(cards) == \A c, d \in cards : c.suit = d.suit

isAceLowStraight(cards) == SortedRanks(cards) = <<Ace, 5, 4, 3, 2>>

isStraight(cards) ==
  LET ranks == SortedRanks(cards)
  IN  \/ \A i \in 2..Len(ranks) : ranks[i] + 1 = ranks[i - 1]
      \/ isAceLowStraight(cards)

isRoyalFlush(cards) ==
  isFlush(cards) /\ SortedRanks(cards) = <<Ace, 13, 12, 11, 10>>

isStraightFlush(cards) == isFlush(cards) /\ isStraight(cards)

(* calculateHandValue(): handRank * 100^5, plus the first significant card *)
(* times 100^4, the second times 100^3 and so on, here in Horner's form.   *)
calculateHandValue(handRank, significant) ==
  LET at(i) == IF i <= Len(significant) THEN significant[i] ELSE 0
  IN  ((((handRank * Radix + at(1)) * Radix + at(2)) * Radix + at(3))
         * Radix + at(4)) * Radix + at(5)

-----------------------------------------------------------------------------
(* The checks, each the value of the hand or NoHand. *)

(* The one significant card of a straight; the ace of a wheel is low. *)
StraightTop(cards) ==
  IF isAceLowStraight(cards) THEN <<5>> ELSE <<SortedRanks(cards)[1]>>

checkRoyalFlush(cards) ==
  IF isRoyalFlush(cards)
  THEN calculateHandValue(RoyalFlush, SortedRanks(cards)) ELSE NoHand

checkStraightFlush(cards) ==
  IF isStraightFlush(cards)
  THEN calculateHandValue(StraightFlush, StraightTop(cards)) ELSE NoHand

checkFourOfAKind(cards) ==
  IF OfCount(cards, 4) # {}
  THEN calculateHandValue(FourOfAKind,
         <<FirstOf(cards, 4)>> \o Kickers(cards, {FirstOf(cards, 4)}))
  ELSE NoHand

checkFullHouse(cards) ==
  IF OfCount(cards, 3) # {} /\ OfCount(cards, 2) # {}
  THEN calculateHandValue(FullHouse, <<FirstOf(cards, 3), FirstOf(cards, 2)>>)
  ELSE NoHand

checkFlush(cards) ==
  IF isFlush(cards)
  THEN calculateHandValue(Flush, SortedRanks(cards)) ELSE NoHand

checkStraight(cards) ==
  IF isStraight(cards)
  THEN calculateHandValue(Straight, StraightTop(cards)) ELSE NoHand

checkThreeOfAKind(cards) ==
  IF OfCount(cards, 3) # {}
  THEN calculateHandValue(ThreeOfAKind,
         <<FirstOf(cards, 3)>> \o Kickers(cards, {FirstOf(cards, 3)}))
  ELSE NoHand

checkTwoPair(cards) ==
  LET pairs == OfCount(cards, 2)
  IN  IF Cardinality(pairs) = 2
      THEN calculateHandValue(TwoPair,
             <<Max(pairs), Min(pairs)>> \o Kickers(cards, pairs))
      ELSE NoHand

(* A bug this code could have: the kickers of a pair are not counted.      *)
checkOnePairAlone(cards) ==
  IF OfCount(cards, 2) # {}
  THEN calculateHandValue(OnePair, <<FirstOf(cards, 2)>>) ELSE NoHand

checkOnePair(cards) ==
  IF OfCount(cards, 2) # {}
  THEN calculateHandValue(OnePair,
         <<FirstOf(cards, 2)>> \o Kickers(cards, {FirstOf(cards, 2)}))
  ELSE NoHand

checkHighCard(cards) == calculateHandValue(HighCard, SortedRanks(cards))

(* evaluateFiveCardHand(): the first check that does not fail. *)
evaluateFiveCardHand(cards) ==
  LET checks == <<checkRoyalFlush(cards), checkStraightFlush(cards),
                  checkFourOfAKind(cards), checkFullHouse(cards),
                  checkFlush(cards), checkStraight(cards),
                  checkThreeOfAKind(cards), checkTwoPair(cards),
                  checkOnePair(cards), checkHighCard(cards)>>
  IN  checks[Min({i \in 1..Len(checks) : checks[i] # NoHand})]

generateCombinations(cards) == kSubset(5, cards)

(* evaluateHand(): the value of the best five of the cards. *)
evaluateHand(holeCards, communityCards) ==
  Max({evaluateFiveCardHand(h) :
         h \in generateCombinations(holeCards \cup communityCards)})

=============================================================================
