------------------------------- MODULE Dealing ------------------------------
(***************************************************************************)
(* The cards of a table from the shuffle to the showdown: the deck         *)
(* (domain/poker/cards/Deck.ts), the parts of GameEngine that deal from it *)
(* and evaluateHands().  The betting between the streets is in GameEngine; *)
(* here players fold at any time, and a hand that is down to one player is *)
(* won without a showdown.                                                 *)
(*                                                                         *)
(* The deck is the array of the code: cards are popped from its end.       *)
(* Math.random() in shuffle() makes every permutation possible; Shuffles   *)
(* are the ones explored.                                                  *)
(***************************************************************************)
EXTENDS HandEvaluator

CONSTANTS
  SeatedPlayers,   \* how many players are dealt in
  Shuffles         \* orders the deck can be in after shuffle()

Players == 1..SeatedPlayers
FullDeck == [rank : Ranks, suit : Suits]

ASSUME DealingAssumption ==
  /\ SeatedPlayers \in Nat
  /\ 2 * SeatedPlayers + 8 <= Cardinality(FullDeck)
  /\ \A s \in Shuffles : /\ s \in Seq(FullDeck) /\ Len(s) = Cardinality(FullDeck)
                         /\ {s[i] : i \in DOMAIN s} = FullDeck

VARIABLES
  cards,            \* the deck
  dealtCards,       \* the cards that have left the deck
  holeCards,
  communityCards,
  inHand,           \* the players who have not folded
  handEvaluations,  \* the values of the hands shown
  phase

dealingVars == <<cards, dealtCards, holeCards, communityCards, inHand,
                 handEvaluations, phase>>

DealingInit ==
  /\ cards \in Shuffles
  /\ dealtCards = {}
  /\ holeCards = [p \in Players |-> {}]
  /\ communityCards = {}
  /\ inHand = {}
  /\ handEvaluations = <<>>
  /\ phase = "waiting"

(* dealCard(), n times: what comes off the end of the deck, what is left.  *)
Taken(deck, n) == {deck[i] : i \in Len(deck) - n + 1 .. Len(deck)}
Left(deck, n) == SubSeq(deck, 1, Len(deck) - n)

(* A bug this code could have: the second round starts one card too early. *)
dealHoleCardsOverlapping(deck) ==
  [p \in Players |-> {deck[Len(deck) + 1 - p],
                       deck[Len(deck) + 2 - SeatedPlayers - p]}]

(* dealHoleCards(): one card to each player, then a second one to each.    *)
dealHoleCards(deck) ==
  [p \in Players |-> {deck[Len(deck) + 1 - p],
                       deck[Len(deck) + 1 - SeatedPlayers - p]}]

(* startHand(): reset, shuffle, evaluations forgotten, hole cards dealt.   *)
StartHand ==
  /\ phase \in {"waiting", "hand_complete"}
  /\ \E deck \in Shuffles :
       /\ cards' = Left(deck, 2 * SeatedPlayers)
       /\ dealtCards' = Taken(deck, 2 * SeatedPlayers)
       /\ holeCards' = dealHoleCards(deck)
  /\ communityCards' = {}
  /\ inHand' = Players
  /\ handEvaluations' = <<>>
  /\ phase' = "preflop"

(* A street: one card is burned, n are put on the board.                   *)
Street(from, n, to) ==
  /\ phase = from
  /\ dealtCards' = dealtCards \cup Taken(cards, n + 1)
  /\ communityCards' = communityCards \cup Taken(Left(cards, 1), n)
  /\ cards' = Left(cards, n + 1)
  /\ phase' = to
  /\ UNCHANGED <<holeCards, inHand, handEvaluations>>

DealFlop == Street("preflop", 3, "flop")
DealTurn == Street("flop", 1, "turn")
DealRiver == Street("turn", 1, "river")

FoldCards(p) ==
  /\ phase \in {"preflop", "flop", "turn", "river"}
  /\ p \in inHand
  /\ inHand' = inHand \ {p}
  /\ phase' = IF Cardinality(inHand') = 1 THEN "hand_complete" ELSE phase
  /\ UNCHANGED <<cards, dealtCards, holeCards, communityCards, handEvaluations>>

(* startShowdown(): evaluateHands(); the values go to the distribution.    *)
Showdown ==
  /\ phase = "river"
  /\ handEvaluations' =
       [p \in inHand |-> evaluateHand(holeCards[p], communityCards)]
  /\ phase' = "hand_complete"
  /\ UNCHANGED <<cards, dealtCards, holeCards, communityCards, inHand>>

DealingNext ==
  \/ StartHand
  \/ DealFlop \/ DealTurn \/ DealRiver
  \/ \E p \in Players : FoldCards(p)
  \/ Showdown

DealingSpec == DealingInit /\ [][DealingNext]_dealingVars

-----------------------------------------------------------------------------
(* The rules of poker, as the comment at the head of HandEvaluator.ts      *)
(* tells them, from the shape of the hand and without its checks: a royal  *)
(* flush is no more than the best straight flush.                          *)

CountOf(h, r) == Cardinality({c \in h : c.rank = r})

(* The ranks, the ones that occur more often first, then the higher first. *)
Groups(h) ==
  LET before(r, s) == \/ CountOf(h, r) > CountOf(h, s)
                      \/ CountOf(h, r) = CountOf(h, s) /\ r > s
      ranks == RanksOf(h)
  IN  [i \in 1..Cardinality(ranks) |->
         CHOOSE r \in ranks : Cardinality({s \in ranks : before(s, r)}) = i - 1]

Suited(h) == Cardinality({c.suit : c \in h}) = 1
Wheel(h) == RanksOf(h) = {Ace, 2, 3, 4, 5}
Connected(h) ==
  /\ Cardinality(RanksOf(h)) = 5
  /\ Wheel(h) \/ Max(RanksOf(h)) - Min(RanksOf(h)) = 4

Category(h) ==
  LET shape == [i \in DOMAIN Groups(h) |-> CountOf(h, Groups(h)[i])]
  IN  CASE Connected(h) /\ Suited(h)   -> 9
        [] shape = <<4, 1>>            -> 8
        [] shape = <<3, 2>>            -> 7
        [] Suited(h) /\ ~Connected(h)  -> 6
        [] Connected(h) /\ ~Suited(h)  -> 5
        [] shape = <<3, 1, 1>>         -> 4
        [] shape = <<2, 2, 1>>         -> 3
        [] shape = <<2, 1, 1, 1>>      -> 2
        [] OTHER                       -> 1

RuleStrength(h) ==
  <<Category(h)>> \o (IF ~Connected(h) THEN Groups(h)
                      ELSE IF Wheel(h) THEN <<5>> ELSE <<Max(RanksOf(h))>>)

(* s and t are strengths of one category or of two. *)
Beats(s, t) == \E i \in DOMAIN s \cap DOMAIN t :
                 s[i] > t[i] /\ \A j \in 1..(i - 1) : s[j] = t[j]

BestByTheRules(p) ==
  LET strengths == {RuleStrength(h) :
                      h \in kSubset(5, holeCards[p] \cup communityCards)}
  IN  CHOOSE s \in strengths : \A t \in strengths : ~Beats(t, s)

(* The values by which the engine divides the pots order the players at a  *)
(* showdown as the rules of poker order the best five of their seven       *)
(* cards, ties included: evaluateHand(), GameEngine.ts:380.                *)
RankedByTheRules ==
  \A p, q \in DOMAIN handEvaluations :
    (handEvaluations[p] > handEvaluations[q]) <=>
      Beats(BestByTheRules(p), BestByTheRules(q))

(* A card is in one place: in the deck, burned, on the board or in one     *)
(* hand, through every hand the table plays (Deck.validate()).             *)
EveryCardOnce ==
  phase # "waiting" =>
    /\ {cards[i] : i \in DOMAIN cards} \cap dealtCards = {}
    /\ Len(cards) + Cardinality(dealtCards) = Cardinality(FullDeck)
    /\ (UNION {holeCards[p] : p \in Players}) \cup communityCards \subseteq dealtCards
    /\ Cardinality((UNION {holeCards[p] : p \in Players}) \cup communityCards)
         = 2 * SeatedPlayers + Cardinality(communityCards)

=============================================================================
