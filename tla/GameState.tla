----------------------------- MODULE GameState ------------------------------
(***************************************************************************)
(* The state of one table and the methods that change it:                  *)
(* domain/poker/game/GameState.ts and domain/poker/game/Player.ts.         *)
(*                                                                         *)
(* A table is a record g.  Its field players is the array of seats; the    *)
(* fields of the Player objects are functions from players, at their reset *)
(* values for a player who is not seated.  A method that changes the       *)
(* object is an operator from tables to tables, so that a handler is the   *)
(* composition of the methods it calls, in the order of the calls.         *)
(*                                                                         *)
(* Left out because no decision of the engine reads them: cards and names, *)
(* the hand number, the statistics of a player, the last aggressors.       *)
(* isActive is always true (nothing in the program calls setInactive), and *)
(* isComplete says that the phase is HandComplete.  Positions other than   *)
(* the blinds are labels; smallBlindPosition and bigBlindPosition are      *)
(* recomputed by assignPositions() after each change of the seats or the   *)
(* button, so they are operators here.                                     *)
(***************************************************************************)
EXTENDS PotManager, Sequences

CONSTANTS
  Players,           \* the identifiers of the bots
  NoPlayer,          \* currentPlayerToAct = undefined
  SmallBlindAmount,
  BigBlindAmount

ASSUME PlayersAssumption == IsFiniteSet(Players) /\ NoPlayer \notin Players
ASSUME BlindsAssumption == /\ SmallBlindAmount \in Nat \ {0}
                           /\ BigBlindAmount \in Nat \ {0}
                           /\ SmallBlindAmount <= BigBlindAmount

Betting == {"PreFlop", "Flop", "Turn", "River"}
GamePhase == Betting \cup {"Showdown", "HandComplete"}

MaxSeats == 10

-----------------------------------------------------------------------------
(* Player.ts *)

Seated(g) == {g.players[i] : i \in DOMAIN g.players}

canAct(g, p) == ~g.isFolded[p] /\ ~g.isAllIn[p] /\ g.chipStack[p] > 0

PlayersInHand(g) == {p \in Seated(g) : ~g.isFolded[p]}
PlayersWhoCanAct(g) == {p \in Seated(g) : canAct(g, p)}

(* The chips move from the stack to the two counters of bets. *)
PutIn(g, p, amount) ==
  LET a == IF amount > g.chipStack[p] THEN g.chipStack[p] ELSE amount
  IN  [g EXCEPT !.chipStack[p] = @ - a,
                !.currentBet[p] = @ + a,
                !.totalBetThisHand[p] = @ + a,
                !.isAllIn[p] = @ \/ g.chipStack[p] = a]

bet(g, p, amount) == [PutIn(g, p, amount) EXCEPT !.hasActed[p] = TRUE]
postBlind(g, p, amount) == PutIn(g, p, amount)
fold(g, p) == [g EXCEPT !.isFolded[p] = TRUE, !.hasActed[p] = TRUE]
check(g, p) == [g EXCEPT !.hasActed[p] = TRUE]

resetForNewRound(g) == [g EXCEPT !.hasActed = [p \in Players |-> FALSE],
                                 !.currentBet = [p \in Players |-> 0]]

resetForNewHand(g) ==
  [resetForNewRound(g) EXCEPT !.isFolded = [p \in Players |-> FALSE],
                              !.isAllIn = [p \in Players |-> FALSE],
                              !.totalBetThisHand = [p \in Players |-> 0]]

-----------------------------------------------------------------------------
(* Seats, button and blinds.  Seat numbers start at 0, as in the array. *)

SeatCount(g) == Len(g.players)
PlayerAt(g, i) == g.players[i + 1]

(* findIndex(): -1 when the player is not seated. *)
SeatOf(g, p) == IF p \in Seated(g)
                THEN CHOOSE i \in 0..(SeatCount(g) - 1) : PlayerAt(g, i) = p
                ELSE -1

(* assignPositions(): heads-up the dealer is the small blind. *)
smallBlindPosition(g) ==
  (g.dealerPosition + IF SeatCount(g) = 2 THEN 0 ELSE 1) % SeatCount(g)
bigBlindPosition(g) ==
  (g.dealerPosition + IF SeatCount(g) = 2 THEN 1 ELSE 2) % SeatCount(g)

addPlayer(g, p, chips) == [g EXCEPT !.players = Append(@, p),
                                    !.chipStack[p] = chips]

(* The elements of s outside B, in the order of s. *)
Without(s, B) ==
  LET kept == {i \in DOMAIN s : s[i] \notin B}
      rank(i) == Cardinality({j \in kept : j <= i})
  IN  [k \in 1..Cardinality(kept) |-> s[CHOOSE i \in kept : rank(i) = k]]

(* removePlayer() for every player of B: the Player objects are dropped,   *)
(* and nothing else of the table changes, not even currentPlayerToAct.     *)
removePlayers(g, B) ==
  LET cleared(f, v) == [p \in Players |-> IF p \in B THEN v ELSE f[p]]
  IN  [g EXCEPT !.players = Without(@, B),
                !.chipStack = cleared(@, 0),
                !.currentBet = cleared(@, 0),
                !.totalBetThisHand = cleared(@, 0),
                !.hasActed = cleared(@, FALSE),
                !.isFolded = cleared(@, FALSE),
                !.isAllIn = cleared(@, FALSE)]

moveDealer(g) == [g EXCEPT !.dealerPosition = (@ + 1) % SeatCount(g)]

-----------------------------------------------------------------------------
(* Betting *)

getCurrentBet(g) == Max({g.currentBet[p] : p \in PlayersInHand(g)} \cup {0})

(* Mutant: the search starts at the player who has just acted. *)
StartPositionHere(g) ==
  IF g.currentPlayerToAct # NoPlayer
  THEN SeatOf(g, g.currentPlayerToAct) % SeatCount(g)
  ELSE (bigBlindPosition(g) + 1) % SeatCount(g)

(* The seat from which setNextPlayerToAct() looks for a player.  A pointer *)
(* that is set is followed, also when it was set in an earlier hand.       *)
StartPosition(g) ==
  LET n == SeatCount(g)
  IN  CASE g.currentPlayerToAct # NoPlayer ->
             (SeatOf(g, g.currentPlayerToAct) + 1) % n
        [] g.currentPlayerToAct = NoPlayer /\ g.currentPhase = "PreFlop" ->
             IF n = 2 /\ \E p \in Seated(g) : g.currentBet[p] > 0
             THEN smallBlindPosition(g)
             ELSE (bigBlindPosition(g) + 1) % n
        [] OTHER ->
             IF n = 2 THEN g.dealerPosition ELSE (g.dealerPosition + 1) % n

(* The first player able to act from seat start on, clockwise. *)
FirstToActFrom(g, start) ==
  LET n == SeatCount(g)
      able == {i \in 0..(n - 1) : canAct(g, PlayerAt(g, (start + i) % n))}
  IN  PlayerAt(g, (start + Min(able)) % n)

setNextPlayerToAct(g) ==
  [g EXCEPT !.currentPlayerToAct =
     IF PlayersWhoCanAct(g) = {} THEN NoPlayer
     ELSE FirstToActFrom(g, StartPosition(g))]

NextPhase == [PreFlop |-> "Flop", Flop |-> "Turn", Turn |-> "River",
              River |-> "Showdown", Showdown |-> "HandComplete"]

advancePhase(g) ==
  setNextPlayerToAct(
    [resetForNewRound(g) EXCEPT !.currentPlayerToAct = NoPlayer,
                                !.currentPhase = NextPhase[@],
                                !.minimumRaise = BigBlindAmount,
                                !.lastRaiseAmount = BigBlindAmount])

(* startNewHand() clears neither currentPlayerToAct nor lastRaiseAmount. *)
startNewHand(g) ==
  moveDealer([resetForNewHand(g) EXCEPT !.currentPhase = "PreFlop",
                                        !.minimumRaise = BigBlindAmount,
                                        !.pots = resetPots])

(* Mutant: a raise below the minimum becomes the minimum. *)
processBetAnyRaise(g, p, amount) ==
  LET currentBet == getCurrentBet(g)
      b == bet(g, p, amount)
      raiseAmount == b.currentBet[p] - currentBet
      reopened == IF raiseAmount > 0
                  THEN {q \in Seated(b) \ {p} : canAct(b, q)} ELSE {}
  IN  [b EXCEPT !.pots = addBet(@, p, amount),
                !.hasActed = [q \in Players |-> @[q] /\ q \notin reopened],
                !.minimumRaise = IF raiseAmount > 0 THEN raiseAmount ELSE @]

(* Mutant: a raise does not make the others owe an answer. *)
processBetNotReopened(g, p, amount) ==
  [bet(g, p, amount) EXCEPT !.pots = addBet(@, p, amount)]

(* processBet(): a bet above the highest one makes everybody else who can  *)
(* act owe an answer.  The test for a raise compares the bets of the whole *)
(* hand with the highest bet of the round, so after the flop a call also   *)
(* passes it, with an increment that is zero or negative.                  *)
processBet(g, p, amount) ==
  LET currentBet == getCurrentBet(g)
      b == bet(g, p, amount)
      raiseAmount == b.currentBet[p] - currentBet
      isRaise == b.totalBetThisHand[p] > currentBet
      reopened == IF raiseAmount > 0
                  THEN {q \in Seated(b) \ {p} : canAct(b, q)} ELSE {}
  IN  [b EXCEPT !.pots = addBet(@, p, amount),
                !.hasActed = [q \in Players |-> @[q] /\ q \notin reopened],
                !.minimumRaise = IF isRaise /\ raiseAmount > @
                                 THEN raiseAmount ELSE @,
                !.lastRaiseAmount = IF isRaise THEN raiseAmount ELSE @]

processBlind(g, p, amount) ==
  [postBlind(g, p, amount) EXCEPT !.pots = addBet(@, p, amount)]

createSidePotsOf(g) ==
  [g EXCEPT !.pots = createSidePots(@, Seated(g), g.totalBetThisHand,
                                    g.isFolded)]

(* Mutant: equal bets of the players who can act close the round. *)
isBettingRoundEven(g) ==
  \A p, q \in PlayersWhoCanAct(g) : g.currentBet[p] = g.currentBet[q]

isBettingRoundComplete(g) ==
  LET able == PlayersWhoCanAct(g)
  IN  /\ \A p, q \in able : g.currentBet[p] = g.currentBet[q]
      /\ \A p \in able : g.hasActed[p]

isHandComplete(g) == \/ Cardinality(PlayersInHand(g)) <= 1
                     \/ g.currentPhase = "HandComplete"

=============================================================================
