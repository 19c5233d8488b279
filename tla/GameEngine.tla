----------------------------- MODULE GameEngine -----------------------------
(***************************************************************************)
(* One table playing hand after hand: application/engine/GameEngine.ts.    *)
(*                                                                         *)
(* game is the table (GameState) with two fields of the engine: gameRunning *)
(* and thrown, which says that the last accepted call ended in an          *)
(* exception.  A call the engine rejects leaves the table alone and is no  *)
(* step.  Cards are abstracted to the order of the hands at a showdown,    *)
(* chosen when an action is processed.                                     *)
(***************************************************************************)
EXTENDS ActionValidator

CONSTANTS
  BuyIns,        \* the stacks players sit down with
  MaxBankroll,   \* bound: the chips brought to the table at any time
  Liberties      \* what the callers of the engine do beyond careful use

(* "unoffered": a bot sends any action the validator accepts, not only one *)
(*              of those it was offered;                                   *)
(* "cashout":   a player with chips is removed between two hands;          *)
(* "leave":     a player is removed while a hand is running;               *)
(* "restart":   a hand is started while one is running.                    *)
AllLiberties == {"unoffered", "cashout", "leave", "restart"}

ASSUME EngineAssumption == /\ BuyIns \subseteq Nat \ {0}
                           /\ MaxBankroll \in Nat
                           /\ Liberties \subseteq AllLiberties

VARIABLES
  game,      \* the GameState object and the flags of the engine
  bankroll   \* history: chips brought to the table less chips taken away

vars == <<game, bankroll>>

(* The possible results of comparing the hands of the players of H:        *)
(* functions onto an initial segment of the positive numbers, ties allowed.*)
HandStrengths(H) ==
  {s \in [H -> 1..Cardinality(H)] :
     \A p \in H : s[p] = 1 \/ \E q \in H : s[q] = s[p] - 1}

-----------------------------------------------------------------------------
(* The end of a hand *)

(* completeHand(): one step of the phase, whatever the phase is, and the   *)
(* players without chips leave the table.                                  *)
completeHand(g) ==
  LET done == [advancePhase(g) EXCEPT !.gameRunning = FALSE]
  IN  removePlayers(done, {p \in Seated(done) : done.chipStack[p] <= 0})

(* determineWinners(): the only player left takes every pot; otherwise the *)
(* pots are distributed by the strength of the hands, which fails when a   *)
(* pot has chips and nobody to win it.                                     *)
determineWinners(g, strength) ==
  LET inHand == PlayersInHand(g)
      evaluations == [p \in inHand |-> strength[p]]
      seat == [p \in inHand |-> SeatOf(g, p)]
      won(p) == IF Cardinality(inHand) = 1 THEN getTotalPotAmount(g.pots)
                ELSE Winnings(g.pots, evaluations, inHand, seat, p)
  IN  IF /\ Cardinality(inHand) # 1
         /\ HasOrphanPot(g.pots, evaluations, inHand)
      THEN [g EXCEPT !.thrown = TRUE]
      ELSE completeHand([g EXCEPT !.chipStack =
             [p \in Players |-> @[p] + IF p \in inHand THEN won(p) ELSE 0]])

-----------------------------------------------------------------------------
(* The end of a betting round *)

startShowdown(g, strength) == determineWinners(advancePhase(g), strength)

(* One turn of the loop of completeBettingRound(). *)
Street(g, strength) ==
  LET s == createSidePotsOf(g)
  IN  CASE s.currentPhase \in {"PreFlop", "Flop", "Turn"} -> advancePhase(s)
        [] s.currentPhase = "River" -> startShowdown(s, strength)
        [] OTHER -> [s EXCEPT !.thrown = TRUE]

(* Mutant: one street only. *)
StreetOnce(g, strength) == g

StreetAgain(g, strength) ==
  IF /\ g.gameRunning
     /\ ~g.thrown
     /\ PlayersWhoCanAct(g) = {}
     /\ ~isHandComplete(g)
  THEN Street(g, strength) ELSE g

(* completeBettingRound(): from the first street the loop turns four times *)
(* at most, because the fourth turn is the showdown.                       *)
completeBettingRound(g, strength) ==
  StreetAgain(StreetAgain(StreetAgain(
    Street(g, strength), strength), strength), strength)

-----------------------------------------------------------------------------
(* The operations of the engine *)

EmptyTable ==
  [players |-> <<>>,
   chipStack |-> [p \in Players |-> 0],
   currentBet |-> [p \in Players |-> 0],
   totalBetThisHand |-> [p \in Players |-> 0],
   hasActed |-> [p \in Players |-> FALSE],
   isFolded |-> [p \in Players |-> FALSE],
   isAllIn |-> [p \in Players |-> FALSE],
   pots |-> resetPots,
   currentPhase |-> "PreFlop",
   currentPlayerToAct |-> NoPlayer,
   dealerPosition |-> 0,
   minimumRaise |-> BigBlindAmount,
   lastRaiseAmount |-> BigBlindAmount,
   gameRunning |-> FALSE,
   thrown |-> FALSE]

Init == game = EmptyTable /\ bankroll = 0

AddPlayer(p, chips) ==
  /\ ~game.gameRunning
  /\ SeatCount(game) < MaxSeats
  /\ p \notin Seated(game)
  /\ bankroll + chips <= MaxBankroll
  /\ game' = addPlayer(game, p, chips)
  /\ bankroll' = bankroll + chips

(* removePlayer() has no test for a running hand.  The player takes the    *)
(* stack along and leaves what is in the pots.                             *)
RemovePlayer(p) ==
  /\ p \in Seated(game)
  /\ IF game.gameRunning THEN "leave" \in Liberties
                          ELSE "cashout" \in Liberties
  /\ game' = removePlayers(game, {p})
  /\ bankroll' = bankroll - game.chipStack[p]

(* What startHand() does to the table. *)
StartedHand(g) ==
  LET b == processBlindPosting(startNewHand([g EXCEPT !.gameRunning = TRUE,
                                                      !.thrown = FALSE]))
  IN  IF SeatCount(b) > 2 THEN setNextPlayerToAct(b) ELSE b

(* startHand() has no test for a running hand either. *)
StartHand ==
  /\ game.gameRunning => "restart" \in Liberties
  /\ SeatCount(game) >= 2
  /\ game' = StartedHand(game)
  /\ UNCHANGED bankroll

(* What processAction() does with an action that was validated. *)
Processed(g, p, a, strength) ==
  LET s == applyAction([g EXCEPT !.thrown = FALSE], p, a)
      r == IF isBettingRoundComplete(s) THEN completeBettingRound(s, strength)
           ELSE s
  IN  IF r.gameRunning /\ ~r.thrown /\ isHandComplete(r)
      THEN determineWinners(r, strength) ELSE r

(* The actions a bot may send: without the liberty "unoffered" only those  *)
(* it was offered.                                                         *)
BotActions(g, p) ==
  LET amounts == 0..MaxRaise(g, p)
  IN  IF "unoffered" \in Liberties
      THEN {a \in {Act(t, 0) : t \in {"fold", "check", "call", "allin"}}
                    \cup {Act(t, n) : t \in {"bet", "raise"}, n \in amounts} :
              validateAction(g, p, a)}
      ELSE getPossibleActions(g, p)

ProcessAction(p) ==
  /\ game.gameRunning
  /\ \E a \in BotActions(game, p),
        strength \in HandStrengths(PlayersInHand(game)) :
       /\ validateAction(game, p, a)
       /\ game' = Processed(game, p, a, strength)
  /\ UNCHANGED bankroll

(* forcePlayerAction(): the turn timer of p expired. *)
ForcePlayerAction(p) ==
  /\ game.gameRunning
  /\ p \in Seated(game)
  /\ validateAction(game, p, getForceAction(game, p))
  /\ \E strength \in HandStrengths(PlayersInHand(game)) :
       game' = Processed(game, p, getForceAction(game, p), strength)
  /\ UNCHANGED bankroll

TurnTimer == \E p \in Players : ForcePlayerAction(p)

Next ==
  \/ \E p \in Players, chips \in BuyIns : AddPlayer(p, chips)
  \/ \E p \in Players : RemovePlayer(p)
  \/ StartHand
  \/ \E p \in Players : ProcessAction(p)
  \/ TurnTimer

Spec == Init /\ [][Next]_vars

(* A bot that does not act in time is forced to: every turn has a timer.   *)
(* This is WF_vars(TurnTimer), with the enabling condition written out.    *)
TimerArmed ==
  /\ game.gameRunning
  /\ \E p \in Seated(game) : validateAction(game, p, getForceAction(game, p))

FairSpec == Spec /\ ([]<>~TimerArmed \/ []<><<TurnTimer>>_vars)

-----------------------------------------------------------------------------
(* Properties *)

PotRecord == [level : Nat, amount : Nat, eligiblePlayers : SUBSET Players]

Table ==
  [players : Seq(Players),
   chipStack : [Players -> Nat],
   currentBet : [Players -> Nat],
   totalBetThisHand : [Players -> Nat],
   hasActed : [Players -> BOOLEAN],
   isFolded : [Players -> BOOLEAN],
   isAllIn : [Players -> BOOLEAN],
   pots : SUBSET PotRecord,
   currentPhase : GamePhase,
   currentPlayerToAct : Players \cup {NoPlayer},
   dealerPosition : Nat,
   minimumRaise : Nat,
   lastRaiseAmount : Int,
   gameRunning : BOOLEAN,
   thrown : BOOLEAN]

(* The type invariant: seats are distinct, there is always a pot to bet    *)
(* into, the minimum raise never falls below the big blind (Math.max in    *)
(* processBet), and a hand that is complete is not running.                *)
TypeOK ==
  /\ game \in Table
  /\ \A i, j \in DOMAIN game.players :
       game.players[i] = game.players[j] => i = j
  /\ game.pots # {} /\ IsFiniteSet(game.pots)
  /\ game.minimumRaise >= BigBlindAmount
  /\ game.currentPhase = "HandComplete" => ~game.gameRunning
  /\ bankroll \in Int

(* No chip is made or lost: the stacks, and the pots while a hand runs,    *)
(* hold exactly what the players brought.  After the hand the pots keep    *)
(* their amounts until startNewHand() resets them, but they are paid out.  *)
ChipConservation ==
  bankroll = Total(game.chipStack)
               + IF game.gameRunning THEN getTotalPotAmount(game.pots) ELSE 0

(* The rebuilding of the pots at the end of every round loses nothing:     *)
(* while a hand runs the pots hold what the players have put in.           *)
PotsHoldTheBets ==
  game.gameRunning =>
    getTotalPotAmount(game.pots) = Total(game.totalBetThisHand)

(* The turn is always with somebody who owes an answer: whoever is to act  *)
(* can act and has not acted since the last raise, on every street, after  *)
(* folds, short all-ins and reopened betting.                              *)
TurnOwed ==
  game.gameRunning /\ PlayersWhoCanAct(game) # {} =>
    /\ game.currentPlayerToAct \in PlayersWhoCanAct(game)
    /\ ~game.hasActed[game.currentPlayerToAct]

(* Who has acted and can still act has matched the highest bet, also the   *)
(* bet of a player who is all-in, whom isBettingRoundComplete() ignores.   *)
BetsMatched ==
  game.gameRunning =>
    \A p \in PlayersWhoCanAct(game) :
      game.hasActed[p] => game.currentBet[p] = getCurrentBet(game)

(* What a player has put in on the streets that are closed. *)
PaidBefore(g, p) == g.totalBetThisHand[p] - g.currentBet[p]

(* Nobody sees a street he has not paid for: who can still bet has put in, *)
(* on the closed streets, as much as anyone who is still in the hand.      *)
EvenStakes ==
  game.gameRunning =>
    \A p \in PlayersWhoCanAct(game), q \in PlayersInHand(game) :
      PaidBefore(game, p) >= PaidBefore(game, q)

(* The showdown always finds a winner for every pot, and no accepted call  *)
(* of the engine ends in an exception, when bots choose among the actions  *)
(* they are offered.                                                       *)
NeverThrown == ~game.thrown

(* getPossibleActions() and validateAction() are written separately: the   *)
(* bot whose turn it is gets an offer, and every action and amount of the  *)
(* offer passes the validation.                                            *)
OffersAccepted ==
  game.gameRunning /\ game.currentPlayerToAct # NoPlayer =>
    LET p == game.currentPlayerToAct
    IN  /\ getPossibleActions(game, p) # {}
        /\ \A a \in getPossibleActions(game, p) : validateAction(game, p, a)

(* Every hand that somebody can act in ends, whatever the bots do or fail  *)
(* to do: everyone all-in, folded or silent.  A hand that nobody can act   *)
(* in from its blinds on does not end: see StuckOnlyFromBlinds.            *)
HandEnds ==
  game.gameRunning /\ PlayersWhoCanAct(game) # {} ~> ~game.gameRunning

(* The table keeps the promise of ChipLedger: what is staked is paid out,  *)
(* and nobody is paid more than his own stake matches of every other.      *)
Ledger == INSTANCE ChipLedger WITH
            stack <- game.chipStack,
            stake <- IF game.gameRunning THEN game.totalBetThisHand
                     ELSE [p \in Players |-> 0],
            playing <- game.gameRunning

LedgerSpec == Ledger!Spec

(* "should auto-complete all streets when everyone is all-in": after every *)
(* accepted action and every street dealt there is somebody who can act,   *)
(* or the hand is over.  The one hand that waits for nobody is heads-up    *)
(* and has both players all-in from the blinds: startHand() does not look. *)
StuckOnlyFromBlinds ==
  game.gameRunning /\ PlayersWhoCanAct(game) = {} =>
    /\ game.currentPhase = "PreFlop"
    /\ Len(game.players) = 2
    /\ \A p \in Seated(game) : ~game.hasActed[p]

=============================================================================
