--------------------------- MODULE ActionValidator --------------------------
(***************************************************************************)
(* Which actions a bot is offered, which are accepted and what they do:    *)
(* domain/poker/betting/ActionValidator.ts.                                *)
(*                                                                         *)
(* An action is a record [type, amount]; the amount is 0 where the code    *)
(* takes none.  A call is accepted with its exact amount or without one,   *)
(* to the same effect, so one form is enough.  Amounts are whole chips.    *)
(***************************************************************************)
EXTENDS GameState

ActionType == {"fold", "check", "call", "bet", "raise", "allin"}

Act(type, amount) == [type |-> type, amount |-> amount]

getCallAmount(g, p) == Max({0, getCurrentBet(g) - g.currentBet[p]})

MaxRaise(g, p) == g.chipStack[p] + g.currentBet[p]

hasBettingOccurred(g) == \E p \in Seated(g) : g.currentBet[p] > 0

validateCheck(g, p) == getCurrentBet(g) - g.currentBet[p] <= 0

validateCall(g, p) ==
  LET callAmount == getCurrentBet(g) - g.currentBet[p]
  IN  callAmount # 0 /\ callAmount <= g.chipStack[p]

validateBet(g, p, amount) ==
  /\ getCurrentBet(g) <= 0
  /\ ~hasBettingOccurred(g)
  /\ amount >= BigBlindAmount
  /\ amount <= g.chipStack[p]

(* A raise below the minimum is accepted when it is all the player has. *)
validateRaise(g, p, amount) ==
  /\ getCurrentBet(g) # 0
  /\ ~(/\ amount < getCurrentBet(g) + g.minimumRaise
       /\ amount < MaxRaise(g, p))
  /\ amount <= MaxRaise(g, p)

validateAllIn(g, p) == g.chipStack[p] # 0 /\ ~g.isAllIn[p]

(* validateAction(): TRUE where the code returns, FALSE where it throws. *)
validateAction(g, p, a) ==
  /\ p \in Seated(g)
  /\ g.currentPlayerToAct = p
  /\ canAct(g, p)
  /\ CASE a.type = "fold"  -> TRUE
       [] a.type = "check" -> validateCheck(g, p)
       [] a.type = "call"  -> validateCall(g, p)
       [] a.type = "bet"   -> validateBet(g, p, a.amount)
       [] a.type = "raise" -> validateRaise(g, p, a.amount)
       [] a.type = "allin" -> validateAllIn(g, p)

(* Mutants: a call is offered to a player who has not enough chips for it; *)
(* a fold is offered to a player who may check.                            *)
getPossibleActionsAnyCall(g, p) ==
  IF p \notin Seated(g) \/ ~canAct(g, p) THEN {}
  ELSE {Act("allin", 0)} \cup
         IF getCallAmount(g, p) > 0 THEN {Act("fold", 0), Act("call", 0)}
         ELSE {Act("check", 0)}

getPossibleActionsAnyFold(g, p) ==
  IF p \notin Seated(g) \/ ~canAct(g, p) THEN {}
  ELSE {Act("fold", 0), Act("allin", 0)} \cup
         IF getCallAmount(g, p) = 0 THEN {Act("check", 0)}
         ELSE IF validateCall(g, p) THEN {Act("call", 0)} ELSE {}

(* getPossibleActions(): the actions, with every amount of the ranges, that *)
(* a bot is told it may choose from.                                        *)
getPossibleActions(g, p) ==
  LET currentBet == getCurrentBet(g)
      callAmount == getCallAmount(g, p)
      minRaise == Min({currentBet + g.minimumRaise, MaxRaise(g, p)})
      canRaise == \/ /\ currentBet > g.currentBet[p]
                     /\ g.lastRaiseAmount >= g.minimumRaise
                  \/ /\ currentBet = g.currentBet[p]
                     /\ g.currentBet[p] = BigBlindAmount
                     /\ ~g.hasActed[p]
      offer(condition, type, amounts) ==
        IF condition THEN {Act(type, n) : n \in amounts} ELSE {}
  IN  IF p \notin Seated(g) \/ ~canAct(g, p) THEN {}
      ELSE UNION {
        offer(callAmount > 0, "fold", {0}),
        offer(callAmount = 0, "check", {0}),
        offer(callAmount > 0 /\ callAmount <= g.chipStack[p], "call", {0}),
        offer(currentBet = 0 /\ ~hasBettingOccurred(g), "bet",
              BigBlindAmount..g.chipStack[p]),
        offer(currentBet > 0 /\ canRaise /\ MaxRaise(g, p) > currentBet,
              "raise", minRaise..MaxRaise(g, p)),
        offer(TRUE, "allin", {0})}

(* processBlindPosting(). *)
processBlindPosting(g) ==
  LET sb == PlayerAt(g, smallBlindPosition(g))
      bb == PlayerAt(g, bigBlindPosition(g))
      s  == processBlind(g, sb, Min({SmallBlindAmount, g.chipStack[sb]}))
      b  == processBlind(s, bb, Min({BigBlindAmount, s.chipStack[bb]}))
  IN  setNextPlayerToAct(b)

(* processAction() of the validator: apply the action, move to the next. *)
applyAction(g, p, a) ==
  setNextPlayerToAct(
    CASE a.type = "fold"  -> fold(g, p)
      [] a.type = "check" -> check(g, p)
      [] a.type = "call"  -> processBet(g, p, getCallAmount(g, p))
      [] a.type = "bet"   -> processBet(g, p, a.amount)
      [] a.type = "raise" -> processBet(g, p, a.amount - g.currentBet[p])
      [] a.type = "allin" -> processBet(g, p, g.chipStack[p]))

(* getForceAction(): the action of a bot whose time is up. *)
getForceAction(g, p) == Act(IF getCallAmount(g, p) = 0 THEN "check" ELSE "fold", 0)

=============================================================================
