----------------------------- MODULE ChipLedger -----------------------------
(***************************************************************************)
(* What a table promises about money, without cards, streets or turns.     *)
(*                                                                         *)
(* Every player owns a stack; during a hand some of it is at stake.  A     *)
(* hand is settled by paying out exactly what was staked, and table stakes *)
(* hold: nobody is paid more than the part of every stake that his own     *)
(* stake matches.                                                          *)
(***************************************************************************)
EXTENDS PotManager

CONSTANT Players

VARIABLES
  stack,    \* chips a player owns and has not staked
  stake,    \* chips a player has at stake in the running hand
  playing   \* a hand is running

vars == <<stack, stake, playing>>

NoStakes == [p \in Players |-> 0]

Init == stack = NoStakes /\ stake = NoStakes /\ ~playing

(* A player brings chips, or takes all of his away, between two hands. *)
SitDown(p) ==
  /\ ~playing
  /\ stack[p] = 0
  /\ stack'[p] > 0
  /\ stack' = [stack EXCEPT ![p] = stack'[p]]
  /\ UNCHANGED <<stake, playing>>

CashOut(p) ==
  /\ ~playing
  /\ stack' = [stack EXCEPT ![p] = 0]
  /\ UNCHANGED <<stake, playing>>

(* A hand starts with the stakes of two players, the blinds. *)
Deal(p, q) ==
  /\ ~playing /\ playing'
  /\ p # q
  /\ \E a \in 1..stack[p], b \in 1..stack[q] :
       /\ stake' = [stake EXCEPT ![p] = a, ![q] = b]
       /\ stack' = [stack EXCEPT ![p] = @ - a, ![q] = @ - b]

(* A player stakes more. *)
Put(p, a) ==
  /\ playing /\ playing'
  /\ stake' = [stake EXCEPT ![p] = @ + a]
  /\ stack' = [stack EXCEPT ![p] = @ - a]

(* The most a player with stake s[p] can be paid. *)
Matched(s, p) == Total([q \in Players |-> IF s[q] < s[p] THEN s[q] ELSE s[p]])

(* The last stake of p, and the settlement. *)
Settle(p, a) ==
  LET s == [stake EXCEPT ![p] = @ + a]
      kept == [stack EXCEPT ![p] = @ - a]
      paid == [q \in Players |-> stack'[q] - kept[q]]
  IN  /\ playing /\ ~playing'
      /\ \A q \in Players : paid[q] >= 0 /\ paid[q] <= Matched(s, q)
      /\ Total(paid) = Total(s)
      /\ stake' = NoStakes

Next ==
  \/ \E p \in Players : SitDown(p) \/ CashOut(p)
  \/ \E p, q \in Players : Deal(p, q)
  \/ \E p \in Players : \E a \in 0..stack[p] : Put(p, a) \/ Settle(p, a)

Spec == Init /\ [][Next]_vars

=============================================================================
