---------------------------- MODULE MCSpectators ----------------------------
(* Instances of Spectators for TLC. *)
EXTENDS Spectators, TLC

(* Games and players are interchangeable; the two clients are not. *)
Symmetry == Permutations(Games) \cup Permutations(Players)

=============================================================================
