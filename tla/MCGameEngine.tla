---------------------------- MODULE MCGameEngine ----------------------------
(* Instances of GameEngine for TLC. *)
EXTENDS GameEngine, TLC

(* The players are interchangeable; used where no liveness is checked. *)
Symmetry == Permutations(Players)

=============================================================================
