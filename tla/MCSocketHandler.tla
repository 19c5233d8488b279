--------------------------- MODULE MCSocketHandler ---------------------------
(* Instances of SocketHandler for TLC. *)
EXTENDS SocketHandler, TLC

(* Games and bots are interchangeable. *)
Symmetry == Permutations(Games) \cup Permutations(Bots)

=============================================================================
