------------------------------- MODULE MCDealing ----------------------------
(***************************************************************************)
(* Dealing with the 52 cards of the code.  The shuffles explored take      *)
(* every step-th card of the sorted deck, around the end, after a cut: 53  *)
(* is prime, so every step gives a permutation.                            *)
(***************************************************************************)
EXTENDS Dealing

CONSTANTS Steps, Cuts

MCRanks == 2..14

SortedDeck == [i \in 1..52 |-> [rank |-> 2 + ((i - 1) % 13),
                                suit |-> (i - 1) \div 13]]

MCSuits == 0..3

MCShuffles ==
  {[i \in 1..52 |-> SortedDeck[1 + ((((step * i) % 53) + cut) % 52)]] :
     step \in Steps, cut \in Cuts}

=============================================================================
