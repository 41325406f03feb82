----------------------------- MODULE MCTurnStream -----------------------------
(* A small instance of TurnStream for TLC: two random bytes of one bit, each *)
(* a character of its own.                                                   *)
EXTENDS TurnStream

\* The order of the numbers is the order of the texts.
ASSUME TextIsInOrder == TextKeepsOrder

=============================================================================
