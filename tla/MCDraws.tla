------------------------------- MODULE MCDraws -------------------------------
(* Values of the constants of Draws for model checking: an engine with ten *)
(* states, of which the first draws choose each of the operations.         *)
EXTENDS Draws, TLC

MCValues ==
  << [operation |-> "READ", weight |-> 30], [operation |-> "UPDATE", weight |-> 10],
     [operation |-> "INSERT", weight |-> 20], [operation |-> "SCAN", weight |-> 40] >>

(* The threads are alike, and the checked properties are invariants.       *)
Symmetry == Permutations(Thread)
=============================================================================
