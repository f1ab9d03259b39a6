------------------------------ MODULE MCVerify ------------------------------
(* Instance of Verify for TLC.  The worker threads are interchangeable, so *)
(* the states that differ by a permutation of them are checked once.       *)
EXTENDS Verify, TLC

Symmetry == Permutations(Worker)
=============================================================================
