---------------------------- MODULE MCRoundRobin ----------------------------
(* Model-checking instances of RoundRobin: three interchangeable tasks. *)
EXTENDS RoundRobin

TaskSymmetry == Permutations(Tasks)
=============================================================================
