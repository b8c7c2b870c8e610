---------------------------- MODULE MCSymThreads ----------------------------
(* An instance of SymThreads with interchangeable workers. *)
EXTENDS SymThreads, TLC

Symmetry == Permutations(Workers)
=============================================================================
