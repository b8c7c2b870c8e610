---------------------------- MODULE MCSymEvents ----------------------------
(* A finite instance of SymEvents for TLC. *)
EXTENDS SymEvents, TLC

Symmetry == Permutations(Callers)
=============================================================================
