-------------------------------- MODULE MCLd --------------------------------
(* Finite instances of Ld for TLC. *)
EXTENDS Ld, TLC

CONSTANTS o1, o2, o3, o4, prog, a, b, bad, raw, s1, s2

(* a can only be resolved once b provides s2; both a and b define s1, so   *)
(* the one loaded first must keep it.  bad is rejected, and raw is accepted *)
(* without a hash table.                                                   *)
MCExports == (prog :> {}) @@ (a :> {s1}) @@ (b :> {s1, s2}) @@ (bad :> {})
    @@ (raw :> {})
MCNeeds == (prog :> {}) @@ (a :> {s1, s2}) @@ (b :> {s1}) @@ (bad :> {})
    @@ (raw :> {})

AllFailures == InitFailures \cup PrepareFailures \cup DisposeFailures

ObjSymmetry == Permutations(Objs)
=============================================================================
