----------------------------- MODULE MCLdModule -----------------------------
(***************************************************************************)
(* What libnx-ld does with the data of one module, in one finite instance: *)
(* its dynamic section and hash table, and its relocation tables.  The two *)
(* specifications share no state, so that the behaviors in which one runs  *)
(* and the other rests stand for their interleavings; part is the one that *)
(* runs.                                                                   *)
(***************************************************************************)
EXTENDS MCLdRelocation, LdDynamic, TLC

(* Both forms of the relocation tables, a size of each, a tag with a field *)
(* of its own, the entries whose value is checked, each good and bad, and  *)
(* three hash tables.                                                      *)
MCEntries ==
    {[tag |-> t, val |-> 8] : t \in {"REL", "RELSZ", "RELA", "RELASZ",
                                     "JMPREL", "INIT", "NEEDED"}}
    \cup {[tag |-> "INIT", val |-> 9]}
    \cup {[tag |-> t, val |-> EntSize[t]] : t \in Checked}
    \cup {[tag |-> t, val |-> EntSize[t] + 8] : t \in {"RELENT", "RELRENT"}}
    \cup {[tag |-> t, val |-> EntSize[t] - 8] : t \in {"RELAENT", "SYMENT"}}
    \cup {[tag |-> "PLTREL", val |-> v] : v \in {7, 17, 20}}
    \cup {[tag |-> "HASH", val |-> a] : a \in 1 .. 3}

(* "a" is undefined before it is defined, "b" defined twice, "c" common    *)
(* only, and "d" in no table; "a" and "c" share a hash.                    *)
MCNameOf == <<"a", "b", "c", "a", "b">>
MCKind == <<"undefined", "defined", "common", "defined", "defined">>
MCNames == {"a", "b", "c", "d"}
MCHash == [n \in MCNames |-> CASE n = "b" -> 3 [] n = "d" -> 1 [] OTHER -> 2]

(* One bucket with each symbol appended to its chain; two buckets with     *)
(* each put at the head; and one that leaves out "b" and the undefined "a".*)
MCTableAt ==
    << [nbucket |-> 1, bucket |-> (0 :> 1), chain |-> <<2, 3, 4, 5, 0>>,
        place |-> <<1, 2, 3, 4, 5>>],
       [nbucket |-> 2, bucket |-> (0 :> 4 @@ 1 :> 5),
        chain |-> <<0, 0, 1, 3, 2>>, place |-> <<3, 2, 2, 1, 1>>],
       [nbucket |-> 2, bucket |-> (0 :> 3 @@ 1 :> 0),
        chain |-> <<0, 0, 4, 0, 0>>, place |-> <<0, 0, 1, 2, 0>>] >>

VARIABLE part

(* The part that rests has one initial state. *)
ModuleInit ==
    \/ /\ part = "section"
       /\ table = CHOOSE t \in Tables : TRUE
       /\ words = table.initial /\ phase = "relative" /\ at = 1 /\ ptr = 0
       /\ provided = {} /\ attempts = 0
       /\ DynamicInit
    \/ /\ part = "relocation" /\ Init
       /\ dyn = <<>> /\ pos = 1 /\ mod = [f \in Fields |-> 0] /\ relPlt = 0
       /\ status = "parsing" /\ name = "a" /\ sym = 0

ModuleNext ==
    /\ part' = part
    /\ \/ part = "section" /\ DynamicNext /\ UNCHANGED vars
       \/ part = "relocation" /\ Next /\ UNCHANGED dynamicVars

ModuleSpec == ModuleInit /\ [][ModuleNext]_<<part, vars, dynamicVars>>
=============================================================================
