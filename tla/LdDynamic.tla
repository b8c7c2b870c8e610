------------------------------ MODULE LdDynamic ------------------------------
(***************************************************************************)
(* What _ldLoadModule takes from the dynamic section of a module, and the  *)
(* search for a symbol in the hash table it found there (libnx-ld, ld.c).  *)
(* An address, size or count is a number, and 0 a field that nothing set:  *)
(* the LdModule is zeroed before.  The hash of a name is a constant, and   *)
(* so are the tables: a linker may chain the symbols of a bucket in any    *)
(* order and leave symbols out, and the hash table may be missing.         *)
(***************************************************************************)
EXTENDS Integers, Sequences, FiniteSets

CONSTANTS
    Entries,   \* the entries of dynamic sections: [tag, val]
    MaxLength, \* bound on the entries before DT_NULL
    Rela, Rel, \* the values DT_PLTREL should have
    NameOf,    \* NameOf[i]: the name of the symbol i
    Kind,      \* Kind[i]: "defined", "common" or "undefined" (st_shndx)
    Hash,      \* Hash[n]: _ldElfHashString(n)
    TableAt,   \* TableAt[a]: the hash table at the address a
    Names      \* the names looked up

SymbolTable == 1 .. Len(NameOf)
ASSUME SymbolTableAssumption ==
    /\ Names # {}
    /\ NameOf \in Seq(Names)
    /\ Kind \in [SymbolTable -> {"defined", "common", "undefined"}]
    /\ Hash \in [Names -> Nat]

(* A hash table: the first symbol of each bucket, and the next after each  *)
(* symbol; 0 ends a chain.  place is the position of a symbol in the chain *)
(* of its bucket, 0 for a symbol in none.                                  *)
Chained(t, b) ==
    {i \in SymbolTable : t.place[i] > 0 /\ Hash[NameOf[i]] % t.nbucket = b}

(* i is the next of the symbols S after the position p.                    *)
NextOf(t, S, p, i) ==
    \/ i = 0 /\ \A j \in S : t.place[j] <= p
    \/ /\ i \in S /\ p < t.place[i]
       /\ \A j \in S : p < t.place[j] => t.place[i] <= t.place[j]
HashTable(t) ==
    /\ t.nbucket \in Nat \ {0}
    /\ t.bucket \in [0 .. t.nbucket - 1 -> SymbolTable \cup {0}]
    /\ t.chain \in [SymbolTable -> SymbolTable \cup {0}]
    /\ t.place \in [SymbolTable -> Nat]
    /\ \A b \in 0 .. t.nbucket - 1 :
          /\ NextOf(t, Chained(t, b), 0, t.bucket[b])
          /\ \A i \in Chained(t, b) :
                /\ NextOf(t, Chained(t, b), t.place[i], t.chain[i])
                /\ \A j \in Chained(t, b) : t.place[i] = t.place[j] => i = j
ASSUME HashTableAssumption ==
    /\ DOMAIN TableAt \subseteq Nat \ {0}
    /\ \A a \in DOMAIN TableAt : HashTable(TableAt[a])

(* The tags the loop tells apart; any other is ignored like DT_NEEDED.     *)
(* DT_*ENT has to be the size of an Elf64_Rel, _Rela, _Sym or _Relr.       *)
EntSize == [RELENT |-> 16, RELAENT |-> 24, SYMENT |-> 24, RELRENT |-> 8]
Checked == DOMAIN EntSize
Ignored == {"NEEDED"}
Kept ==
    {"PLTRELSZ", "PLTGOT", "HASH", "STRTAB", "SYMTAB", "REL", "RELSZ",
     "RELA", "RELASZ", "STRSZ", "RELR", "RELRSZ", "INIT", "INIT_ARRAY",
     "INIT_ARRAYSZ", "FINI", "FINI_ARRAY", "FINI_ARRAYSZ", "RELACOUNT",
     "RELCOUNT"}
Tags == Checked \cup Ignored \cup Kept \cup {"PLTREL", "JMPREL"}

ASSUME SectionAssumption ==
    /\ MaxLength \in Nat /\ Rela \in Nat /\ Rel \in Nat
    /\ Entries \subseteq [tag : Tags, val : Nat]
    /\ \A e \in Entries : e.tag = "HASH" => e.val \in DOMAIN TableAt

VARIABLES
    dyn,     \* the dynamic section, without DT_NULL
    pos,     \* the entry the loop is at
    mod,     \* the fields of the LdModule
    relPlt,  \* the local rel_plt
    status,  \* how far the module has come
    name,    \* the name looked up
    sym      \* the symbol the search is at; 0 ends a chain

dynamicVars == <<dyn, pos, mod, relPlt, status, name, sym>>
search == <<name, sym>>

(* The field an entry sets; DT_REL and DT_RELA share a union. *)
SizesSwapped(tag) ==
    CASE tag = "RELSZ" -> "rela_dyn_size"
      [] tag = "RELASZ" -> "rel_dyn_size"
      [] tag \in {"REL", "RELA"} -> "rela_or_rel"
      [] OTHER -> tag
FieldOf(tag) ==
    CASE tag = "RELSZ" -> "rel_dyn_size"
      [] tag = "RELASZ" -> "rela_dyn_size"
      [] tag \in {"REL", "RELA"} -> "rela_or_rel"
      [] OTHER -> tag
Fields == {FieldOf(tag) : tag \in Kept} \cup {"is_rela", "rela_or_rel_plt"}
Sections == UNION {[1 .. n -> Entries] : n \in 0 .. MaxLength}
-----------------------------------------------------------------------------
DynamicInit ==
    /\ dyn \in Sections
    /\ pos = 1
    /\ mod = [f \in Fields |-> 0]
    /\ relPlt = 0
    /\ status = "parsing"
    /\ name = CHOOSE n \in Names : TRUE
    /\ sym = 0

BadPltRel(v) == v \notin {Rela, Rel}
Rejects(e) ==
    \/ e.tag \in Checked /\ e.val # EntSize[e.tag]
    \/ e.tag = "PLTREL" /\ BadPltRel(e.val)

(* One entry of the loop, up to DT_NULL. *)
AtEnd == pos > Len(dyn)

ParseEntry ==
    /\ status = "parsing" /\ ~AtEnd
    /\ LET e == dyn[pos]
       IN  /\ status' = IF Rejects(e) THEN "rejected" ELSE status
           /\ relPlt' = IF e.tag = "JMPREL" THEN e.val ELSE relPlt
           /\ mod' = CASE e.tag = "PLTREL" ->
                            [mod EXCEPT !["is_rela"] =
                                IF e.val = Rela THEN 1 ELSE 0]
                       [] e.tag \in Kept ->
                            [mod EXCEPT ![FieldOf(e.tag)] = e.val]
                       [] OTHER -> mod
    /\ pos' = pos + 1
    /\ UNCHANGED <<dyn, search>>

EndParse ==
    /\ status = "parsing" /\ AtEnd
    /\ mod' = [mod EXCEPT !["rela_or_rel_plt"] = relPlt]
    /\ status' = "loaded"
    /\ UNCHANGED <<dyn, pos, relPlt, search>>
-----------------------------------------------------------------------------
(* _ldGetModuleSymbolByName, with the chain of a bucket.  Without DT_HASH  *)
(* there is nothing to divide by and no bucket to read.                    *)
NoTable == mod["HASH"] = 0
Table == TableAt[mod["HASH"]]
Bucket(n) == Table.bucket[Hash[n] % Table.nbucket]
Chain(i) == Table.chain[i]

GetModuleSymbolByName ==
    /\ status \in {"loaded", "absent", "found"}
    /\ name' \in Names
    /\ \/ NoTable /\ status' = "fault" /\ UNCHANGED sym
       \/ ~NoTable /\ status' = "searching" /\ sym' = Bucket(name')
    /\ UNCHANGED <<dyn, pos, mod, relPlt>>

AnyKind(i) == NameOf[i] = name
IsWanted(i) == Kind[i] = "defined" /\ NameOf[i] = name
SearchStep ==
    /\ status = "searching"
    /\ \/ sym = 0 /\ status' = "absent" /\ UNCHANGED sym
       \/ sym # 0 /\ IsWanted(sym) /\ status' = "found" /\ UNCHANGED sym
       \/ /\ sym # 0 /\ ~IsWanted(sym)
          /\ sym' = Chain(sym)
          /\ UNCHANGED status
    /\ UNCHANGED <<dyn, pos, mod, relPlt, name>>

DynamicNext ==
    \/ ParseEntry \/ EndParse
    \/ GetModuleSymbolByName \/ SearchStep

DynamicSpec == DynamicInit /\ [][DynamicNext]_dynamicVars
-----------------------------------------------------------------------------
(* Properties. *)

DynamicTypeOK ==
    /\ dyn \in Sections /\ pos \in 1 .. Len(dyn) + 1
    /\ mod \in [Fields -> Nat] /\ relPlt \in Nat
    /\ mod["HASH"] \in DOMAIN TableAt \cup {0}
    /\ status \in {"parsing", "rejected", "loaded", "searching", "absent",
                   "found", "fault"}
    /\ name \in Names /\ sym \in SymbolTable \cup {0}

(* The value the section as a whole gives for some tags: that of the last  *)
(* entry with one of them.                                                 *)
Has(tags) == \E i \in DOMAIN dyn : dyn[i].tag \in tags
Last(tags) ==
    LET is == {i \in DOMAIN dyn : dyn[i].tag \in tags}
    IN  IF is = {} THEN 0
        ELSE dyn[CHOOSE i \in is : \A j \in is : j <= i].val
Loaded == status \notin {"parsing", "rejected"}
OwnField == Kept \ {"REL", "RELSZ", "RELA", "RELASZ"}

(* A module that loads has in each of its fields what its section says, in *)
(* any order of the entries, DT_JMPREL before DT_PLTREL or after it, and   *)
(* in the union of the two tables the later of them; and none of its       *)
(* entries has a size or a DT_PLTREL that is refused (ld.c, 152-312).      *)
LoadedIsTheSection ==
    Loaded =>
        /\ \A tag \in OwnField : mod[tag] = Last({tag})
        /\ mod["rel_dyn_size"] = Last({"RELSZ"})
        /\ mod["rela_dyn_size"] = Last({"RELASZ"})
        /\ mod["rela_or_rel"] = Last({"REL", "RELA"})
        /\ mod["rela_or_rel_plt"] = Last({"JMPREL"})
        /\ mod["is_rela"] = 1 <=> Has({"PLTREL"}) /\ Last({"PLTREL"}) = Rela
        /\ \A i \in DOMAIN dyn : ~Rejects(dyn[i])

(* Whatever the order of its chains, a search of the table ends at the     *)
(* symbol nearest the head of its chain that has the name and is defined,  *)
(* past any undefined or common symbol with the same name or the same      *)
(* hash; it fails only if no chain holds one, and goes wrong only in a     *)
(* module whose section has no hash table (ld.c, 381-392).                 *)
Wanted ==
    {i \in SymbolTable :
        Table.place[i] > 0 /\ Kind[i] = "defined" /\ NameOf[i] = name}
SearchFindsFirstDefined ==
    /\ status = "found" =>
          /\ sym \in Wanted
          /\ \A i \in Wanted : Table.place[sym] <= Table.place[i]
    /\ status = "absent" => Wanted = {}
    /\ status = "fault" => ~Has({"HASH"})
=============================================================================
