---------------------------- MODULE LdRelocation ----------------------------
(***************************************************************************)
(* The relocation of one NRO module in libnx-ld (ld.c, 314-564): the words *)
(* of its image are rewritten by _ldRelocateModule when it is loaded, and  *)
(* by _ldResolveModuleSymbols at every lookup until all the names it needs *)
(* are provided by some module.  A resolution that fails half way keeps    *)
(* what it has written, and the next lookup starts again from the first    *)
(* entry.                                                                  *)
(*                                                                         *)
(* The image is an array of words, a table names words by their index, and *)
(* word arithmetic wraps as that of Elf64_Addr.  Every step of the model   *)
(* is one table entry.                                                     *)
(***************************************************************************)
EXTENDS Integers, Sequences

CONSTANTS
    WordSize,   \* number of values of a word, a power of two
    Base,       \* base_addr, as a word
    NWords,     \* number of words of the image
    BitmapBits, \* words covered by an odd RELR entry (63 in the code)
    Symbols,    \* the names the tables refer to
    Address,    \* Address[s]: the address of s once some module provides it
    Hidden,     \* names with non-default visibility, searched in the module
    Own,        \* the names the module defines itself
    Weak,       \* names with weak binding
    Tables,     \* the relocation tables the module may have
    MaxAttempts \* bound on the lookups that try to resolve the module

Words == 0 .. WordSize - 1
Index == 0 .. NWords - 1

ASSUME WordAssumption ==
    /\ WordSize \in Nat \ {0}
    /\ NWords \in Nat
    /\ BitmapBits \in Nat \ {0}
    /\ Base \in Words
ASSUME AddressAssumption ==
    /\ Address \in [Symbols -> Words \ {0}]
    /\ Hidden \subseteq Symbols
    /\ Own \subseteq Symbols
    /\ Weak \subseteq Symbols
ASSUME AttemptsAssumption == MaxAttempts \in Nat

(* Entries: R_AARCH64_RELATIVE; RELR addresses and bitmaps; the symbolic   *)
(* ones, of the dynamic table ("abs") and then of the PLT ("slot").  The   *)
(* addend is only there in a RELA table.                                   *)
RelativeEntries == [word : Index, addend : Words]
RelrEntries == [odd : {FALSE}, word : Index] \cup
               [odd : {TRUE}, bits : SUBSET (0 .. BitmapBits - 1)]
SymbolEntries ==
    [kind : {"abs", "slot"}, word : Index, sym : Symbols, addend : Words]

ShapeOK(t) ==
    /\ t.isRela \in BOOLEAN
    /\ t.initial \in [Index -> Words]
    /\ t.relative \in Seq(RelativeEntries)
    /\ t.relr \in Seq(RelrEntries)
    /\ Len(t.relr) > 0 => ~t.relr[1].odd
    /\ t.symbolic \in Seq(SymbolEntries)

(* Elf64_Addr arithmetic. *)
Wrap(n) == n % WordSize
-----------------------------------------------------------------------------
(* What the tables mean, whatever the order they are walked in. *)

RelativeAt(t, w) == {i \in 1 .. Len(t.relative) : t.relative[i].word = w}
SymbolicAt(t, w) == {i \in 1 .. Len(t.symbolic) : t.symbolic[i].word = w}

(* Entry i of the RELR table counts from the last even entry j up to it. *)
IsAnchor(t, j, i) ==
    /\ j \in 1 .. i
    /\ ~t.relr[j].odd
    /\ \A k \in j + 1 .. i : t.relr[k].odd
RelrTargets(t, i, j) ==
    IF i = j
    THEN {t.relr[j].word}
    ELSE {t.relr[j].word + 1 + BitmapBits * (i - j - 1) + b :
            b \in t.relr[i].bits}
RelrAt(t, w) ==
    {i \in 1 .. Len(t.relr) :
        \E j \in 1 .. i : IsAnchor(t, j, i) /\ w \in RelrTargets(t, i, j)}

(* A linker names every word once, and only words of the image. *)
NamedBy(t, w) == ({"relative"} \X RelativeAt(t, w))
                 \cup ({"relr"} \X RelrAt(t, w))
                 \cup ({"symbolic"} \X SymbolicAt(t, w))
WellFormed(t) ==
    /\ \A w \in Index : \A m, n \in NamedBy(t, w) : m = n
    /\ \A i \in 1 .. Len(t.relr) : \A j \in 1 .. i :
          IsAnchor(t, j, i) => RelrTargets(t, i, j) \subseteq Index

ASSUME TablesAssumption == \A t \in Tables : ShapeOK(t) /\ WellFormed(t)

VARIABLES
    table,      \* the tables of the module, which never change
    words,      \* the words of the image
    phase,      \* the loop the library is in, or the LdModule.state
    at,         \* the entry of the table that loop is at
    ptr,        \* the word the next odd RELR entry starts at
    provided,   \* the names some module provides by now
    attempts    \* the resolutions begun

vars == <<table, words, phase, at, ptr, provided, attempts>>

-----------------------------------------------------------------------------
Init ==
    /\ table \in Tables
    /\ words = table.initial
    /\ phase = "relative"
    /\ at = 1
    /\ ptr = 0
    /\ provided = {}
    /\ attempts = 0

(* What an entry adds its value to: a REL entry to the word itself. *)
Accumulated(e) ==
    IF table.isRela THEN words[e.word] + e.addend ELSE words[e.word]
Operand(e) == IF table.isRela THEN e.addend ELSE words[e.word]

(* _ldRelocateModule, the R_AARCH64_RELATIVE entries. *)
RelocateRelative ==
    /\ phase = "relative"
    /\ at <= Len(table.relative)
    /\ LET e == table.relative[at]
       IN  words' = [words EXCEPT ![e.word] = Wrap(Base + Operand(e))]
    /\ at' = at + 1
    /\ UNCHANGED <<table, phase, ptr, provided, attempts>>

BeginRelr ==
    /\ phase = "relative"
    /\ at > Len(table.relative)
    /\ phase' = "relr"
    /\ at' = 1
    /\ UNCHANGED <<table, words, ptr, provided, attempts>>

AddBase(ws) == [i \in Index |-> IF i \in ws THEN Wrap(words[i] + Base)
                                ELSE words[i]]

AfterFullWord == ptr + BitmapBits + 1
AfterBitmap == ptr + BitmapBits

(* _ldRelocateModule, the RELR entries: an even one names a word and sets  *)
(* the pointer after it, an odd one is a bitmap from the pointer on.       *)
RelocateRelr ==
    /\ phase = "relr"
    /\ at <= Len(table.relr)
    /\ LET e == table.relr[at]
       IN  \/ /\ ~e.odd
              /\ words' = AddBase({e.word})
              /\ ptr' = e.word + 1
           \/ /\ e.odd
              /\ words' = AddBase({ptr + b : b \in e.bits})
              /\ ptr' = AfterBitmap
    /\ at' = at + 1
    /\ UNCHANGED <<table, phase, provided, attempts>>

FinishLoad ==
    /\ phase = "relr"
    /\ at > Len(table.relr)
    /\ phase' = "Loaded"
    /\ UNCHANGED <<table, words, at, ptr, provided, attempts>>

(* Another module is loaded, and provides more names. *)
LoadProvider ==
    /\ phase = "Loaded"
    /\ \E s \in Symbols \ provided : provided' = provided \cup {s}
    /\ UNCHANGED <<table, words, phase, at, ptr, attempts>>

(* _ldTryResolveModuleSymbol *)
Resolves(s) ==
    IF s \in Hidden THEN s \in Own \cup Weak ELSE s \in Own \cup provided
Resolved(s) == IF s \in Hidden \ Own THEN 0 ELSE Address[s]

(* A lookup finds the module Loaded and walks its tables. *)
BeginResolve ==
    /\ phase = "Loaded"
    /\ attempts < MaxAttempts
    /\ phase' = "resolving"
    /\ at' = 1
    /\ attempts' = attempts + 1
    /\ UNCHANGED <<table, words, ptr, provided>>

(* _ldResolveModuleSymbol_{Rel,Rela}{Absolute,JumpSlot} find the symbol. *)
ResolveEntry ==
    /\ phase = "resolving"
    /\ at <= Len(table.symbolic)
    /\ LET e == table.symbolic[at]
       IN  /\ Resolves(e.sym)
           /\ words' = [words EXCEPT ![e.word] =
                                Wrap(Resolved(e.sym) + Operand(e))]
    /\ at' = at + 1
    /\ UNCHANGED <<table, phase, ptr, provided, attempts>>

(* They do not: the lookup ends with UnresolvedSymbol, and the slot of a   *)
(* function is pointed at its lazy binding stub.                           *)
FailEntry ==
    /\ phase = "resolving"
    /\ at <= Len(table.symbolic)
    /\ LET e == table.symbolic[at]
       IN  /\ ~Resolves(e.sym)
           /\ words' = IF e.kind = "slot" THEN AddBase({e.word}) ELSE words
    /\ phase' = "Loaded"
    /\ UNCHANGED <<table, at, ptr, provided, attempts>>

FinishResolve ==
    /\ phase = "resolving"
    /\ at > Len(table.symbolic)
    /\ phase' = "Resolved"
    /\ UNCHANGED <<table, words, at, ptr, provided, attempts>>

Next ==
    \/ RelocateRelative
    \/ BeginRelr
    \/ RelocateRelr
    \/ FinishLoad
    \/ LoadProvider
    \/ BeginResolve
    \/ ResolveEntry
    \/ FailEntry
    \/ FinishResolve

Spec == Init /\ [][Next]_vars
-----------------------------------------------------------------------------
(* Properties. *)

TypeOK ==
    /\ ShapeOK(table)
    /\ words \in [Index -> Words]
    /\ phase \in {"relative", "relr", "Loaded", "resolving", "Resolved"}
    /\ at \in Nat \ {0}
    /\ ptr \in Nat
    /\ provided \subseteq Symbols
    /\ attempts \in 0 .. MaxAttempts

(* The addend of an entry, explicit or found in the word it names. *)
Addend(e) == IF table.isRela THEN e.addend ELSE table.initial[e.word]

LoadedWord(w) ==
    \/ \E i \in RelativeAt(table, w) :
          words[w] = Wrap(Base + Addend(table.relative[i]))
    \/ RelrAt(table, w) # {} /\ words[w] = Wrap(Base + table.initial[w])
    \/ /\ RelativeAt(table, w) = {} /\ RelrAt(table, w) = {}
       /\ words[w] = table.initial[w]
ResolvedWord(e) == words[e.word] = Wrap(Resolved(e.sym) + Addend(e))

(* The image is as the tables say: each word holds its base-relative or    *)
(* symbolic value, applied once, and nothing else was touched.             *)
ImageRelocated ==
    /\ \A w \in Index : SymbolicAt(table, w) = {} => LoadedWord(w)
    /\ \A i \in 1 .. Len(table.symbolic) : ResolvedWord(table.symbolic[i])

(* Before any name is resolved the load has rebased each word once: the    *)
(* running pointer of the RELR loop decodes bitmaps to the words the       *)
(* format means (ld.c, 347-366).                                           *)
LoadRebasesOnce ==
    phase = "Loaded" /\ attempts = 0 => \A w \in Index : LoadedWord(w)

(* A module handed out as Resolved is correctly relocated, provided that   *)
(* its tables are RELA or the first attempt succeeded: whatever earlier    *)
(* attempts left behind is overwritten (ld.c, 457-477 and 504-527).        *)
ResolvedUnlessRelRetried ==
    phase = "Resolved" /\ (table.isRela \/ attempts = 1) => ImageRelocated

(* "Handling all required relocations and symbol-resolving" (README.md of  *)
(* libnx-ld, 15): a module found Resolved is relocated as its tables say.  *)
RelocationsHandled == phase = "Resolved" => ImageRelocated
=============================================================================
