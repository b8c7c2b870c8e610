---------------------------- MODULE LdModuleProofs ----------------------------
(***************************************************************************)
(* Proofs about what libnx-ld does with the data of one module.            *)
(*                                                                         *)
(* LdRelocation: for all well-formed tables the load rebases each word     *)
(* once, and a module found Resolved is relocated as its tables say,       *)
(* unless they are REL tables and a resolution was tried again.            *)
(*                                                                         *)
(* LdDynamic: for all sections and all hash tables, a load takes what the  *)
(* section says and a search finds the first symbol that is wanted.        *)
(***************************************************************************)
EXTENDS LdRelocation, LdDynamic, WellFoundedInduction, TLAPS

USE DEF Index, Words

-----------------------------------------------------------------------------
(* Facts about the tables. *)

LEMMA WrapType ==
    ASSUME NEW n \in Int
    PROVE  Wrap(n) \in Words
BY WordAssumption DEF Wrap

(* A word has one entry at most. *)
LEMMA NamedOnce ==
    ASSUME NEW t, WellFormed(t), NEW w \in Index
    PROVE  /\ \A i, k \in RelativeAt(t, w) : i = k
           /\ \A i, k \in RelrAt(t, w) : i = k
           /\ \A i, k \in SymbolicAt(t, w) : i = k
           /\ RelativeAt(t, w) # {} => RelrAt(t, w) = {}
           /\ SymbolicAt(t, w) # {} =>
                 RelativeAt(t, w) = {} /\ RelrAt(t, w) = {}
<1> DEFINE RelIn == RelativeAt(t, w)
           RelrIn == RelrAt(t, w)
           SymIn == SymbolicAt(t, w)
<1>1. \A m, n \in NamedBy(t, w) : m = n
  BY DEF WellFormed
<1>2. NamedBy(t, w) = ({"relative"} \X RelIn) \cup ({"relr"} \X RelrIn)
                      \cup ({"symbolic"} \X SymIn)
  BY DEF NamedBy
<1>3. /\ \A i \in RelIn : <<"relative", i>> \in NamedBy(t, w)
      /\ \A i \in RelrIn : <<"relr", i>> \in NamedBy(t, w)
      /\ \A i \in SymIn : <<"symbolic", i>> \in NamedBy(t, w)
  BY <1>2
<1> HIDE DEF RelIn, RelrIn, SymIn
<1>4. /\ \A i, k \in RelIn : i = k
      /\ \A i, k \in RelrIn : i = k
      /\ \A i, k \in SymIn : i = k
      /\ \A i \in RelIn : \A k \in RelrIn : FALSE
      /\ \A i \in RelIn : \A k \in SymIn : FALSE
      /\ \A i \in RelrIn : \A k \in SymIn : FALSE
  BY <1>1, <1>3
<1>5. QED
  BY <1>4 DEF RelIn, RelrIn, SymIn

(* An entry of the RELR table has one even entry it counts from. *)
LEMMA AnchorUnique ==
    ASSUME NEW t, NEW i \in Nat, NEW j \in Nat, NEW k \in Nat,
           IsAnchor(t, j, i), IsAnchor(t, k, i)
    PROVE  j = k
<1>1. CASE j < k
  BY <1>1 DEF IsAnchor
<1>2. CASE k < j
  BY <1>2 DEF IsAnchor
<1>3. QED
  BY <1>1, <1>2

LEMMA TableFacts ==
    ASSUME table \in Tables
    PROVE  ShapeOK(table) /\ WellFormed(table)
BY TablesAssumption
-----------------------------------------------------------------------------
(* The inductive invariant, by phases. *)

RelativeWord(w) ==
    \A i \in RelativeAt(table, w) :
        words[w] = Wrap(Base + Addend(table.relative[i]))

RelativeInv ==
    phase = "relative" => \A w \in Index :
        \/ words[w] = table.initial[w] /\ \A i \in RelativeAt(table, w) : i >= at
        \/ \E i \in RelativeAt(table, w) :
              words[w] = Wrap(Base + Addend(table.relative[i])) /\ i < at

(* Where the pointer of the RELR loop stands. *)
PointerInv ==
    phase = "relr" /\ at > 1 =>
        \E j \in 1 .. at - 1 :
            /\ IsAnchor(table, j, at - 1)
            /\ ptr = table.relr[j].word + 1 + BitmapBits * (at - 1 - j)
RelrInv ==
    phase = "relr" => \A w \in Index :
        \/ RelativeAt(table, w) # {} /\ RelativeWord(w)
        \/ /\ RelativeAt(table, w) = {}
           /\ words[w] = table.initial[w]
           /\ \A i \in RelrAt(table, w) : i >= at
        \/ /\ words[w] = Wrap(Base + table.initial[w])
           /\ \E i \in RelrAt(table, w) : i < at

AfterLoad == phase \in {"Loaded", "resolving", "Resolved"}
LoadedInv ==
    AfterLoad => \A w \in Index :
        SymbolicAt(table, w) = {} \/ attempts = 0 => LoadedWord(w)

(* What a resolution in progress has done, and has still to find. *)
ResolvingInv ==
    phase = "resolving" =>
        /\ attempts > 0
        /\ table.isRela \/ attempts = 1 =>
              \A i \in 1 .. Len(table.symbolic) :
                  i < at => ResolvedWord(table.symbolic[i])
        /\ attempts = 1 =>
              \A i \in 1 .. Len(table.symbolic) :
                  i >= at => words[table.symbolic[i].word]
                             = table.initial[table.symbolic[i].word]
ResolvedInv ==
    phase = "Resolved" =>
        /\ attempts > 0
        /\ table.isRela \/ attempts = 1 =>
              \A i \in 1 .. Len(table.symbolic) :
                  ResolvedWord(table.symbolic[i])

RelocInv ==
    /\ TypeOK
    /\ table \in Tables
    /\ RelativeInv
    /\ PointerInv
    /\ RelrInv
    /\ LoadedInv
    /\ ResolvingInv
    /\ ResolvedInv
-----------------------------------------------------------------------------
(* Typing. *)

LEMMA EntryTypes ==
    ASSUME TypeOK, table \in Tables
    PROVE  /\ \A i \in 1 .. Len(table.relative) :
                  table.relative[i] \in RelativeEntries
           /\ \A i \in 1 .. Len(table.relr) : table.relr[i] \in RelrEntries
           /\ \A i \in 1 .. Len(table.symbolic) :
                  table.symbolic[i] \in SymbolEntries
           /\ Len(table.relative) \in Nat
           /\ Len(table.relr) \in Nat
           /\ Len(table.symbolic) \in Nat
           /\ table.initial \in [Index -> Words]
BY DEF TypeOK, ShapeOK

LEMMA RelrEntryTypes ==
    ASSUME NEW e \in RelrEntries
    PROVE  /\ e.odd \in BOOLEAN
           /\ ~e.odd => e.word \in Index
           /\ e.odd => e.bits \subseteq 0 .. BitmapBits - 1
<1>1. CASE e \in [odd : {FALSE}, word : Index]
  <2>1. e.odd = FALSE /\ e.word \in Index
    BY <1>1
  <2>2. QED
    BY <2>1
<1>2. CASE e \in [odd : {TRUE}, bits : SUBSET (0 .. BitmapBits - 1)]
  <2>1. e.odd = TRUE /\ e.bits \subseteq 0 .. BitmapBits - 1
    BY <1>2
  <2>2. QED
    BY <2>1
<1>3. QED
  BY <1>1, <1>2 DEF RelrEntries

LEMMA ResolvedType ==
    ASSUME NEW s \in Symbols
    PROVE  Resolved(s) \in Words
BY AddressAssumption, WordAssumption DEF Resolved

LEMMA OperandType ==
    ASSUME TypeOK, NEW e, e.word \in Index, e.addend \in Words
    PROVE  Operand(e) \in Int /\ Addend(e) \in Int
<1>1. words[e.word] \in Words /\ table.initial[e.word] \in Words
  BY DEF TypeOK, ShapeOK
<1>2. Words \subseteq Int
  BY WordAssumption
<1>3. QED
  BY <1>1, <1>2 DEF Operand, Addend

LEMMA AddBaseType ==
    ASSUME TypeOK, NEW ws
    PROVE  AddBase(ws) \in [Index -> Words]
<1> SUFFICES ASSUME NEW i \in Index
             PROVE  Wrap(words[i] + Base) \in Words /\ words[i] \in Words
  BY DEF AddBase
<1>1. words[i] \in Words
  BY DEF TypeOK
<1>2. words[i] + Base \in Int
  BY <1>1, WordAssumption
<1>3. QED
  BY <1>1, <1>2, WrapType

LEMMA TypePreserved ==
    ASSUME TypeOK, table \in Tables, [Next]_vars
    PROVE  TypeOK' /\ (table \in Tables)'
<1> USE DEF TypeOK
<1>1. CASE RelocateRelative
  <2> DEFINE e == table.relative[at]
  <2>1. at \in 1 .. Len(table.relative) /\ e \in RelativeEntries
    BY <1>1, EntryTypes DEF RelocateRelative
  <2>2. e.word \in Index /\ e.addend \in Words
    BY <2>1 DEF RelativeEntries
  <2>3. Base + Operand(e) \in Int
    <3>1. Operand(e) \in Int
      BY <2>2, OperandType
    <3>2. Base \in Int
      BY WordAssumption
    <3>3. QED
      BY <3>1, <3>2
  <2>4. Wrap(Base + Operand(e)) \in Words
    BY <2>3, WrapType
  <2>5. words' = [words EXCEPT ![e.word] = Wrap(Base + Operand(e))]
    BY <1>1 DEF RelocateRelative
  <2>6. words' \in [Index -> Words]
    BY <2>2, <2>4, <2>5
  <2>7. QED
    BY <1>1, <2>6 DEF RelocateRelative
<1>2. CASE RelocateRelr
  <2> DEFINE e == table.relr[at]
  <2>1. at \in 1 .. Len(table.relr) /\ e \in RelrEntries
    BY <1>2, EntryTypes DEF RelocateRelr
  <2>2. ~e.odd => e.word \in Nat
    BY <2>1, RelrEntryTypes, WordAssumption
  <2>3. words' \in [Index -> Words]
    BY <1>2, AddBaseType DEF RelocateRelr
  <2>4. ptr' \in Nat
    BY <1>2, <2>2, WordAssumption DEF RelocateRelr, AfterBitmap
  <2>5. QED
    BY <1>2, <2>3, <2>4 DEF RelocateRelr
<1>3. CASE BeginRelr \/ FinishLoad \/ FinishResolve
  BY <1>3 DEF BeginRelr, FinishLoad, FinishResolve
<1>4. CASE LoadProvider
  BY <1>4 DEF LoadProvider
<1>5. CASE BeginResolve
  BY <1>5, AttemptsAssumption DEF BeginResolve
<1>6. CASE ResolveEntry
  <2> DEFINE e == table.symbolic[at]
  <2>1. at \in 1 .. Len(table.symbolic) /\ e \in SymbolEntries
    BY <1>6, EntryTypes DEF ResolveEntry
  <2>2. e.word \in Index /\ e.addend \in Words /\ e.sym \in Symbols
    BY <2>1 DEF SymbolEntries
  <2>3. Resolved(e.sym) + Operand(e) \in Int
    BY <2>2, OperandType, ResolvedType
  <2>4. Wrap(Resolved(e.sym) + Operand(e)) \in Words
    BY <2>3, WrapType
  <2>5. words' = [words EXCEPT ![e.word] = Wrap(Resolved(e.sym) + Operand(e))]
    BY <1>6 DEF ResolveEntry
  <2>6. words' \in [Index -> Words]
    BY <2>2, <2>4, <2>5
  <2>7. QED
    BY <1>6, <2>6 DEF ResolveEntry
<1>7. CASE FailEntry
  <2>1. words' \in [Index -> Words]
    BY <1>7, AddBaseType DEF FailEntry
  <2>2. QED
    BY <1>7, <2>1 DEF FailEntry
<1>8. CASE UNCHANGED vars
  BY <1>8 DEF vars
<1>9. QED
  BY <1>1, <1>2, <1>3, <1>4, <1>5, <1>6, <1>7, <1>8 DEF Next

(* The meaning of the tables does not change with the image. *)
LEMMA TableKept ==
    ASSUME table' = table, NEW w
    PROVE  /\ RelativeAt(table, w)' = RelativeAt(table, w)
           /\ RelrAt(table, w)' = RelrAt(table, w)
           /\ SymbolicAt(table, w)' = SymbolicAt(table, w)
           /\ \A e : Addend(e)' = Addend(e)
<1>1. RelativeAt(table, w)' = RelativeAt(table, w)
  BY DEF RelativeAt
<1>2. SymbolicAt(table, w)' = SymbolicAt(table, w)
  BY DEF SymbolicAt
<1>3. RelrAt(table, w)' = RelrAt(table, w)
  BY DEF RelrAt, IsAnchor, RelrTargets
<1>4. \A e : Addend(e)' = Addend(e)
  BY DEF Addend
<1>5. QED
  BY <1>1, <1>2, <1>3, <1>4
-----------------------------------------------------------------------------
(* Loading. *)

LEMMA InitEstablishes ==
    ASSUME Init
    PROVE  RelocInv
<1>1. table \in Tables /\ ShapeOK(table)
  BY TableFacts DEF Init
<1>2. TypeOK
  BY <1>1, AttemptsAssumption DEF Init, TypeOK, ShapeOK
<1>3. RelativeInv
  <2>1. \A w \in Index : \A i \in RelativeAt(table, w) : i >= 1
    BY <1>1 DEF ShapeOK, RelativeAt
  <2>2. QED
    BY <2>1 DEF Init, RelativeInv
<1>4. PointerInv /\ RelrInv /\ LoadedInv /\ ResolvingInv /\ ResolvedInv
  BY DEF Init, PointerInv, RelrInv, LoadedInv, AfterLoad, ResolvingInv,
         ResolvedInv
<1>5. QED
  BY <1>1, <1>2, <1>3, <1>4 DEF RelocInv

(* The entry the RELATIVE loop is at is the one of its word. *)
LEMMA RelativePreserved ==
    ASSUME RelocInv, RelocateRelative
    PROVE  RelativeInv'
<1> DEFINE e == table.relative[at]
           value == Wrap(Base + Operand(e))
<1>1. /\ phase = "relative" /\ at' = at + 1 /\ phase' = phase
      /\ table' = table
      /\ words' = [words EXCEPT ![e.word] = value]
  BY DEF RelocateRelative
<1>2. at \in 1 .. Len(table.relative) /\ at \in Nat
  BY EntryTypes DEF RelocInv, TypeOK, RelocateRelative
<1>3. e \in RelativeEntries
  BY <1>2, EntryTypes DEF RelocInv
<1>4. e.word \in Index
  BY <1>3 DEF RelativeEntries
<1>5. at \in RelativeAt(table, e.word)
  BY <1>2 DEF RelativeAt
<1>6. WellFormed(table)
  BY TableFacts DEF RelocInv
<1>7. words \in [Index -> Words]
  BY DEF RelocInv, TypeOK
<1>8. words[e.word] = table.initial[e.word]
  <2>1. \A i \in RelativeAt(table, e.word) : i = at
    BY <1>4, <1>5, <1>6, NamedOnce
  <2>2. ~ \E i \in RelativeAt(table, e.word) : i < at
    BY <1>2, <2>1
  <2>3. QED
    BY <1>1, <1>4, <2>2 DEF RelocInv, RelativeInv
<1>9. value = Wrap(Base + Addend(e))
  BY <1>8 DEF Operand, Addend
<1> HIDE DEF e, value
<1>10. SUFFICES ASSUME NEW w \in Index
       PROVE  \/ /\ words'[w] = table.initial[w]
                 /\ \A i \in RelativeAt(table, w) : i >= at + 1
              \/ \E i \in RelativeAt(table, w) :
                    /\ words'[w] = Wrap(Base + Addend(table.relative[i]))
                    /\ i < at + 1
  BY <1>1 DEF RelativeInv, RelativeAt, Addend
<1>11. CASE w = e.word
  <2>1. words'[w] = Wrap(Base + Addend(table.relative[at]))
    BY <1>1, <1>4, <1>7, <1>9, <1>11 DEF e
  <2>2. at < at + 1
    BY <1>2
  <2>3. QED
    BY <1>5, <1>11, <2>1, <2>2
<1>12. CASE w # e.word
  <2>1. words'[w] = words[w]
    BY <1>1, <1>7, <1>12
  <2>2. at \notin RelativeAt(table, w)
    BY <1>12 DEF e, RelativeAt
  <2>3. \A i \in RelativeAt(table, w) : i \in Int
    BY DEF RelativeAt
  <2>4. \/ words[w] = table.initial[w]
           /\ \A i \in RelativeAt(table, w) : i >= at
        \/ \E i \in RelativeAt(table, w) :
              words[w] = Wrap(Base + Addend(table.relative[i])) /\ i < at
    BY <1>1 DEF RelocInv, RelativeInv
  <2>5. CASE words[w] = table.initial[w]
             /\ \A i \in RelativeAt(table, w) : i >= at
    BY <1>2, <2>1, <2>2, <2>3, <2>5
  <2>6. CASE \E i \in RelativeAt(table, w) :
                words[w] = Wrap(Base + Addend(table.relative[i])) /\ i < at
    BY <1>2, <2>1, <2>3, <2>6
  <2>7. QED
    BY <2>4, <2>5, <2>6
<1>13. QED
  BY <1>11, <1>12

LEMMA RelrBegins ==
    ASSUME RelocInv, BeginRelr
    PROVE  PointerInv' /\ RelrInv'
<1>1. /\ phase = "relative" /\ at > Len(table.relative) /\ at' = 1
      /\ UNCHANGED <<table, words>>
  BY DEF BeginRelr
<1>2. PointerInv'
  BY <1>1 DEF PointerInv
<1>3. at \in Nat /\ Len(table.relative) \in Nat
  BY EntryTypes DEF RelocInv, TypeOK
<1>4. SUFFICES ASSUME NEW w \in Index
      PROVE  \/ RelativeAt(table, w) # {} /\ RelativeWord(w)
             \/ /\ RelativeAt(table, w) = {}
                /\ words[w] = table.initial[w]
                /\ \A i \in RelrAt(table, w) : i >= 1
  BY <1>1, <1>2 DEF RelrInv, RelativeWord, RelativeAt, RelrAt, IsAnchor,
                    RelrTargets, Addend
<1>5. \A i \in RelativeAt(table, w) : i \in Nat /\ i < at
  BY <1>1, <1>3 DEF RelativeAt
<1>6. \A i \in RelrAt(table, w) : i >= 1
  BY DEF RelrAt
<1>7. CASE \E i \in RelativeAt(table, w) :
              words[w] = Wrap(Base + Addend(table.relative[i])) /\ i < at
  <2>1. \A i, k \in RelativeAt(table, w) : i = k
    BY NamedOnce, TableFacts DEF RelocInv
  <2>2. RelativeWord(w)
    BY <1>7, <2>1 DEF RelativeWord
  <2>3. QED
    BY <1>7, <2>2
<1>8. CASE words[w] = table.initial[w]
           /\ \A i \in RelativeAt(table, w) : i >= at
  <2>1. RelativeAt(table, w) = {}
    BY <1>3, <1>5, <1>8
  <2>2. QED
    BY <1>6, <1>8, <2>1
<1>9. QED
  BY <1>1, <1>7, <1>8 DEF RelocInv, RelativeInv

(* The words a RELR entry names are those its step adds the base to. *)
LEMMA RelrStep ==
    ASSUME RelocInv, RelocateRelr
    PROVE  /\ PointerInv'
           /\ \E ws \in SUBSET Int :
                 /\ words' = AddBase(ws)
                 /\ \A w \in Index : at \in RelrAt(table, w) <=> w \in ws
<1> DEFINE e == table.relr[at]
<1>1. /\ phase = "relr" /\ at' = at + 1 /\ phase' = phase /\ table' = table
      /\ at \in Nat \ {0} /\ at \in 1 .. Len(table.relr)
      /\ ptr \in Nat
  BY EntryTypes DEF RelocateRelr, RelocInv, TypeOK
<1>2. e \in RelrEntries
  BY <1>1, EntryTypes DEF RelocInv
<1>3. e.odd \in BOOLEAN /\ (~e.odd => e.word \in Index)
      /\ (e.odd => e.bits \subseteq 0 .. BitmapBits - 1)
  BY <1>2, RelrEntryTypes
<1>4. CASE ~e.odd
  <2>1. IsAnchor(table, at, at)
    BY <1>1, <1>4 DEF IsAnchor
  <2>2. ptr' = e.word + 1 /\ words' = AddBase({e.word})
    BY <1>4 DEF RelocateRelr
  <2>3. e.word + 1 = e.word + 1 + BitmapBits * (at + 1 - 1 - at)
    BY <1>1, <1>3, <1>4, WordAssumption
  <2>4. at + 1 - 1 = at
    BY <1>1
  <2>5. PointerInv'
    BY <1>1, <2>1, <2>2, <2>3, <2>4 DEF PointerInv, IsAnchor
  <2>6. ASSUME NEW w \in Index
        PROVE  at \in RelrAt(table, w) <=> w \in {e.word}
    <3>1. \A j \in 1 .. at : IsAnchor(table, j, at) => j = at
      BY <1>1, <2>1, AnchorUnique
    <3>2. RelrTargets(table, at, at) = {e.word}
      BY DEF RelrTargets
    <3>3. QED
      BY <1>1, <2>1, <3>1, <3>2 DEF RelrAt
  <2>7. {e.word} \in SUBSET Int
    BY <1>3, <1>4, WordAssumption
  <2>8. QED
    BY <2>2, <2>5, <2>6, <2>7
<1>5. CASE e.odd
  <2>1. at > 1
    BY <1>1, <1>5 DEF RelocInv, TypeOK, ShapeOK
  <2>2. PICK j \in 1 .. at - 1 :
           /\ IsAnchor(table, j, at - 1)
           /\ ptr = table.relr[j].word + 1 + BitmapBits * (at - 1 - j)
    BY <1>1, <2>1 DEF RelocInv, PointerInv
  <2>3. j \in Nat /\ j \in 1 .. at /\ j # at /\ j \in 1 .. Len(table.relr)
    BY <1>1, <2>2
  <2>4. IsAnchor(table, j, at)
    <3>1. \A k \in j + 1 .. at : k \in j + 1 .. at - 1 \/ k = at
      BY <1>1, <2>3
    <3>2. QED
      BY <1>5, <2>2, <2>3, <3>1 DEF IsAnchor
  <2>5. ~table.relr[j].odd /\ table.relr[j] \in RelrEntries
    BY <2>2, <2>3, EntryTypes DEF IsAnchor, RelocInv
  <2>6. table.relr[j].word \in Nat
    BY <2>5, RelrEntryTypes, WordAssumption
  <2> DEFINE base == table.relr[j].word
             ws == {ptr + b : b \in e.bits}
  <2>7. words' = AddBase(ws) /\ ptr' = ptr + BitmapBits
    BY <1>5 DEF RelocateRelr, AfterBitmap
  <2>8. ptr + BitmapBits = base + 1 + BitmapBits * (at - j)
    <3>1. BitmapBits \in Nat /\ base \in Nat /\ at - 1 - j \in Int
      BY <1>1, <2>3, <2>6, WordAssumption
    <3>2. BitmapBits * (at - j) = BitmapBits * (at - 1 - j) + BitmapBits
      BY <1>1, <2>3, <3>1
    <3> HIDE DEF base
    <3>3. QED
      BY <2>2, <3>1, <3>2 DEF base
  <2>9. PointerInv'
    <3>1. at + 1 - 1 = at /\ at + 1 - 1 - j = at - j
      BY <1>1, <2>3
    <3>2. table' = table /\ at' = at + 1
      BY DEF RelocateRelr
    <3>3. at' - 1 = at /\ at' - 1 - j = at - j /\ j \in 1 .. at' - 1
      BY <1>1, <2>3, <3>1, <3>2
    <3>4. IsAnchor(table', j, at' - 1)
      BY <2>4, <3>2, <3>3
    <3>5. ptr' = table'.relr[j].word + 1 + BitmapBits * (at' - 1 - j)
      BY <2>7, <2>8, <3>2, <3>3
    <3>6. QED
      BY <3>3, <3>4, <3>5 DEF PointerInv
  <2>10. ASSUME NEW w \in Index
         PROVE  at \in RelrAt(table, w) <=> w \in ws
    <3>1. \A k \in 1 .. at : IsAnchor(table, k, at) => k = j
      BY <1>1, <2>3, <2>4, AnchorUnique
    <3>2. at - j - 1 = at - 1 - j
      BY <1>1, <2>3
    <3>3. RelrTargets(table, at, j) = ws
      BY <2>2, <2>3, <3>2 DEF RelrTargets
    <3>4. QED
      BY <1>1, <2>3, <2>4, <3>1, <3>3 DEF RelrAt
  <2>11. ws \in SUBSET Int
    BY <1>1, <1>3, <1>5, WordAssumption
  <2>12. QED
    BY <2>7, <2>9, <2>10, <2>11
<1>6. QED
  BY <1>3, <1>4, <1>5

LEMMA RelrPreserved ==
    ASSUME RelocInv, RelocateRelr
    PROVE  PointerInv' /\ RelrInv'
<1>1. PICK ws \in SUBSET Int :
         /\ words' = AddBase(ws)
         /\ \A w \in Index : at \in RelrAt(table, w) <=> w \in ws
  BY RelrStep
<1>2. /\ phase = "relr" /\ at' = at + 1 /\ phase' = phase /\ table' = table
      /\ at \in Nat
  BY DEF RelocateRelr, RelocInv, TypeOK
<1>3. SUFFICES ASSUME NEW w \in Index
      PROVE  \/ /\ RelativeAt(table, w) # {}
                /\ \A i \in RelativeAt(table, w) :
                      words'[w] = Wrap(Base + Addend(table.relative[i]))
             \/ /\ RelativeAt(table, w) = {}
                /\ words'[w] = table.initial[w]
                /\ \A i \in RelrAt(table, w) : i >= at + 1
             \/ /\ words'[w] = Wrap(Base + table.initial[w])
                /\ \E i \in RelrAt(table, w) : i < at + 1
  BY <1>2, RelrStep, TableKept DEF RelrInv, RelativeWord
<1>4. /\ \A i, k \in RelrAt(table, w) : i = k
      /\ RelativeAt(table, w) # {} => RelrAt(table, w) = {}
  BY NamedOnce, TableFacts DEF RelocInv
<1>5. \A i \in RelrAt(table, w) : i \in Nat
  BY DEF RelrAt
<1>6. \/ RelativeAt(table, w) # {} /\ RelativeWord(w)
      \/ /\ RelativeAt(table, w) = {}
         /\ words[w] = table.initial[w]
         /\ \A i \in RelrAt(table, w) : i >= at
      \/ /\ words[w] = Wrap(Base + table.initial[w])
         /\ \E i \in RelrAt(table, w) : i < at
  BY <1>2 DEF RelocInv, RelrInv
<1>7. CASE at \in RelrAt(table, w)
  <2>1. words'[w] = Wrap(words[w] + Base)
    BY <1>1, <1>7 DEF AddBase
  <2>2. words[w] = table.initial[w]
    BY <1>2, <1>4, <1>6, <1>7
  <2>3. table.initial[w] + Base = Base + table.initial[w]
    <3>1. table.initial[w] \in Int /\ Base \in Int
      BY EntryTypes, WordAssumption DEF RelocInv
    <3>2. QED
      BY <3>1
  <2>4. words'[w] = Wrap(Base + table.initial[w])
    BY <2>1, <2>2, <2>3
  <2>5. at < at + 1
    BY <1>2
  <2>6. QED
    BY <1>7, <2>4, <2>5
<1>8. CASE at \notin RelrAt(table, w)
  <2>1. words'[w] = words[w]
    BY <1>1, <1>8 DEF AddBase
  <2>2. \A i \in RelrAt(table, w) : (i >= at => i >= at + 1)
                                    /\ (i < at => i < at + 1)
    BY <1>2, <1>5, <1>8
  <2>3. QED
    BY <1>6, <2>1, <2>2 DEF RelativeWord
<1>9. QED
  BY <1>7, <1>8

LEMMA LoadFinishes ==
    ASSUME RelocInv, FinishLoad
    PROVE  LoadedInv'
<1>1. /\ phase = "relr" /\ at > Len(table.relr) /\ at \in Nat
      /\ Len(table.relr) \in Nat
      /\ UNCHANGED <<table, words>>
  BY EntryTypes DEF FinishLoad, RelocInv, TypeOK
<1>2. SUFFICES ASSUME NEW w \in Index
      PROVE  LoadedWord(w)
  BY <1>1, TableKept DEF LoadedInv, LoadedWord
<1>3. \A i \in RelrAt(table, w) : i \in Nat /\ i < at
  BY <1>1 DEF RelrAt
<1>4. \A i \in RelrAt(table, w) : ~(i >= at)
  BY <1>1, <1>3
<1>5. QED
  BY <1>1, <1>4 DEF RelocInv, RelrInv, RelativeWord, LoadedWord
-----------------------------------------------------------------------------
(* Resolving. *)

(* A word that keeps its value keeps what is known of it. *)
LEMMA LoadedWordKept ==
    ASSUME NEW w, LoadedWord(w), table' = table, words'[w] = words[w]
    PROVE  LoadedWord(w)'
BY TableKept DEF LoadedWord

LEMMA SymbolicEntry ==
    ASSUME RelocInv, NEW i \in 1 .. Len(table.symbolic)
    PROVE  /\ table.symbolic[i].word \in Index
           /\ table.symbolic[i].sym \in Symbols
           /\ table.symbolic[i].addend \in Words
           /\ i \in SymbolicAt(table, table.symbolic[i].word)
           /\ SymbolicAt(table, table.symbolic[i].word) # {}
           /\ \A k \in 1 .. Len(table.symbolic) :
                 table.symbolic[k].word = table.symbolic[i].word => k = i
<1>1. table.symbolic[i] \in SymbolEntries
  BY EntryTypes DEF RelocInv
<1>2. table.symbolic[i].word \in Index
  BY <1>1 DEF SymbolEntries
<1>3. \A m, n \in SymbolicAt(table, table.symbolic[i].word) : m = n
  BY <1>2, NamedOnce, TableFacts DEF RelocInv
<1>4. QED
  BY <1>1, <1>2, <1>3 DEF SymbolEntries, SymbolicAt

LEMMA ResolveBegins ==
    ASSUME RelocInv, BeginResolve
    PROVE  LoadedInv' /\ ResolvingInv'
<1>1. /\ phase = "Loaded" /\ phase' = "resolving" /\ at' = 1
      /\ attempts' = attempts + 1 /\ attempts \in Nat
      /\ UNCHANGED <<table, words>>
  BY AttemptsAssumption DEF BeginResolve, RelocInv, TypeOK
<1>2. LoadedInv'
  <2>1. \A w \in Index : SymbolicAt(table, w) = {} => LoadedWord(w)
    BY <1>1 DEF RelocInv, LoadedInv, AfterLoad
  <2>2. \A w \in Index : SymbolicAt(table, w) = {} => LoadedWord(w)'
    BY <1>1, <2>1, LoadedWordKept
  <2>3. attempts' # 0 /\ table' = table
    BY <1>1
  <2>4. QED
    BY <2>2, <2>3 DEF LoadedInv, SymbolicAt
<1>3. attempts' > 0
  BY <1>1
<1>4. ASSUME NEW i \in 1 .. Len(table.symbolic), attempts' = 1
      PROVE  words[table.symbolic[i].word]
             = table.initial[table.symbolic[i].word]
  <2> DEFINE w == table.symbolic[i].word
  <2>1. w \in Index /\ SymbolicAt(table, w) # {}
    BY SymbolicEntry
  <2>2. RelativeAt(table, w) = {} /\ RelrAt(table, w) = {}
    BY <2>1, NamedOnce, TableFacts DEF RelocInv
  <2>3. attempts = 0
    BY <1>1, <1>4
  <2>4. LoadedWord(w)
    BY <1>1, <2>1, <2>3 DEF RelocInv, LoadedInv, AfterLoad
  <2>5. QED
    BY <2>2, <2>4 DEF LoadedWord
<1>5. \A i \in 1 .. Len(table.symbolic) : ~(i < 1)
  OBVIOUS
<1>6. QED
  BY <1>1, <1>2, <1>3, <1>4, <1>5 DEF ResolvingInv

(* Once a resolution has begun only the words of symbolic entries change. *)
LEMMA OthersKept ==
    ASSUME RelocInv, AfterLoad, attempts > 0, table' = table,
           attempts' = attempts,
           \A w \in Index : SymbolicAt(table, w) = {} => words'[w] = words[w]
    PROVE  LoadedInv'
<1>1. ASSUME NEW w \in Index, SymbolicAt(table, w) = {}
      PROVE  LoadedWord(w)'
  <2>1. LoadedWord(w)
    BY <1>1 DEF RelocInv, LoadedInv
  <2>2. QED
    BY <1>1, <2>1, LoadedWordKept
<1>2. attempts \in Nat
  BY AttemptsAssumption DEF RelocInv, TypeOK
<1>3. attempts' # 0
  BY <1>2
<1>4. QED
  BY <1>1, <1>3 DEF LoadedInv, SymbolicAt

(* The entry a resolution writes is the only one of its word. *)
LEMMA EntryResolved ==
    ASSUME RelocInv, ResolveEntry
    PROVE  LoadedInv' /\ ResolvingInv'
<1> DEFINE e == table.symbolic[at]
           value == Wrap(Resolved(e.sym) + Operand(e))
<1>1. /\ phase = "resolving" /\ phase' = phase /\ at' = at + 1
      /\ at \in 1 .. Len(table.symbolic) /\ at \in Nat
      /\ UNCHANGED <<table, attempts>>
      /\ words' = [words EXCEPT ![e.word] = value]
  BY EntryTypes DEF ResolveEntry, RelocInv, TypeOK
<1>2. /\ e.word \in Index
      /\ SymbolicAt(table, e.word) # {}
      /\ \A k \in 1 .. Len(table.symbolic) :
            table.symbolic[k].word = e.word => k = at
  BY <1>1, SymbolicEntry
<1>3. words \in [Index -> Words]
  BY DEF RelocInv, TypeOK
<1>4. attempts > 0
  BY <1>1 DEF RelocInv, ResolvingInv
<1> HIDE DEF value
<1>5. LoadedInv'
  <2>1. \A w \in Index : SymbolicAt(table, w) = {} => words'[w] = words[w]
    BY <1>1, <1>2, <1>3
  <2>2. QED
    BY <1>1, <1>4, <2>1, OthersKept DEF AfterLoad
<1>6. ASSUME NEW i \in 1 .. Len(table.symbolic), i # at
      PROVE  words'[table.symbolic[i].word] = words[table.symbolic[i].word]
  <2>1. table.symbolic[i].word # e.word /\ table.symbolic[i].word \in Index
    BY <1>2, <1>6, SymbolicEntry
  <2>2. QED
    BY <1>1, <1>3, <2>1
<1>7. ASSUME table.isRela \/ attempts = 1
      PROVE  words'[e.word] = Wrap(Resolved(e.sym) + Addend(e))
  <2>1. Operand(e) = Addend(e)
    <3>1. CASE table.isRela
      BY <3>1 DEF Operand, Addend
    <3>2. CASE attempts = 1 /\ ~table.isRela
      <4>1. words[e.word] = table.initial[e.word]
        BY <1>1, <3>2 DEF RelocInv, ResolvingInv
      <4>2. QED
        BY <3>2, <4>1 DEF Operand, Addend
    <3>3. QED
      BY <1>7, <3>1, <3>2
  <2>2. QED
    BY <1>1, <1>2, <1>3, <2>1 DEF value
<1>8. ASSUME table.isRela \/ attempts = 1,
             NEW i \in 1 .. Len(table.symbolic), i < at + 1
      PROVE  ResolvedWord(table.symbolic[i])'
  <2>1. words'[table.symbolic[i].word]
        = Wrap(Resolved(table.symbolic[i].sym) + Addend(table.symbolic[i]))
    <3>1. CASE i = at
      BY <1>7, <1>8, <3>1
    <3>2. CASE i # at
      <4>1. i < at
        BY <1>1, <1>8, <3>2
      <4>2. ResolvedWord(table.symbolic[i])
        BY <1>1, <1>8, <4>1 DEF RelocInv, ResolvingInv
      <4>3. QED
        BY <1>6, <3>2, <4>2 DEF ResolvedWord
    <3>3. QED
      BY <3>1, <3>2
  <2>2. QED
    BY <1>1, <2>1, TableKept DEF ResolvedWord
<1>9. ASSUME attempts = 1, NEW i \in 1 .. Len(table.symbolic), i >= at + 1
      PROVE  words'[table.symbolic[i].word]
             = table.initial[table.symbolic[i].word]
  <2>1. i # at /\ i >= at
    BY <1>1, <1>9
  <2>2. words[table.symbolic[i].word] = table.initial[table.symbolic[i].word]
    BY <1>1, <1>9, <2>1 DEF RelocInv, ResolvingInv
  <2>3. QED
    BY <1>6, <2>1, <2>2
<1>10. ResolvingInv'
  BY <1>1, <1>4, <1>8, <1>9 DEF ResolvingInv
<1>11. QED
  BY <1>5, <1>10

LEMMA EntryFails ==
    ASSUME RelocInv, FailEntry
    PROVE  LoadedInv'
<1> DEFINE e == table.symbolic[at]
<1>1. /\ phase = "resolving" /\ at \in 1 .. Len(table.symbolic)
      /\ UNCHANGED <<table, attempts>>
      /\ words' = AddBase({e.word}) \/ words' = words
  BY EntryTypes DEF FailEntry, RelocInv, TypeOK
<1>2. SymbolicAt(table, e.word) # {}
  BY <1>1, SymbolicEntry
<1>3. attempts > 0
  BY <1>1 DEF RelocInv, ResolvingInv
<1>4. \A w \in Index : SymbolicAt(table, w) = {} => words'[w] = words[w]
  BY <1>1, <1>2 DEF AddBase
<1>5. QED
  BY <1>1, <1>3, <1>4, OthersKept DEF AfterLoad

LEMMA ResolveFinishes ==
    ASSUME RelocInv, FinishResolve
    PROVE  LoadedInv' /\ ResolvedInv'
<1>1. /\ phase = "resolving" /\ at > Len(table.symbolic) /\ at \in Nat
      /\ UNCHANGED <<table, words, attempts>>
  BY DEF FinishResolve, RelocInv, TypeOK
<1>2. attempts > 0
  BY <1>1 DEF RelocInv, ResolvingInv
<1>3. LoadedInv'
  BY <1>1, <1>2, OthersKept DEF AfterLoad
<1>4. ASSUME table.isRela \/ attempts = 1,
             NEW i \in 1 .. Len(table.symbolic)
      PROVE  ResolvedWord(table.symbolic[i])'
  <2>1. i < at
    BY <1>1, EntryTypes DEF RelocInv
  <2>2. ResolvedWord(table.symbolic[i])
    BY <1>1, <1>4, <2>1 DEF RelocInv, ResolvingInv
  <2>3. QED
    BY <1>1, <2>2, TableKept DEF ResolvedWord
<1>5. QED
  BY <1>1, <1>2, <1>3, <1>4 DEF ResolvedInv
-----------------------------------------------------------------------------
(* The invariant, and the properties that follow from it. *)

LEMMA RelocStep ==
    ASSUME RelocInv, [Next]_vars
    PROVE  RelocInv'
<1>1. TypeOK' /\ (table \in Tables)'
  BY TypePreserved DEF RelocInv
<1>2. CASE RelocateRelative
  <2>1. phase' = "relative"
    BY <1>2 DEF RelocateRelative
  <2>2. RelativeInv'
    BY <1>2, RelativePreserved
  <2>3. QED
    BY <1>1, <2>1, <2>2 DEF RelocInv, PointerInv, RelrInv, LoadedInv,
        AfterLoad, ResolvingInv, ResolvedInv
<1>3. CASE BeginRelr
  <2>1. phase' = "relr"
    BY <1>3 DEF BeginRelr
  <2>2. PointerInv' /\ RelrInv'
    BY <1>3, RelrBegins
  <2>3. QED
    BY <1>1, <2>1, <2>2 DEF RelocInv, RelativeInv, LoadedInv, AfterLoad,
        ResolvingInv, ResolvedInv
<1>4. CASE RelocateRelr
  <2>1. phase' = "relr"
    BY <1>4 DEF RelocateRelr
  <2>2. PointerInv' /\ RelrInv'
    BY <1>4, RelrPreserved
  <2>3. QED
    BY <1>1, <2>1, <2>2 DEF RelocInv, RelativeInv, LoadedInv, AfterLoad,
        ResolvingInv, ResolvedInv
<1>5. CASE FinishLoad
  <2>1. phase' = "Loaded"
    BY <1>5 DEF FinishLoad
  <2>2. LoadedInv'
    BY <1>5, LoadFinishes
  <2>3. QED
    BY <1>1, <2>1, <2>2 DEF RelocInv, RelativeInv, PointerInv, RelrInv,
        ResolvingInv, ResolvedInv
<1>6. CASE LoadProvider
  <2>1. phase = "Loaded" /\ phase' = phase
        /\ UNCHANGED <<table, words, attempts>>
    BY <1>6 DEF LoadProvider
  <2>2. LoadedInv'
    <3>1. \A w \in Index : SymbolicAt(table, w) = {} \/ attempts = 0
                           => LoadedWord(w)'
      BY <2>1, LoadedWordKept DEF RelocInv, LoadedInv, AfterLoad
    <3>2. QED
      BY <2>1, <3>1 DEF LoadedInv, SymbolicAt
  <2>3. QED
    BY <1>1, <2>1, <2>2 DEF RelocInv, RelativeInv, PointerInv, RelrInv,
        ResolvingInv, ResolvedInv
<1>7. CASE BeginResolve
  <2>1. phase' = "resolving"
    BY <1>7 DEF BeginResolve
  <2>2. LoadedInv' /\ ResolvingInv'
    BY <1>7, ResolveBegins
  <2>3. QED
    BY <1>1, <2>1, <2>2 DEF RelocInv, RelativeInv, PointerInv, RelrInv,
        ResolvedInv
<1>8. CASE ResolveEntry
  <2>1. phase' = "resolving"
    BY <1>8 DEF ResolveEntry
  <2>2. LoadedInv' /\ ResolvingInv'
    BY <1>8, EntryResolved
  <2>3. QED
    BY <1>1, <2>1, <2>2 DEF RelocInv, RelativeInv, PointerInv, RelrInv,
        ResolvedInv
<1>9. CASE FailEntry
  <2>1. phase' = "Loaded"
    BY <1>9 DEF FailEntry
  <2>2. LoadedInv'
    BY <1>9, EntryFails
  <2>3. QED
    BY <1>1, <2>1, <2>2 DEF RelocInv, RelativeInv, PointerInv, RelrInv,
        ResolvingInv, ResolvedInv
<1>10. CASE FinishResolve
  <2>1. phase' = "Resolved"
    BY <1>10 DEF FinishResolve
  <2>2. LoadedInv' /\ ResolvedInv'
    BY <1>10, ResolveFinishes
  <2>3. QED
    BY <1>1, <2>1, <2>2 DEF RelocInv, RelativeInv, PointerInv, RelrInv,
        ResolvingInv
<1>11. CASE UNCHANGED vars
  <2>1. UNCHANGED <<table, words, phase, at, ptr, provided, attempts>>
    BY <1>11 DEF vars
  <2>2. RelativeInv' /\ PointerInv' /\ RelrInv'
    <3>1. RelativeInv'
      BY <2>1, TableKept DEF RelocInv, RelativeInv
    <3>2. PointerInv'
      BY <2>1 DEF RelocInv, PointerInv, IsAnchor
    <3>3. RelrInv'
      BY <2>1, TableKept DEF RelocInv, RelrInv, RelativeWord
    <3>4. QED
      BY <3>1, <3>2, <3>3
  <2>3. LoadedInv'
    <3>1. \A w \in Index : SymbolicAt(table, w) = {} \/ attempts = 0
                           => (AfterLoad => LoadedWord(w)')
      BY <2>1, LoadedWordKept DEF RelocInv, LoadedInv
    <3>2. QED
      BY <2>1, <3>1 DEF LoadedInv, AfterLoad, SymbolicAt
  <2>4. ResolvingInv' /\ ResolvedInv'
    BY <2>1 DEF RelocInv, ResolvingInv, ResolvedInv, ResolvedWord, Addend
  <2>5. QED
    BY <1>1, <2>2, <2>3, <2>4 DEF RelocInv
<1>12. QED
  BY <1>2, <1>3, <1>4, <1>5, <1>6, <1>7, <1>8, <1>9, <1>10, <1>11 DEF Next

LEMMA RelocInvariant == Spec => []RelocInv
<1>1. Init => RelocInv
  BY InitEstablishes
<1>2. RelocInv /\ [Next]_vars => RelocInv'
  BY RelocStep
<1>3. QED
  BY <1>1, <1>2, PTL DEF Spec

(* Every word of the image is a word whatever the tables, and the walks    *)
(* stay on the entries of the tables (ld.c, 314-366 and 440-564).          *)
THEOREM RelocTypeCorrect == Spec => []TypeOK
<1>1. RelocInv => TypeOK
  BY DEF RelocInv
<1>2. QED
  BY <1>1, RelocInvariant, PTL

(* For every image and every well-formed set of RELA, REL and RELR tables, *)
(* _ldRelocateModule rebases each word once: in particular the running     *)
(* pointer of its RELR loop decodes each bitmap to the words the format    *)
(* means (ld.c, 314-366).                                                  *)
THEOREM RelocLoadRebasesOnce == Spec => []LoadRebasesOnce
<1>1. RelocInv => LoadRebasesOnce
  BY DEF RelocInv, LoadedInv, AfterLoad, LoadRebasesOnce
<1>2. QED
  BY <1>1, RelocInvariant, PTL

(* For every image, every well-formed tables and every order in which the  *)
(* names become available, a module that _ldResolveModuleSymbols leaves    *)
(* Resolved is as its tables say, however many resolutions failed half way *)
(* before, if its entries carry their addends or none failed (ld.c,        *)
(* 440-564).                                                               *)
THEOREM RelocResolved == Spec => []ResolvedUnlessRelRetried
<1>1. ASSUME RelocInv
      PROVE  ResolvedUnlessRelRetried
  <2>1. SUFFICES ASSUME phase = "Resolved", table.isRela \/ attempts = 1
                 PROVE  ImageRelocated
    BY DEF ResolvedUnlessRelRetried
  <2>2. \A w \in Index : SymbolicAt(table, w) = {} => LoadedWord(w)
    BY <1>1, <2>1 DEF RelocInv, LoadedInv, AfterLoad
  <2>3. \A i \in 1 .. Len(table.symbolic) : ResolvedWord(table.symbolic[i])
    BY <1>1, <2>1 DEF RelocInv, ResolvedInv
  <2>4. QED
    BY <2>2, <2>3 DEF ImageRelocated
<1>2. QED
  BY <1>1, RelocInvariant, PTL
-----------------------------------------------------------------------------
(***************************************************************************)
(* The dynamic section.  What the loop has taken from the first n entries  *)
(* is, for each field, the value of the last of them with a tag of it.     *)
(***************************************************************************)
HasIn(d, tags, n) == \E i \in 1 .. n : d[i].tag \in tags
LastIn(d, tags, n, v) ==
    \/ v = 0 /\ ~HasIn(d, tags, n)
    \/ \E i \in 1 .. n :
          /\ d[i].tag \in tags /\ d[i].val = v
          /\ \A j \in 1 .. n : d[j].tag \in tags => j <= i

TagsOf(f) == {tag \in Kept : FieldOf(tag) = f}
PltIn(n) ==
    mod["is_rela"] = 1 <=>
        HasIn(dyn, {"PLTREL"}, n) /\ LastIn(dyn, {"PLTREL"}, n, Rela)

TakenFrom(n) ==
    /\ \A tag \in Kept :
          LastIn(dyn, TagsOf(FieldOf(tag)), n, mod[FieldOf(tag)])
    /\ LastIn(dyn, {"JMPREL"}, n, relPlt)
    /\ PltIn(n)
    /\ \A i \in 1 .. n : ~Rejects(dyn[i])

ParseInv ==
    /\ status = "parsing" => TakenFrom(pos - 1)
    /\ Loaded => TakenFrom(Len(dyn)) /\ mod["rela_or_rel_plt"] = relPlt

(***************************************************************************)
(* The search.  Ahead of it in the chain is every symbol that it wants.    *)
(***************************************************************************)
Chain0 == Chained(Table, Hash[name] % Table.nbucket)
Ahead ==
    /\ ~NoTable
    /\ sym # 0 =>
          /\ sym \in Chain0
          /\ \A w \in Wanted : Table.place[sym] <= Table.place[w]
    /\ sym = 0 => Wanted = {}
SearchInv ==
    /\ status \in {"searching", "absent", "found"} => Ahead
    /\ status = "found" => sym \in Wanted
    /\ status = "absent" => sym = 0
    /\ status = "fault" => NoTable

DynamicInv == DynamicTypeOK /\ ParseInv /\ SearchInv
-----------------------------------------------------------------------------
(* Facts about the last entry with a tag. *)

LEMMA SectionTypes ==
    ASSUME DynamicTypeOK
    PROVE  /\ Len(dyn) \in Nat /\ DOMAIN dyn = 1 .. Len(dyn)
           /\ \A i \in 1 .. Len(dyn) :
                 /\ dyn[i] \in Entries
                 /\ dyn[i].tag \in Tags /\ dyn[i].val \in Nat
                 /\ dyn[i].tag = "HASH" => dyn[i].val \in DOMAIN TableAt
<1>1. PICK n \in 0 .. MaxLength : dyn \in [1 .. n -> Entries]
  BY DEF DynamicTypeOK, Sections
<1>2. n \in Nat /\ Len(dyn) = n
  BY <1>1, SectionAssumption
<1>3. QED
  BY <1>1, <1>2, SectionAssumption

LEMMA LastOfNone ==
    ASSUME NEW d, NEW tags
    PROVE  ~HasIn(d, tags, 0) /\ LastIn(d, tags, 0, 0)
BY DEF HasIn, LastIn

LEMMA LastOfNext ==
    ASSUME NEW d, NEW tags, NEW n \in Nat, d[n + 1].tag \in tags
    PROVE  /\ HasIn(d, tags, n + 1)
           /\ LastIn(d, tags, n + 1, d[n + 1].val)
           /\ \A v : LastIn(d, tags, n + 1, v) => v = d[n + 1].val
BY DEF HasIn, LastIn

LEMMA LastPastOther ==
    ASSUME NEW d, NEW tags, NEW n \in Nat, d[n + 1].tag \notin tags
    PROVE  /\ HasIn(d, tags, n + 1) <=> HasIn(d, tags, n)
           /\ \A v : LastIn(d, tags, n + 1, v) <=> LastIn(d, tags, n, v)
<1>1. \A i \in 1 .. n + 1 : d[i].tag \in tags => i \in 1 .. n
  OBVIOUS
<1>2. 1 .. n \subseteq 1 .. n + 1
  OBVIOUS
<1>3. QED
  BY <1>1, <1>2 DEF HasIn, LastIn

(* The last entry has one value, which is what Last takes. *)
LEMMA LastIsTaken ==
    ASSUME DynamicTypeOK, NEW tags, NEW v, LastIn(dyn, tags, Len(dyn), v)
    PROVE  /\ Has(tags) <=> HasIn(dyn, tags, Len(dyn))
           /\ Last(tags) = v
<1> DEFINE is == {i \in DOMAIN dyn : dyn[i].tag \in tags}
<1>1. DOMAIN dyn = 1 .. Len(dyn) /\ Len(dyn) \in Nat
  BY SectionTypes
<1>2. CASE is = {}
  BY <1>1, <1>2 DEF LastIn, HasIn, Has, Last
<1>3. CASE is # {}
  <2>1. PICK i \in is : dyn[i].val = v /\ \A j \in is : j <= i
    BY <1>1, <1>3 DEF LastIn, HasIn
  <2>2. \A k \in is : (\A j \in is : j <= k) => k = i
    BY <1>1, <2>1
  <2>3. (CHOOSE k \in is : \A j \in is : j <= k) = i
    BY <2>1, <2>2
  <2>4. QED
    BY <1>1, <1>3, <2>1, <2>3 DEF HasIn, Has, Last
<1>4. QED
  BY <1>2, <1>3

(* What Last takes is the last entry. *)
LEMMA LastExists ==
    ASSUME DynamicTypeOK, NEW tags, Has(tags)
    PROVE  LastIn(dyn, tags, Len(dyn), Last(tags))
<1> DEFINE is == {i \in DOMAIN dyn : dyn[i].tag \in tags}
           rest == {Len(dyn) - i : i \in is}
<1>1. DOMAIN dyn = 1 .. Len(dyn) /\ Len(dyn) \in Nat
  BY SectionTypes
<1>2. rest \subseteq Nat /\ rest # {}
  BY <1>1 DEF Has
<1>3. PICK r \in rest : \A q \in rest : <<q, r>> \notin OpToRel(<, Nat)
  BY <1>2, NatLessThanWellFounded, WFMin
<1>4. PICK i \in is : r = Len(dyn) - i
  BY <1>3
<1>5. \A j \in is : j <= i
  <2>1. \A q \in rest : ~(q < r)
    BY <1>2, <1>3 DEF OpToRel
  <2>2. ASSUME NEW j \in is PROVE j <= i
    <3>1. Len(dyn) - j \in rest /\ i \in Nat /\ j \in Nat
      BY <1>1
    <3>2. ~(Len(dyn) - j < Len(dyn) - i)
      BY <1>4, <2>1, <3>1
    <3>3. QED
      BY <1>1, <3>1, <3>2
  <2>3. QED
    BY <2>2
<1>6. LastIn(dyn, tags, Len(dyn), dyn[i].val)
  BY <1>1, <1>4, <1>5 DEF LastIn
<1>7. QED
  BY <1>6, LastIsTaken
-----------------------------------------------------------------------------
(* Typing. *)

(* Each tag that is kept has a field, DT_PLTREL and DT_JMPREL have others, *)
(* and only two tags share one.                                            *)
LEMMA FieldsAreThere ==
    /\ {"HASH", "is_rela", "rela_or_rel_plt"} \subseteq Fields
    /\ \A tag \in Kept :
          /\ FieldOf(tag) \in Fields
          /\ FieldOf(tag) \notin {"is_rela", "rela_or_rel_plt"}
    /\ "HASH" \in Kept /\ FieldOf("HASH") = "HASH"
    /\ \A tag \in Kept : FieldOf(tag) = "HASH" => tag = "HASH"
BY DEF Fields, FieldOf, Kept

LEMMA TagsOfFields ==
    /\ \A tag \in OwnField : FieldOf(tag) = tag /\ TagsOf(tag) = {tag}
    /\ FieldOf("RELSZ") = "rel_dyn_size"
    /\ TagsOf("rel_dyn_size") = {"RELSZ"}
    /\ FieldOf("RELASZ") = "rela_dyn_size"
    /\ TagsOf("rela_dyn_size") = {"RELASZ"}
    /\ FieldOf("REL") = "rela_or_rel"
    /\ TagsOf("rela_or_rel") = {"REL", "RELA"}
BY DEF FieldOf, TagsOf, Kept, OwnField

LEMMA TypeInit == DynamicInit => DynamicTypeOK
<1> SUFFICES ASSUME DynamicInit PROVE DynamicTypeOK
  OBVIOUS
<1>1. PICK len \in 0 .. MaxLength : dyn \in [1 .. len -> Entries]
  BY DEF DynamicInit, Sections
<1>2. Len(dyn) \in Nat
  BY <1>1, SectionAssumption
<1>3. (CHOOSE n \in Names : TRUE) \in Names
  BY SymbolTableAssumption
<1>4. mod["HASH"] = 0
  BY FieldsAreThere DEF DynamicInit
<1>5. QED
  BY <1>2, <1>3, <1>4 DEF DynamicInit, DynamicTypeOK

(* A table is read only within its bounds. *)
LEMMA TableIsThere ==
    ASSUME DynamicTypeOK, ~NoTable
    PROVE  HashTable(Table) /\ mod["HASH"] \in DOMAIN TableAt
BY HashTableAssumption DEF DynamicTypeOK, NoTable, Table

LEMMA BucketOfName ==
    ASSUME DynamicTypeOK, ~NoTable, NEW n \in Names
    PROVE  /\ Table.nbucket \in Nat \ {0}
           /\ Hash[n] % Table.nbucket \in 0 .. Table.nbucket - 1
<1>1. Table.nbucket \in Nat \ {0}
  BY TableIsThere DEF HashTable
<1>2. Hash[n] \in Nat
  BY SymbolTableAssumption
<1>3. QED
  BY <1>1, <1>2

LEMMA BucketInTable ==
    ASSUME DynamicTypeOK, ~NoTable, NEW n \in Names
    PROVE  Bucket(n) \in SymbolTable \cup {0}
BY BucketOfName, TableIsThere DEF HashTable, Bucket

LEMMA ChainInTable ==
    ASSUME DynamicTypeOK, ~NoTable, NEW i \in SymbolTable
    PROVE  Chain(i) \in SymbolTable \cup {0}
BY TableIsThere DEF HashTable, Chain

(* The search runs only in a module that has a table. *)
LEMMA TypeStep ==
    ASSUME DynamicTypeOK, SearchInv, [DynamicNext]_dynamicVars
    PROVE  DynamicTypeOK'
<1> USE DEF DynamicTypeOK
<1>1. CASE ParseEntry
  <2> DEFINE e == dyn[pos]
  <2>1. pos \in 1 .. Len(dyn) /\ Len(dyn) \in Nat
    BY <1>1, SectionTypes DEF ParseEntry, AtEnd
  <2>2. /\ e \in Entries /\ e.tag \in Tags /\ e.val \in Nat
        /\ e.tag = "HASH" => e.val \in DOMAIN TableAt
    BY <2>1, SectionTypes
  <2>3. mod' \in [Fields -> Nat] /\ mod'["HASH"] \in DOMAIN TableAt \cup {0}
    <3>1. CASE mod' = mod
      BY <3>1
    <3>2. CASE e.tag \in Kept /\ mod' = [mod EXCEPT ![FieldOf(e.tag)] = e.val]
      BY <2>2, <3>2, FieldsAreThere
    <3>3. CASE mod' = [mod EXCEPT !["is_rela"] = IF e.val = Rela THEN 1 ELSE 0]
      BY <3>3, FieldsAreThere
    <3>4. QED
      BY <1>1, <3>1, <3>2, <3>3 DEF ParseEntry
  <2>4. relPlt' \in Nat /\ pos' \in 1 .. Len(dyn)' + 1
    BY <1>1, <2>1, <2>2 DEF ParseEntry
  <2>5. QED
    BY <1>1, <2>3, <2>4 DEF ParseEntry, search
<1>2. CASE EndParse
  <2>1. mod' \in [Fields -> Nat] /\ mod'["HASH"] = mod["HASH"]
    BY <1>2, FieldsAreThere DEF EndParse
  <2>2. QED
    BY <1>2, <2>1 DEF EndParse, search
<1>3. CASE GetModuleSymbolByName
  <2>1. sym' \in SymbolTable \cup {0} /\ name' \in Names
    BY <1>3, BucketInTable DEF GetModuleSymbolByName
  <2>2. QED
    BY <1>3, <2>1 DEF GetModuleSymbolByName
<1>4. CASE SearchStep
  <2>1. ~NoTable
    BY <1>4 DEF SearchStep, SearchInv, Ahead
  <2>2. sym' \in SymbolTable \cup {0}
    BY <1>4, <2>1, ChainInTable DEF SearchStep
  <2>3. QED
    BY <1>4, <2>2 DEF SearchStep
<1>5. CASE UNCHANGED dynamicVars
  BY <1>5 DEF dynamicVars
<1>6. QED
  BY <1>1, <1>2, <1>3, <1>4, <1>5 DEF DynamicNext

-----------------------------------------------------------------------------
(* The loop. *)

(* What one entry does to each field. *)
LEMMA EntryEffect ==
    ASSUME DynamicTypeOK, ParseEntry
    PROVE  LET e == dyn[pos]
           IN  /\ \A tag \in Kept :
                     mod'[FieldOf(tag)] =
                        IF e.tag \in TagsOf(FieldOf(tag))
                        THEN e.val ELSE mod[FieldOf(tag)]
               /\ e.tag = "PLTREL" => (mod'["is_rela"] = 1 <=> e.val = Rela)
               /\ e.tag # "PLTREL" => mod'["is_rela"] = mod["is_rela"]
               /\ relPlt' = IF e.tag \in {"JMPREL"} THEN e.val ELSE relPlt
<1> DEFINE e == dyn[pos]
<1>1. mod \in [Fields -> Nat]
  BY DEF DynamicTypeOK
<1>2. relPlt' = IF e.tag \in {"JMPREL"} THEN e.val ELSE relPlt
  BY DEF ParseEntry
<1>3. CASE e.tag = "PLTREL"
  <2>1. mod' = [mod EXCEPT !["is_rela"] = IF e.val = Rela THEN 1 ELSE 0]
    BY <1>3 DEF ParseEntry, Kept
  <2>2. \A tag \in Kept :
           mod'[FieldOf(tag)] = mod[FieldOf(tag)] /\ e.tag \notin TagsOf(FieldOf(tag))
    BY <1>1, <1>3, <2>1, FieldsAreThere DEF TagsOf, Kept
  <2>3. mod'["is_rela"] = 1 <=> e.val = Rela
    BY <1>1, <2>1, FieldsAreThere
  <2>4. QED
    BY <1>2, <1>3, <2>2, <2>3
<1>4. CASE e.tag \in Kept
  <2>1. e.tag # "PLTREL"
    BY <1>4 DEF Kept
  <2>2. mod' = [mod EXCEPT ![FieldOf(e.tag)] = e.val]
    BY <1>4, <2>1 DEF ParseEntry
  <2>3. \A f \in Fields : mod'[f] = IF f = FieldOf(e.tag) THEN e.val ELSE mod[f]
    BY <1>1, <2>2
  <2>4. \A tag \in Kept : e.tag \in TagsOf(FieldOf(tag)) <=> FieldOf(tag) = FieldOf(e.tag)
    BY <1>4 DEF TagsOf
  <2>5. QED
    BY <1>2, <1>4, <2>1, <2>3, <2>4, FieldsAreThere
<1>5. CASE e.tag \notin Kept \cup {"PLTREL"}
  <2>1. mod' = mod
    BY <1>5 DEF ParseEntry
  <2>2. QED
    BY <1>2, <1>5, <2>1 DEF TagsOf
<1>6. QED
  BY <1>3, <1>4, <1>5

(* A field that follows some tags is the last entry with them, one on.     *)
LEMMA FieldFollows ==
    ASSUME NEW d, NEW tags, NEW n \in Nat, NEW v, LastIn(d, tags, n, v)
    PROVE  LastIn(d, tags, n + 1,
                  IF d[n + 1].tag \in tags THEN d[n + 1].val ELSE v)
BY LastOfNext, LastPastOther

LEMMA TakesOneMore ==
    ASSUME DynamicTypeOK, ParseEntry, TakenFrom(pos - 1), ~Rejects(dyn[pos])
    PROVE  TakenFrom(pos - 1)'
<1> DEFINE n == pos - 1
           e == dyn[n + 1]
<1>1. pos \in 1 .. Len(dyn) /\ Len(dyn) \in Nat
  BY SectionTypes DEF ParseEntry, AtEnd, DynamicTypeOK
<1>2. n \in Nat /\ pos = n + 1 /\ (pos - 1)' = n + 1 /\ dyn' = dyn
  BY <1>1 DEF ParseEntry
<1>3. e = dyn[pos]
  BY <1>2
<1> HIDE DEF n
<1>4. TakenFrom(n)
  BY DEF n
<1>5. /\ \A tag \in Kept :
            LastIn(dyn, TagsOf(FieldOf(tag)), n + 1, mod'[FieldOf(tag)])
      /\ LastIn(dyn, {"JMPREL"}, n + 1, relPlt')
  <2>1. ASSUME NEW tag \in Kept
        PROVE  LastIn(dyn, TagsOf(FieldOf(tag)), n + 1, mod'[FieldOf(tag)])
    <3>1. mod'[FieldOf(tag)] =
             IF e.tag \in TagsOf(FieldOf(tag)) THEN e.val ELSE mod[FieldOf(tag)]
      BY <1>3, EntryEffect
    <3>2. LastIn(dyn, TagsOf(FieldOf(tag)), n, mod[FieldOf(tag)])
      BY <1>4 DEF TakenFrom
    <3>3. QED
      BY <1>2, <3>1, <3>2, FieldFollows
  <2>2. LastIn(dyn, {"JMPREL"}, n + 1, relPlt')
    <3>1. relPlt' = IF e.tag \in {"JMPREL"} THEN e.val ELSE relPlt
      BY <1>3, EntryEffect
    <3>2. LastIn(dyn, {"JMPREL"}, n, relPlt)
      BY <1>4 DEF TakenFrom
    <3>3. QED
      BY <1>2, <3>1, <3>2, FieldFollows
  <2>3. QED
    BY <2>1, <2>2
<1>6. mod'["is_rela"] = 1 <=>
         HasIn(dyn, {"PLTREL"}, n + 1) /\ LastIn(dyn, {"PLTREL"}, n + 1, Rela)
  <2>1. CASE e.tag = "PLTREL"
    <3>1. mod'["is_rela"] = 1 <=> e.val = Rela
      BY <1>3, <2>1, EntryEffect
    <3>2. QED
      BY <1>2, <2>1, <3>1, LastOfNext
  <2>2. CASE e.tag # "PLTREL"
    <3>1. mod'["is_rela"] = mod["is_rela"]
      BY <1>3, <2>2, EntryEffect
    <3>2. QED
      BY <1>2, <1>4, <2>2, <3>1, LastPastOther DEF TakenFrom, PltIn
  <2>3. QED
    BY <2>1, <2>2
<1>7. \A i \in 1 .. n + 1 : ~Rejects(dyn[i])
  BY <1>2, <1>4 DEF TakenFrom
<1>8. \A i : Rejects(dyn[i])' <=> Rejects(dyn[i])
  BY <1>2 DEF Rejects, BadPltRel
<1>9. QED
  BY <1>2, <1>5, <1>6, <1>7, <1>8 DEF TakenFrom, PltIn

(* What does not change the section or the fields keeps what was taken. *)
LEMMA TakenKept ==
    ASSUME NEW n, TakenFrom(n), UNCHANGED <<dyn, relPlt>>,
           \A tag \in Kept : mod'[FieldOf(tag)] = mod[FieldOf(tag)],
           mod'["is_rela"] = mod["is_rela"]
    PROVE  TakenFrom(n)'
<1>1. \A tag \in Kept :
         LastIn(dyn', TagsOf(FieldOf(tag)), n, mod'[FieldOf(tag)])
  BY DEF TakenFrom
<1>2. \A i : Rejects(dyn[i])' <=> Rejects(dyn[i])
  BY DEF Rejects, BadPltRel
<1>3. QED
  BY <1>1, <1>2 DEF TakenFrom, PltIn

LEMMA ParseStep ==
    ASSUME DynamicTypeOK, ParseInv, [DynamicNext]_dynamicVars
    PROVE  ParseInv'
<1>1. CASE ParseEntry
  <2>1. status = "parsing" /\ TakenFrom(pos - 1)
    BY <1>1 DEF ParseEntry, ParseInv
  <2>2. status' = IF Rejects(dyn[pos]) THEN "rejected" ELSE "parsing"
    BY <1>1 DEF ParseEntry
  <2>3. status' = "parsing" => TakenFrom(pos - 1)'
    BY <1>1, <2>1, <2>2, TakesOneMore
  <2>4. QED
    BY <2>2, <2>3 DEF ParseInv, Loaded
<1>2. CASE EndParse
  <2>1. pos = Len(dyn) + 1
    BY <1>2, SectionTypes DEF EndParse, AtEnd, DynamicTypeOK
  <2>2. TakenFrom(Len(dyn))
    BY <1>2, <2>1, SectionTypes DEF EndParse, ParseInv
  <2>3. /\ UNCHANGED <<dyn, relPlt>> /\ status' = "loaded"
        /\ mod'["rela_or_rel_plt"] = relPlt
        /\ \A tag \in Kept : mod'[FieldOf(tag)] = mod[FieldOf(tag)]
        /\ mod'["is_rela"] = mod["is_rela"]
    BY <1>2, FieldsAreThere DEF EndParse, DynamicTypeOK
  <2>4. TakenFrom(Len(dyn))'
    <3>1. \A n : n = Len(dyn) => TakenFrom(n)'
      BY <2>2, <2>3, TakenKept
    <3>2. Len(dyn)' = Len(dyn)
      BY <2>3
    <3>3. QED
      BY <3>1, <3>2 DEF TakenFrom, PltIn, Rejects, BadPltRel
  <2>5. QED
    BY <2>3, <2>4 DEF ParseInv
<1>3. CASE UNCHANGED <<dyn, pos, mod, relPlt>> /\ Loaded' = Loaded
           /\ (status' = "parsing" => status = "parsing")
  BY <1>3 DEF ParseInv, TakenFrom, PltIn, Rejects, BadPltRel
<1>4. CASE GetModuleSymbolByName \/ SearchStep
  BY <1>3, <1>4 DEF GetModuleSymbolByName, SearchStep, Loaded
<1>5. CASE UNCHANGED dynamicVars
  BY <1>3, <1>5 DEF dynamicVars, Loaded
<1>6. QED
  BY <1>1, <1>2, <1>4, <1>5 DEF DynamicNext

LEMMA ParseInit == DynamicInit => ParseInv
<1> SUFFICES ASSUME DynamicInit PROVE ParseInv
  OBVIOUS
<1>1. pos - 1 = 0 /\ status = "parsing"
  BY DEF DynamicInit
<1>2. /\ \A tag \in Kept : mod[FieldOf(tag)] = 0
      /\ mod["is_rela"] = 0 /\ relPlt = 0
  BY FieldsAreThere DEF DynamicInit
<1>3. TakenFrom(0)
  BY <1>2, LastOfNone DEF TakenFrom, PltIn
<1>4. QED
  BY <1>1, <1>3 DEF ParseInv, Loaded
-----------------------------------------------------------------------------
(* The search. *)

(* What is wanted is in the chain of the bucket of the name. *)
LEMMA WantedInChain ==
    ASSUME DynamicTypeOK, ~NoTable
    PROVE  /\ Wanted \subseteq Chain0
           /\ Hash[name] % Table.nbucket \in 0 .. Table.nbucket - 1
           /\ Table.place \in [SymbolTable -> Nat]
           /\ 0 \notin SymbolTable
BY BucketOfName, TableIsThere
   DEF HashTable, Chained, Chain0, Wanted, SymbolTable, DynamicTypeOK

LEMMA ChainIsLinked ==
    ASSUME DynamicTypeOK, ~NoTable
    PROVE  /\ NextOf(Table, Chain0, 0, Bucket(name))
           /\ \A i \in Chain0 :
                 /\ NextOf(Table, Chain0, Table.place[i], Chain(i))
                 /\ \A j \in Chain0 : Table.place[i] = Table.place[j] => i = j
           /\ \A i \in Chain0 : Table.place[i] > 0
<1>1. \A i \in Chain0 : Table.place[i] > 0
  BY DEF Chained, Chain0
<1>2. QED
  BY <1>1, TableIsThere, WantedInChain DEF HashTable, Chain0, Bucket, Chain

LEMMA BucketStart == DynamicTypeOK /\ ~NoTable /\ sym = Bucket(name) => Ahead
<1> SUFFICES ASSUME DynamicTypeOK, ~NoTable, sym = Bucket(name) PROVE Ahead
  OBVIOUS
<1>1. NextOf(Table, Chain0, 0, sym) /\ \A i \in Chain0 : Table.place[i] > 0
  BY ChainIsLinked
<1>2. Wanted \subseteq Chain0 /\ Chain0 \subseteq SymbolTable
  BY WantedInChain DEF Chain0, Chained
<1>3. \A i \in Chain0 : Table.place[i] \in Nat
  BY <1>2, WantedInChain
<1>4. CASE sym = 0
  <2>1. Chain0 = {}
    BY <1>1, <1>2, <1>3, <1>4, WantedInChain DEF NextOf
  <2>2. QED
    BY <1>2, <1>4, <2>1 DEF Ahead
<1>5. CASE sym # 0
  BY <1>1, <1>2, <1>5 DEF Ahead, NextOf
<1>6. QED
  BY <1>4, <1>5

LEMMA ChainStep ==
    ASSUME DynamicTypeOK, Ahead, sym # 0, ~IsWanted(sym),
           sym' = Chain(sym), UNCHANGED <<mod, name>>
    PROVE  Ahead'
<1>1. ~NoTable /\ sym \in Chain0
  BY DEF Ahead
<1>2. /\ Table' = Table /\ Chain0' = Chain0 /\ Wanted' = Wanted
      /\ NoTable' = NoTable
  BY DEF Table, Chain0, Wanted, NoTable
<1>3. Wanted \subseteq Chain0 /\ Chain0 \subseteq SymbolTable
  BY <1>1, WantedInChain DEF Chain0, Chained
<1>4. \A i \in Chain0 : Table.place[i] \in Nat
  BY <1>1, <1>3, WantedInChain
<1>5. \A w \in Wanted : Table.place[sym] < Table.place[w]
  <2>1. ASSUME NEW w \in Wanted PROVE Table.place[sym] < Table.place[w]
    <3>1. w # sym /\ w \in Chain0
      BY <1>3 DEF Wanted, IsWanted
    <3>2. Table.place[sym] # Table.place[w]
      BY <1>1, <3>1, ChainIsLinked
    <3>3. Table.place[sym] <= Table.place[w]
      BY DEF Ahead
    <3>4. QED
      BY <1>1, <1>4, <3>1, <3>2, <3>3
  <2>2. QED
    BY <2>1
<1>6. NextOf(Table, Chain0, Table.place[sym], sym')
  BY <1>1, ChainIsLinked
<1>7. CASE sym' = 0
  <2>1. \A j \in Chain0 : Table.place[j] <= Table.place[sym]
    BY <1>1, <1>3, <1>6, <1>7, WantedInChain DEF NextOf
  <2>2. Wanted = {}
    BY <1>1, <1>3, <1>4, <1>5, <2>1
  <2>3. QED
    BY <1>1, <1>2, <1>7, <2>2 DEF Ahead
<1>8. CASE sym' # 0
  <2>1. sym' \in Chain0 /\ \A w \in Wanted : Table.place[sym'] <= Table.place[w]
    BY <1>3, <1>5, <1>6, <1>8 DEF NextOf
  <2>2. QED
    BY <1>1, <1>2, <1>8, <2>1 DEF Ahead
<1>9. QED
  BY <1>7, <1>8

LEMMA SearchStepInv ==
    ASSUME DynamicTypeOK, DynamicTypeOK', SearchInv, [DynamicNext]_dynamicVars
    PROVE  SearchInv'
<1>1. CASE ParseEntry
  BY <1>1 DEF ParseEntry, SearchInv
<1>2. CASE EndParse
  BY <1>2 DEF EndParse, SearchInv
<1>3. CASE GetModuleSymbolByName
  <2>1. NoTable' = NoTable
    BY <1>3 DEF GetModuleSymbolByName, NoTable
  <2>2. CASE NoTable
    BY <1>3, <2>1, <2>2 DEF GetModuleSymbolByName, SearchInv
  <2>3. CASE ~NoTable
    <3>1. status' = "searching" /\ sym' = Bucket(name)'
      BY <1>3, <2>3 DEF GetModuleSymbolByName, Bucket, Table
    <3>2. (DynamicTypeOK /\ ~NoTable /\ sym = Bucket(name))'
      BY <2>1, <2>3, <3>1
    <3>3. Ahead'
      BY <3>2, BucketStart, PTL
    <3>4. QED
      BY <3>1, <3>3 DEF SearchInv
  <2>4. QED
    BY <2>2, <2>3
<1>4. CASE SearchStep
  <2>1. Ahead /\ UNCHANGED <<mod, name>>
    BY <1>4 DEF SearchStep, SearchInv
  <2>2. UNCHANGED sym => Ahead' /\ Wanted' = Wanted
    BY <2>1 DEF Ahead, Wanted, Chain0, Table, NoTable
  <2>3. CASE sym = 0
    BY <1>4, <2>2, <2>3 DEF SearchStep, SearchInv
  <2>4. CASE sym # 0 /\ IsWanted(sym)
    <3>1. sym \in Wanted
      BY <2>1, <2>4 DEF Ahead, Chain0, Chained, Wanted, IsWanted
    <3>2. QED
      BY <1>4, <2>2, <2>4, <3>1 DEF SearchStep, SearchInv
  <2>5. CASE sym # 0 /\ ~IsWanted(sym)
    <3>1. sym' = Chain(sym) /\ status' = "searching"
      BY <1>4, <2>5 DEF SearchStep
    <3>2. QED
      BY <2>1, <2>5, <3>1, ChainStep DEF SearchInv
  <2>6. QED
    BY <2>3, <2>4, <2>5
<1>5. CASE UNCHANGED dynamicVars
  BY <1>5 DEF dynamicVars, SearchInv, Ahead, Wanted, Chain0, Table, NoTable
<1>6. QED
  BY <1>1, <1>2, <1>3, <1>4, <1>5 DEF DynamicNext

LEMMA DynamicInvariant == DynamicSpec => []DynamicInv
<1>1. DynamicInit => DynamicInv
  BY TypeInit, ParseInit DEF DynamicInv, SearchInv, DynamicInit
<1>2. DynamicInv /\ [DynamicNext]_dynamicVars => DynamicInv'
  BY TypeStep, ParseStep, SearchStepInv DEF DynamicInv
<1>3. QED
  BY <1>1, <1>2, PTL DEF DynamicSpec

(* The state of the load and of the search are of their types, and no      *)
(* search leaves the tables (ld.c, 152-312 and 381-392).                   *)
THEOREM DynamicTypes == DynamicSpec => []DynamicTypeOK
BY DynamicInvariant, PTL DEF DynamicInv
-----------------------------------------------------------------------------
(* For every section, in any order of its entries, a module that loads has *)
(* in every field the value of the last entry that sets it, and no entry   *)
(* the loop should have rejected (ld.c, 152-312).                          *)
THEOREM LoadTakesTheSection == DynamicSpec => []LoadedIsTheSection
<1>1. DynamicInv => LoadedIsTheSection
  <2> SUFFICES ASSUME DynamicInv, Loaded PROVE LoadedIsTheSection
    BY DEF LoadedIsTheSection
  <2>1. TakenFrom(Len(dyn)) /\ mod["rela_or_rel_plt"] = relPlt
    BY DEF DynamicInv, ParseInv
  <2>2. DynamicTypeOK /\ Len(dyn) \in Nat /\ DOMAIN dyn = 1 .. Len(dyn)
    BY SectionTypes DEF DynamicInv
  <2>3. \A tag \in Kept : mod[FieldOf(tag)] = Last(TagsOf(FieldOf(tag)))
    BY <2>1, <2>2, LastIsTaken DEF TakenFrom
  <2>4. /\ \A tag \in OwnField : mod[tag] = Last({tag})
        /\ mod["rel_dyn_size"] = Last({"RELSZ"})
        /\ mod["rela_dyn_size"] = Last({"RELASZ"})
        /\ mod["rela_or_rel"] = Last({"REL", "RELA"})
    <3>1. OwnField \cup {"RELSZ", "RELASZ", "REL"} \subseteq Kept
      BY DEF OwnField, Kept
    <3>2. ASSUME NEW tag \in OwnField PROVE mod[tag] = Last({tag})
      <4>1. tag \in Kept /\ FieldOf(tag) = tag /\ TagsOf(tag) = {tag}
        BY <3>1, TagsOfFields
      <4>2. mod[FieldOf(tag)] = Last(TagsOf(FieldOf(tag)))
        BY <2>3, <4>1
      <4>3. QED
        BY <4>1, <4>2
    <3>3. mod[FieldOf("RELSZ")] = Last(TagsOf(FieldOf("RELSZ")))
      BY <2>3, <3>1
    <3>4. mod[FieldOf("RELASZ")] = Last(TagsOf(FieldOf("RELASZ")))
      BY <2>3, <3>1
    <3>5. mod[FieldOf("REL")] = Last(TagsOf(FieldOf("REL")))
      BY <2>3, <3>1
    <3>6. QED
      BY <3>2, <3>3, <3>4, <3>5, TagsOfFields
  <2>5. mod["rela_or_rel_plt"] = Last({"JMPREL"})
    BY <2>1, <2>2, LastIsTaken DEF TakenFrom
  <2>6. mod["is_rela"] = 1 <=> Has({"PLTREL"}) /\ Last({"PLTREL"}) = Rela
    <3>1. \A v : LastIn(dyn, {"PLTREL"}, Len(dyn), v) =>
                    /\ Has({"PLTREL"}) <=> HasIn(dyn, {"PLTREL"}, Len(dyn))
                    /\ Last({"PLTREL"}) = v
      BY <2>2, LastIsTaken
    <3>2. Has({"PLTREL"}) =>
             LastIn(dyn, {"PLTREL"}, Len(dyn), Last({"PLTREL"}))
      BY <2>2, LastExists
    <3>3. QED
      BY <2>1, <3>1, <3>2 DEF TakenFrom, PltIn
  <2>7. \A i \in DOMAIN dyn : ~Rejects(dyn[i])
    BY <2>1, <2>2 DEF TakenFrom
  <2>8. QED
    BY <2>4, <2>5, <2>6, <2>7 DEF LoadedIsTheSection
<1>2. QED
  BY <1>1, DynamicInvariant, PTL

(* For every symbol table, hash and hash table, with its chains in any     *)
(* order, a search ends at the first defined symbol of the chain with the  *)
(* name, fails only if there is none, and goes wrong only in a module      *)
(* without a hash table (ld.c, 381-392).                                   *)
THEOREM SearchIsFirst == DynamicSpec => []SearchFindsFirstDefined
<1>1. DynamicInv => SearchFindsFirstDefined
  <2> SUFFICES ASSUME DynamicInv PROVE SearchFindsFirstDefined
    OBVIOUS
  <2>1. status = "found" =>
           /\ sym \in Wanted
           /\ \A i \in Wanted : Table.place[sym] <= Table.place[i]
    <3>1. status = "found" => sym \in Wanted /\ Ahead
      BY DEF DynamicInv, SearchInv
    <3>2. 0 \notin Wanted
      BY DEF Wanted, SymbolTable
    <3>3. QED
      BY <3>1, <3>2 DEF Ahead
  <2>2. status = "absent" => Wanted = {}
    BY DEF DynamicInv, SearchInv, Ahead
  <2>3. status = "fault" => ~Has({"HASH"})
    <3>1. SUFFICES ASSUME status = "fault" PROVE ~Has({"HASH"})
      OBVIOUS
    <3>2. LastIn(dyn, {"HASH"}, Len(dyn), 0)
      <4>1. TakenFrom(Len(dyn)) /\ mod["HASH"] = 0
        BY <3>1 DEF DynamicInv, SearchInv, ParseInv, Loaded, NoTable
      <4>2. FieldOf("HASH") = "HASH" /\ TagsOf("HASH") = {"HASH"}
        BY TagsOfFields DEF OwnField, Kept
      <4>3. QED
        BY <4>1, <4>2, FieldsAreThere DEF TakenFrom
    <3>3. \A i \in 1 .. Len(dyn) : dyn[i].tag = "HASH" => dyn[i].val # 0
      BY SectionTypes, HashTableAssumption DEF DynamicInv
    <3>4. ~HasIn(dyn, {"HASH"}, Len(dyn))
      BY <3>2, <3>3 DEF LastIn
    <3>5. QED
      BY <3>4, SectionTypes DEF Has, HasIn, DynamicInv
  <2>4. QED
    BY <2>1, <2>2, <2>3 DEF SearchFindsFirstDefined
<1>2. QED
  BY <1>1, DynamicInvariant, PTL
=============================================================================
