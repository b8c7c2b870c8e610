--------------------------- MODULE MCLdRelocation ---------------------------
(* A finite instance of LdRelocation for TLC: the image has six words, the *)
(* last two (or four) of which are named by symbolic entries.              *)
EXTENDS LdRelocation

CONSTANTS ext, ext2, own, weak

MCAddress == [s \in {ext, ext2, own, weak} |->
                 IF s = ext THEN 3 ELSE IF s = ext2 THEN 5 ELSE 6]

(* Words that hold different addends. *)
MCInitial == [w \in Index |-> w % 3]

Even == {[odd |-> FALSE, word |-> w] : w \in 0 .. 3}
Odd == {[odd |-> TRUE, bits |-> b] : b \in SUBSET (0 .. BitmapBits - 1)}
RelrTables ==
    {<<>>} \cup {<<e>> : e \in Even}
    \cup {<<e, o>> : e \in Even, o \in Odd}
    \cup {<<e, o, p>> : e \in Even, o \in Odd, p \in Even \cup Odd}
    \cup {<<e, o, p, q>> : e \in Even, o \in Odd, p \in Odd, q \in Even}

Entry(k, w, s) == [kind |-> k, word |-> w, sym |-> s, addend |-> (w % 2) + 1]
SymbolicTables ==
    {<<Entry("abs", 4, s), Entry(k, 5, u)>> :
        s \in Symbols, k \in {"abs", "slot"}, u \in Symbols}

RelativeTables == {<<>>, <<[word |-> 3, addend |-> 2]>>}

(* All RELR tables with one symbolic table, and the other way round. *)
MCTables ==
    LET T(rela, r, rr, sy) ==
            [isRela |-> rela, initial |-> MCInitial, relative |-> r,
             relr |-> rr, symbolic |-> sy]
        all == {T(rela, r, rr, <<Entry("slot", 5, ext)>>) :
                   rela \in BOOLEAN, r \in RelativeTables, rr \in RelrTables}
               \cup
               {T(rela, r, <<[odd |-> FALSE, word |-> 0]>>, sy) :
                   rela \in BOOLEAN, r \in RelativeTables,
                   sy \in SymbolicTables}
    IN  {t \in all : WellFormed(t)}
=============================================================================
