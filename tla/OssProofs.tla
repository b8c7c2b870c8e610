------------------------------ MODULE OssProofs ------------------------------
(***************************************************************************)
(* Theorems about Oss, for any number of NROs and of symbols, any size of  *)
(* the two lists and any number of calls: the invariants its run checks,   *)
(* from one inductive invariant in three parts.                            *)
(***************************************************************************)
EXTENDS Oss, TLAPS

Loading == {"open", "read", "decompress", "load"}

Types ==
    /\ ld \in [up : BOOLEAN, base : Nat, count : Nat]
    /\ mods \in Seq(1 .. Nros)
    /\ ptrs \in [1 .. Len(Home) -> Nat]
    /\ entries \in Nat /\ tries \in Nat /\ life \in Nat \ {0}
    /\ pc \in {"idle", "lookup"} \cup Loading
    /\ pc \in Loading => at \in 1 .. Nros
    /\ pc = "lookup" => at \in 1 .. Len(Home)

(***************************************************************************)
(* In the first lifetime the main module is the first in the list, and the *)
(* count is that of the list; symInitialize has added one entry per call;  *)
(* a list that is not empty belongs to a registry that is up.              *)
(***************************************************************************)
ListsInv ==
    /\ life = 1 => ld.base = 0 /\ (~ld.up => ld.count = 0)
    /\ fault = "none" => entries = tries
    /\ mods # <<>> => ld.up /\ ld.count > 0
    /\ tries = 0 => mods = <<>>
    /\ pc \in Loading => ld.up

(***************************************************************************)
(* The NROs before the one being loaded are in the list, and are all of it *)
(* in a first attempt; the pointers before the one being looked up belong  *)
(* to this lifetime.                                                       *)
(***************************************************************************)
ProgressInv ==
    /\ pc \in Loading => 1 .. at - 1 \subseteq Range(mods)
    /\ pc \in Loading => tries # 0 /\ (tries < 2 => Len(mods) = at - 1)
    /\ pc = "lookup" => \A k \in 1 .. at - 1 :
                            ptrs[k] = life /\ Home[k] \in Range(mods)

OssInv ==
    /\ Types /\ ListsInv /\ ProgressInv
    /\ BuffersReleased /\ PointersAreLive /\ SuccessIsComplete
    /\ MemoryFaultNeedsExit /\ SelfPauseNeedsRetry
-----------------------------------------------------------------------------
(* What an Append adds to the list, and that it takes nothing away. *)
LEMMA RangeOfAppend ==
    ASSUME NEW s \in Seq(1 .. Nros), NEW e \in 1 .. Nros
    PROVE  /\ Append(s, e) \in Seq(1 .. Nros)
           /\ Len(Append(s, e)) = Len(s) + 1
           /\ Range(Append(s, e)) = Range(s) \cup {e}
<1>1. /\ Append(s, e) \in Seq(1 .. Nros)
      /\ Len(Append(s, e)) = Len(s) + 1
      /\ Append(s, e)[Len(s) + 1] = e
      /\ \A i \in 1 .. Len(s) : Append(s, e)[i] = s[i]
  OBVIOUS
<1>2. /\ DOMAIN s = 1 .. Len(s) /\ Len(s) \in Nat
      /\ DOMAIN Append(s, e) = 1 .. Len(s) + 1
  BY <1>1
<1>3. ASSUME NEW x \in Range(Append(s, e)) PROVE x \in Range(s) \cup {e}
  <2>1. PICK i \in 1 .. Len(s) + 1 : x = Append(s, e)[i]
    BY <1>2, <1>3 DEF Range
  <2>2. CASE i = Len(s) + 1
    BY <1>1, <2>1, <2>2
  <2>3. CASE i \in 1 .. Len(s)
    BY <1>1, <1>2, <2>1, <2>3 DEF Range
  <2>4. QED
    BY <1>2, <2>1, <2>2, <2>3
<1>4. ASSUME NEW x \in Range(s) \cup {e} PROVE x \in Range(Append(s, e))
  <2>1. CASE x = e
    BY <1>1, <1>2, <2>1 DEF Range
  <2>2. CASE x \in Range(s)
    BY <1>1, <1>2, <2>2 DEF Range
  <2>3. QED
    BY <1>4, <2>1, <2>2
<1>5. QED
  BY <1>1, <1>3, <1>4

LEMMA OssInvInit == Init => OssInv
<1> SUFFICES ASSUME Init PROVE OssInv
  OBVIOUS
<1> USE SizesAssumption, HomeAssumption DEF Init, Nothing, Loading
<1>1. Types
  BY DEF Types
<1>2. ListsInv /\ ProgressInv /\ BuffersReleased /\ PointersAreLive
  BY DEF ListsInv, ProgressInv, BuffersReleased, PointersAreLive
<1>3. SuccessIsComplete /\ MemoryFaultNeedsExit /\ SelfPauseNeedsRetry
  BY DEF SuccessIsComplete, MemoryFaultNeedsExit, SelfPauseNeedsRetry
<1>4. QED
  BY <1>1, <1>2, <1>3 DEF OssInv

LEMMA OssInvInitialize ==
    ASSUME OssInv, OssInitialize
    PROVE  OssInv'
<1> USE SizesAssumption
    DEF OssInv, OssInitialize, Idle, Loading
<1>1. CASE /\ mounted' \in {mounted, TRUE}
           /\ Return("failed")
           /\ UNCHANGED <<ld, mods, entries, lz4, at, res, pointers, tries,
                          fault, life>>
  <2> USE <1>1 DEF Return, pointers
  <2>1. Types' /\ ListsInv' /\ ProgressInv'
    BY DEF Types, ListsInv, ProgressInv
  <2>2. QED
    BY <2>1 DEF BuffersReleased, PointersAreLive, SuccessIsComplete,
                MemoryFaultNeedsExit, SelfPauseNeedsRetry
<1>2. CASE NoRoomForMain /\ Fault("outOfBounds") /\ UNCHANGED <<tries, life>>
  <2> USE <1>2 DEF Fault, setup, pointers, outcome
  <2>1. life > 1
    BY DEF NoRoomForMain, ListsInv, Types
  <2>2. Types' /\ ListsInv' /\ ProgressInv'
    BY DEF Types, ListsInv, ProgressInv
  <2>3. QED
    BY <2>1, <2>2 DEF BuffersReleased, PointersAreLive, SuccessIsComplete,
                      MemoryFaultNeedsExit, SelfPauseNeedsRetry
<1>3. CASE entries >= MaxThreads /\ Fault("threadListFull")
           /\ tries' = tries + 1 /\ UNCHANGED life
  <2> USE <1>3 DEF Fault, setup, pointers, outcome
  <2>1. tries' > 1 /\ tries' # 0
    BY DEF ListsInv, Types
  <2>2. Types'
    BY DEF Types
  <2>3. ListsInv' /\ ProgressInv'
    BY <2>1 DEF ListsInv, ProgressInv
  <2>4. QED
    BY <2>1, <2>2, <2>3
       DEF BuffersReleased, PointersAreLive, SuccessIsComplete,
           MemoryFaultNeedsExit, SelfPauseNeedsRetry, Types
<1>4. CASE /\ ld' = LdStarted
           /\ entries' = entries + 1 /\ tries' = tries + 1
           /\ pc' = "open" /\ at' = 1 /\ result' = "none"
           /\ UNCHANGED <<mods, lz4, res, pointers, fault, life>>
  <2> USE <1>4 DEF pointers
  <2>1. ld' \in [up : BOOLEAN, base : Nat, count : Nat] /\ ld'.up
        /\ (ld.up => ld' = ld)
        /\ (~ld.up => ld'.base = ld.count)
        /\ (ld.count > 0 => ld'.count > 0)
    <3>1. CASE ld.up
      BY <3>1 DEF LdStarted, Types
    <3>2. CASE ~ld.up
      <4>1. ld' = [up |-> TRUE, base |-> ld.count, count |-> ld.count + 1]
        BY <3>2 DEF LdStarted
      <4>2. ld.count \in Nat /\ ld.count + 1 \in Nat /\ ld.count + 1 > 0
        BY DEF Types
      <4>3. QED
        BY ONLY <3>2, <4>1, <4>2
    <3>3. QED
      BY <3>1, <3>2
  <2>2. Types'
    <3>1. 1 \in 1 .. Nros /\ entries + 1 \in Nat /\ tries + 1 \in Nat
      BY DEF Types
    <3>2. QED
      BY <2>1, <3>1 DEF Types
  <2>3. ListsInv'
    BY <2>1 DEF ListsInv, Types
  <2>4. 1 .. 1 - 1 = {} /\ tries' # 0 /\ (tries' < 2 => mods = <<>>)
    BY DEF ListsInv, Types
  <2>5. ProgressInv'
    BY <2>4 DEF ProgressInv
  <2>6. PointersAreLive'
    BY <2>1 DEF PointersAreLive
  <2>7. SuccessIsComplete'
    BY <2>4 DEF SuccessIsComplete
  <2>8. QED
    BY <2>2, <2>3, <2>5, <2>6, <2>7
       DEF BuffersReleased, MemoryFaultNeedsExit, SelfPauseNeedsRetry
<1>5. QED
  BY <1>1, <1>2, <1>3, <1>4 DEF MountAndStart

(* The steps of the loop up to the load. *)
LEMMA OssInvTurn ==
    ASSUME OssInv, OpenNro \/ ReadNro \/ Decompress
    PROVE  OssInv'
<1> USE DEF OssInv, OpenNro, ReadNro, Decompress, At, AfterReadFailure,
            AfterLz4Failure
<1>1. pc \in Loading /\ UNCHANGED <<setup, at, pointers, history, fault>>
  BY DEF Advance, GiveUp, Loading
<1>2. \/ pc' = "idle" /\ result' = "failed" /\ res' = Nothing
      \/ pc' \in Loading /\ UNCHANGED result
  BY DEF Advance, GiveUp, Return, Loading, outcome
<1>3. \/ pc' = "idle"
      \/ pc' \in Loading /\ pc' \notin {"idle", "lookup"}
  BY <1>2 DEF Loading
<1> USE DEF setup, pointers, history
<1>4. Types'
  BY <1>1, <1>3 DEF Types
<1>5. ListsInv' /\ ProgressInv'
  BY <1>1, <1>3 DEF ListsInv, ProgressInv, Loading
<1>6. BuffersReleased'
  BY <1>2 DEF BuffersReleased, Loading
<1>7. PointersAreLive' /\ SuccessIsComplete'
  BY <1>1, <1>2 DEF PointersAreLive, SuccessIsComplete
<1>8. QED
  BY <1>1, <1>4, <1>5, <1>6, <1>7
     DEF MemoryFaultNeedsExit, SelfPauseNeedsRetry

LEMMA OssInvLoad ==
    ASSUME OssInv, LoadNro
    PROVE  OssInv'
<1> USE SizesAssumption DEF OssInv, LoadNro, At, pointers, history, Loading
<1>1. at \in 1 .. Nros /\ tries # 0
      /\ UNCHANGED <<entries, ptrs, ready, life, tries, fault>>
  BY DEF Types, ProgressInv
<1>2. CASE /\ mods' = Append(mods, at)
           /\ ld' = [ld EXCEPT !.count = @ + 1]
           /\ IF LastNro
              THEN Return("ok") /\ at' = 1
              ELSE pc' = "open" /\ at' = at + 1 /\ UNCHANGED result
  <2> USE <1>2 DEF Return, LastNro
  <2>1. mods \in Seq(1 .. Nros) /\ Len(mods) \in Nat
    BY DEF Types
  <2>2. /\ mods' \in Seq(1 .. Nros) /\ Len(mods') = Len(mods) + 1
        /\ Range(mods') = Range(mods) \cup {at}
    <3>1. at \in 1 .. Nros /\ mods' = Append(mods, at)
      BY <1>1
    <3>2. /\ Append(mods, at) \in Seq(1 .. Nros)
          /\ Len(Append(mods, at)) = Len(mods) + 1
          /\ Range(Append(mods, at)) = Range(mods) \cup {at}
      BY <2>1, <3>1, RangeOfAppend
    <3>3. QED
      BY ONLY <3>1, <3>2
  <2>3. mods' # <<>>
    BY ONLY <2>1, <2>2
  <2>4. ld' \in [up : BOOLEAN, base : Nat, count : Nat]
        /\ ld'.up /\ ld'.base = ld.base /\ ld'.count > 0
    <3>1. ld \in [up : BOOLEAN, base : Nat, count : Nat] /\ ld.up
          /\ ld' = [ld EXCEPT !.count = ld.count + 1]
      BY DEF Types, ListsInv
    <3>2. ld.count + 1 \in Nat /\ ld.count + 1 > 0
      BY <3>1
    <3>3. QED
      BY ONLY <3>1, <3>2
  <2>5. Types'
    <3>1. pc' = "idle" \/ (pc' = "open" /\ at' \in 1 .. Nros)
      BY <1>1
    <3>2. QED
      BY ONLY <1>1, <2>2, <2>4, <3>1, OssInv DEF OssInv, Types, Loading
  <2>6. ListsInv'
    BY <1>1, <2>3, <2>4 DEF ListsInv
  <2>7. 1 .. at \subseteq Range(mods')
    BY <1>1, <2>2 DEF ProgressInv
  <2>8. tries < 2 => Len(mods) = at - 1
    BY DEF ProgressInv
  <2>9. ProgressInv'
    BY <1>1, <2>1, <2>2, <2>7, <2>8 DEF ProgressInv
  <2>10. PointersAreLive'
    BY <1>1, <2>2, <2>4 DEF PointersAreLive
  <2>11. SuccessIsComplete'
    <3>1. result' = "ok" => Range(mods') = 1 .. Nros
      <4>1. SUFFICES ASSUME result' = "ok" PROVE Range(mods') = 1 .. Nros
        OBVIOUS
      <4>2. Range(mods') \subseteq 1 .. Nros
        BY <2>2 DEF Range
      <4>3. CASE at = Nros
        BY <1>1, <2>2, <2>7, <4>2, <4>3
      <4>4. CASE at # Nros
        <5>1. result = "ok" /\ Range(mods) = 1 .. Nros
          BY <1>1, <4>1, <4>4 DEF SuccessIsComplete, ListsInv
        <5>2. QED
          BY ONLY <1>1, <2>2, <5>1
      <4>5. QED
        BY <4>3, <4>4
    <3>2. ASSUME tries < 2, NEW i \in 1 .. Len(mods')
          PROVE  mods'[i] = i
      BY <1>1, <2>1, <2>2, <2>8, <3>2 DEF SuccessIsComplete
    <3>3. QED
      BY <1>1, <3>1, <3>2 DEF SuccessIsComplete
  <2>12. QED
    BY <1>1, <2>5, <2>6, <2>9, <2>10, <2>11
       DEF BuffersReleased, MemoryFaultNeedsExit, SelfPauseNeedsRetry
<1>3. CASE Return("failed") /\ UNCHANGED <<ld, mods, at>>
  <2> USE <1>3 DEF Return
  <2>1. Types' /\ ListsInv' /\ ProgressInv'
    BY <1>1 DEF Types, ListsInv, ProgressInv
  <2>2. BuffersReleased'
    BY DEF BuffersReleased
  <2>3. QED
    BY <1>1, <2>1, <2>2 DEF PointersAreLive, SuccessIsComplete,
                MemoryFaultNeedsExit, SelfPauseNeedsRetry
<1>4. QED
  BY <1>2, <1>3

LEMMA OssInvCruiser ==
    ASSUME OssInv, CruiserInitialize \/ LookupSymbol
    PROVE  OssInv'
<1> USE HomeAssumption DEF OssInv, At, Idle, Loading
<1>1. CASE CruiserInitialize
  <2> USE <1>1 DEF CruiserInitialize, setup, pointers, history, outcome
  <2>1. 1 \in 1 .. Len(Home) /\ 1 .. 1 - 1 = {}
    OBVIOUS
  <2>2. Types' /\ ListsInv' /\ ProgressInv'
    BY <2>1 DEF Types, ListsInv, ProgressInv
  <2>3. QED
    BY <2>2 DEF BuffersReleased, PointersAreLive, SuccessIsComplete,
                MemoryFaultNeedsExit, SelfPauseNeedsRetry
<1>2. CASE LookupSymbol
  <2> USE <1>2 DEF LookupSymbol, setup, history, outcome
  <2>1. CASE LookupMeetsNull /\ Fault("nullDeref")
    <3> USE <2>1 DEF Fault, pointers
    <3>1. life > 1
      BY DEF LookupMeetsNull, ListsInv, Types
    <3>2. Types' /\ ListsInv' /\ ProgressInv'
      BY DEF Types, ListsInv, ProgressInv
    <3>3. QED
      BY <3>1, <3>2 DEF BuffersReleased, PointersAreLive, SuccessIsComplete,
                        MemoryFaultNeedsExit, SelfPauseNeedsRetry
  <2>2. CASE /\ Found(at)
             /\ ptrs' = [ptrs EXCEPT ![at] = life]
             /\ IF at = Len(Home)
                THEN pc' = "idle" /\ at' = 1 /\ ready' = TRUE
                ELSE at' = at + 1 /\ UNCHANGED <<pc, ready>>
             /\ UNCHANGED <<setup, lz4, res, outcome, fault>>
    <3> USE <2>2 DEF Found
    <3>1. at \in 1 .. Len(Home) /\ Len(Home) \in Nat /\ life \in Nat
          /\ ptrs \in [1 .. Len(Home) -> Nat]
      BY DEF Types
    <3>2. /\ ptrs' \in [1 .. Len(Home) -> Nat] /\ ptrs'[at] = life
          /\ \A k \in 1 .. Len(Home) : k # at => ptrs'[k] = ptrs[k]
      BY <3>1
    <3>3. Types'
      BY <3>1, <3>2 DEF Types
    <3>4. ListsInv'
      BY DEF ListsInv
    <3>5. \A k \in 1 .. at : ptrs'[k] = life /\ Home[k] \in Range(mods)
      BY <3>1, <3>2 DEF ProgressInv
    <3>6. ProgressInv'
      BY <3>1, <3>5 DEF ProgressInv
    <3>7. ld.up
      BY DEF ListsInv, Range
    <3>8. PointersAreLive'
      BY <3>1, <3>2, <3>5, <3>7 DEF PointersAreLive
    <3>9. QED
      BY <3>3, <3>4, <3>6, <3>8
         DEF BuffersReleased, SuccessIsComplete, MemoryFaultNeedsExit,
             SelfPauseNeedsRetry
  <2>3. CASE pc' = "idle" /\ at' = 1
             /\ UNCHANGED <<setup, lz4, res, pointers, outcome, fault>>
    <3> USE <2>3 DEF pointers
    <3>1. Types' /\ ListsInv' /\ ProgressInv'
      BY DEF Types, ListsInv, ProgressInv
    <3>2. QED
      BY <3>1 DEF BuffersReleased, PointersAreLive, SuccessIsComplete,
                  MemoryFaultNeedsExit, SelfPauseNeedsRetry
  <2>4. QED
    BY <2>1, <2>2, <2>3
<1>3. QED
  BY <1>1, <1>2

LEMMA OssInvExit ==
    ASSUME OssInv, OssExit
    PROVE  OssInv'
<1> USE DEF OssInv, OssExit, Idle, Loading
<1>1. CASE SecondMain /\ Fault("selfPause") /\ UNCHANGED history
  <2> USE <1>1 DEF Fault, setup, pointers, outcome, history
  <2>1. tries > 1
    BY DEF SecondMain, ListsInv
  <2>2. Types' /\ ListsInv' /\ ProgressInv'
    BY DEF Types, ListsInv, ProgressInv
  <2>3. QED
    BY <2>1, <2>2 DEF BuffersReleased, PointersAreLive, SuccessIsComplete,
                      MemoryFaultNeedsExit, SelfPauseNeedsRetry
<1>2. CASE ~(SecondMain /\ Fault("selfPause") /\ UNCHANGED history)
  <2> USE <1>2 DEF outcome
  <2>1. /\ ld' \in [up : BOOLEAN, base : Nat, count : Nat]
        /\ ~ld'.up /\ ld'.base = ld.base /\ ld'.count = ld.count
        /\ ld \in [up : BOOLEAN, base : Nat, count : Nat]
    <3>1. ld \in [up : BOOLEAN, base : Nat, count : Nat]
          /\ ld' = [ld EXCEPT !.up = FALSE]
      BY DEF Types
    <3>2. QED
      BY ONLY <3>1
  <2>2. life' \in Nat \ {0} /\ (ld.up => life' # 1) /\ (~ld.up => life' = life)
        /\ (life > 1 => life' > 1)
    BY DEF Types
  <2>3. mods' = <<>> /\ entries' = 0 /\ tries' = 0 /\ ready' = FALSE
        /\ UNCHANGED <<pc, at, res, ptrs, result, fault>>
    BY DEF EntriesLeft
  <2>4. Types'
    BY <2>1, <2>2, <2>3 DEF Types
  <2>5. ListsInv' /\ ProgressInv'
    BY <2>1, <2>2, <2>3 DEF ListsInv, ProgressInv
  <2>6. SuccessIsComplete' /\ PointersAreLive'
    BY <2>1, <2>3 DEF SuccessIsComplete, PointersAreLive
  <2>7. QED
    BY <2>2, <2>3, <2>4, <2>5, <2>6
       DEF BuffersReleased, MemoryFaultNeedsExit, SelfPauseNeedsRetry
<1>3. QED
  BY <1>1, <1>2

LEMMA OssInvariant == Spec => []OssInv
<1>1. OssInv /\ [Next]_vars => OssInv'
  <2>1. CASE UNCHANGED vars
    <3> USE <2>1 DEF vars, setup, pointers, history, outcome
    <3>1. OssInv => Types' /\ ListsInv' /\ ProgressInv'
      BY DEF OssInv, Types, ListsInv, ProgressInv
    <3>2. QED
      BY <3>1 DEF OssInv, BuffersReleased, PointersAreLive, SuccessIsComplete,
                  MemoryFaultNeedsExit, SelfPauseNeedsRetry
  <2>2. QED
    BY <2>1, OssInvInitialize, OssInvTurn, OssInvLoad, OssInvCruiser,
       OssInvExit DEF Next, Crashed
<1>2. QED
  BY <1>1, OssInvInit, PTL DEF Spec

(* Whatever fails while an NRO is read, decompressed or loaded, the file   *)
(* is closed and the buffers are freed (oss.c, 96-150 and 161-168).        *)
THEOREM OssBuffersReleased == Spec => []BuffersReleased
BY OssInvariant, PTL DEF OssInv

(* The pointers a successful cruiserInitialize has taken lead into mapped  *)
(* modules until ossExit (cruiser.cpp, 18-46; oss.c, 152-177).             *)
THEOREM OssPointersAreLive == Spec => []PointersAreLive
BY OssInvariant, PTL DEF OssInv

(* Success means that every NRO is in the list, in order unless the call   *)
(* repeats one that failed (oss.c, 157-168).                               *)
THEOREM OssSuccessIsComplete == Spec => []SuccessIsComplete
BY OssInvariant, PTL DEF OssInv

(* No number of failed or repeated calls breaks the registry before the    *)
(* first ldExit (ld.c, 687-697 and 780-784).                               *)
THEOREM OssMemoryFaultNeedsExit == Spec => []MemoryFaultNeedsExit
BY OssInvariant, PTL DEF OssInv

(* Without a repeated ossInitialize symExit never pauses its own thread    *)
(* and the list of threads has room (sym-impl.c, 742-770; oss.c, 155).     *)
THEOREM OssSelfPauseNeedsRetry == Spec => []SelfPauseNeedsRetry
BY OssInvariant, PTL DEF OssInv
=============================================================================
