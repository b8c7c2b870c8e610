------------------------------ MODULE LdProofs ------------------------------
(***************************************************************************)
(* Theorems about Ld, for any set of modules, images and symbols and any   *)
(* bounds.                                                                 *)
(*                                                                         *)
(* The inductive invariant says of the list that an entry is a live module *)
(* of an initialized library, and of every call on the stack either that   *)
(* the module it waits for has been released (the call will fault) or that *)
(* the list still is as the call left it: its module in its place, and     *)
(* what the call has passed initialized, or gone.                          *)
(***************************************************************************)
EXTENDS Ld, FiniteSetTheorems, SequenceTheorems, WellFoundedInduction, TLAPS

Indices == 0 .. MaxSlots - 1

(* The call of frame f does not wait for a module that was released.       *)
Live(f) == f.mod # NULL => mstate[f.mod] # "freed"

ListInv ==
    /\ initialized => listAllocated /\ count <= maxCount
    /\ \A i \in Indices :
          slots[i] # NULL =>
              initialized /\ i < count /\ mstate[slots[i]] \in ListedStates
    /\ \A i, j \in Indices : slots[i] # NULL /\ slots[i] = slots[j] => i = j

WaitsInPlace(f) ==
    f.mod # NULL =>
        /\ f.at \in Indices
        /\ slots[f.at] = f.mod
        /\ mstate[f.mod] # "Loaded"
        /\ f.op # "lookup" => mstate[f.mod] = "Initialized"

PassedIsDone(f) ==
    /\ f.op = "lookup" =>
          \A i \in Indices : i < f.at /\ slots[i] # NULL =>
              mstate[slots[i]] = "Initialized"
    /\ f.op \in {"unloadAll", "exit"} =>
          \A i \in Indices : i < f.at => slots[i] = NULL

FrameInv(f) ==
    /\ f.op = "unload" => f.mod # NULL
    /\ Live(f) => /\ WaitsInPlace(f)
                  /\ PassedIsDone(f)
                  /\ f.op = "exit" => initialized

StackInv ==
    \A d \in 1 .. Len(stack) :
        FrameInv(stack[d]) /\ (d < Len(stack) => stack[d].mod # NULL)

RegistryInv ==
    TypeOK /\ ListInv /\ InitializedInOrder /\ StackInv /\ SessionBalance
-----------------------------------------------------------------------------
(* The three operations on the stack. *)

LEMMA TopFacts ==
    ASSUME stack \in Seq(Frames), Len(stack) > 0
    PROVE  /\ Top \in Frames
           /\ Top.op \in Ops /\ Top.at \in Nat /\ Top.mod \in ObjsOrNull
           /\ Len(stack) \in 1 .. Len(stack)
<1>1. Len(stack) \in Nat
  BY LenProperties
<1>2. Len(stack) \in 1 .. Len(stack)
  BY <1>1
<1>3. Top \in Frames
  BY <1>2, ElementOfSeq DEF Top
<1>4. QED
  BY <1>2, <1>3 DEF Frames

LEMMA PushFacts ==
    ASSUME stack \in Seq(Frames), NEW fr \in Frames, Push(fr)
    PROVE  /\ stack' \in Seq(Frames)
           /\ Len(stack') = Len(stack) + 1
           /\ \A d \in 1 .. Len(stack) : stack'[d] = stack[d]
           /\ stack'[Len(stack) + 1] = fr
BY AppendProperties DEF Push

LEMMA PopFacts ==
    ASSUME stack \in Seq(Frames), Len(stack) > 0, Pop
    PROVE  /\ stack' \in Seq(Frames)
           /\ Len(stack') = Len(stack) - 1
           /\ \A d \in 1 .. Len(stack) - 1 : stack'[d] = stack[d]
<1>1. Len(stack) \in Nat /\ stack \in [1 .. Len(stack) -> Frames]
  BY LenProperties
<1>2. \A i \in 1 .. Len(stack) - 1 : stack[i] \in Frames
  BY <1>1
<1>3. Len(stack) - 1 \in Int
  BY <1>1
<1>4. /\ SubSeq(stack, 1, Len(stack) - 1) \in Seq(Frames)
      /\ Len(SubSeq(stack, 1, Len(stack) - 1)) =
            IF 1 <= Len(stack) - 1 THEN Len(stack) - 1 - 1 + 1 ELSE 0
      /\ \A i \in 1 .. Len(stack) - 1 - 1 + 1 :
            SubSeq(stack, 1, Len(stack) - 1)[i] = stack[1 + i - 1]
  BY <1>2, <1>3, SubSeqProperties
<1>5. QED
  BY <1>1, <1>4 DEF Pop

LEMMA ReplaceTopFacts ==
    ASSUME stack \in Seq(Frames), Len(stack) > 0,
           NEW fr \in Frames, ReplaceTop(fr)
    PROVE  /\ stack' \in Seq(Frames)
           /\ Len(stack') = Len(stack)
           /\ \A d \in 1 .. Len(stack) - 1 : stack'[d] = stack[d]
           /\ stack'[Len(stack)] = fr
BY DEF ReplaceTop

LEMMA NextModuleFacts ==
    ASSUME stack \in Seq(Frames), Len(stack) > 0
    PROVE  /\ NextModule \in Frames
           /\ NextModule.op = Top.op
           /\ NextModule.at = Top.at + 1
           /\ NextModule.mod = NULL
BY TopFacts DEF NextModule, Frames, ObjsOrNull

(* A step that keeps the invariant of every waiting call keeps that of the *)
(* whole stack, whatever it does at the top.                               *)
KeepsFrames ==
    \A fr \in Frames : fr.mod # NULL /\ FrameInv(fr) => FrameInv(fr)'

LEMMA StackKept ==
    ASSUME TypeOK, StackInv, KeepsFrames, UNCHANGED stack,
           Len(stack) > 0 => Top.mod # NULL
    PROVE  StackInv'
<1>1. /\ Len(stack) \in Nat
      /\ \A d \in 1 .. Len(stack) : stack[d] \in Frames
  BY LenProperties, ElementOfSeq DEF TypeOK
<1>2. SUFFICES ASSUME NEW d \in 1 .. Len(stack)
               PROVE  FrameInv(stack[d])' /\ stack[d].mod # NULL
  BY DEF StackInv
<1>3. PICK fr \in Frames : fr = stack[d]
  BY <1>1
<1>4. fr.mod # NULL /\ FrameInv(fr)
  BY <1>1, <1>3 DEF StackInv, Top
<1>5. FrameInv(fr)' /\ fr = stack'[d]
  BY <1>3, <1>4 DEF KeepsFrames
<1>6. QED
  BY <1>3, <1>4, <1>5 DEF FrameInv, Live, WaitsInPlace, PassedIsDone

LEMMA StackPushed ==
    ASSUME TypeOK, StackInv, KeepsFrames, Len(stack) > 0 => Top.mod # NULL,
           NEW new \in Frames, Push(new), FrameInv(new)'
    PROVE  StackInv'
<1>1. /\ Len(stack) \in Nat
      /\ \A d \in 1 .. Len(stack) : stack[d] \in Frames
  BY LenProperties, ElementOfSeq DEF TypeOK
<1>2. /\ Len(stack') = Len(stack) + 1
      /\ \A d \in 1 .. Len(stack) : stack'[d] = stack[d]
      /\ stack'[Len(stack) + 1] = new
  BY PushFacts DEF TypeOK
<1>3. ASSUME NEW d \in 1 .. Len(stack)
      PROVE  FrameInv(stack[d])' /\ stack'[d].mod # NULL
  <2>1. PICK fr \in Frames : fr = stack[d]
    BY <1>1
  <2>2. fr.mod # NULL /\ FrameInv(fr)
    BY <1>1, <2>1 DEF StackInv, Top
  <2>3. FrameInv(fr)' /\ fr = stack'[d]
    BY <1>2, <2>1, <2>2 DEF KeepsFrames
  <2>4. QED
    BY <2>2, <2>3 DEF FrameInv, Live, WaitsInPlace, PassedIsDone
<1>4. FrameInv(stack[Len(stack)])'
  BY <1>1, <1>2 DEF FrameInv, Live, WaitsInPlace, PassedIsDone
<1>5. QED
  BY <1>1, <1>2, <1>3, <1>4 DEF StackInv, FrameInv, Live, WaitsInPlace,
     PassedIsDone

LEMMA StackPopped ==
    ASSUME TypeOK, StackInv, KeepsFrames, Len(stack) > 0, Pop
    PROVE  StackInv'
<1>1. /\ Len(stack) \in Nat
      /\ \A d \in 1 .. Len(stack) : stack[d] \in Frames
  BY LenProperties, ElementOfSeq DEF TypeOK
<1>2. /\ Len(stack') = Len(stack) - 1
      /\ \A d \in 1 .. Len(stack) - 1 : stack'[d] = stack[d]
  BY PopFacts DEF TypeOK
<1>3. SUFFICES ASSUME NEW d \in 1 .. Len(stack) - 1
               PROVE  FrameInv(stack[d])' /\ stack'[d].mod # NULL
  BY <1>1, <1>2 DEF StackInv
<1>4. PICK fr \in Frames : fr = stack[d]
  BY <1>1
<1>5. fr.mod # NULL /\ FrameInv(fr)
  BY <1>1, <1>4 DEF StackInv
<1>6. FrameInv(fr)' /\ fr = stack'[d]
  BY <1>2, <1>4, <1>5 DEF KeepsFrames
<1>7. QED
  BY <1>5, <1>6 DEF FrameInv, Live, WaitsInPlace, PassedIsDone

LEMMA StackReplaced ==
    ASSUME TypeOK, StackInv, KeepsFrames, Len(stack) > 0,
           NEW new \in Frames, ReplaceTop(new), FrameInv(new)'
    PROVE  StackInv'
<1>1. /\ Len(stack) \in Nat
      /\ \A d \in 1 .. Len(stack) : stack[d] \in Frames
  BY LenProperties, ElementOfSeq DEF TypeOK
<1>2. /\ Len(stack') = Len(stack)
      /\ \A d \in 1 .. Len(stack) - 1 : stack'[d] = stack[d]
      /\ stack'[Len(stack)] = new
  BY ReplaceTopFacts DEF TypeOK
<1>3. ASSUME NEW d \in 1 .. Len(stack) - 1
      PROVE  FrameInv(stack[d])' /\ stack'[d].mod # NULL
  <2>1. PICK fr \in Frames : fr = stack[d]
    BY <1>1
  <2>2. fr.mod # NULL /\ FrameInv(fr)
    BY <1>1, <2>1 DEF StackInv
  <2>3. FrameInv(fr)' /\ fr = stack'[d]
    BY <1>2, <2>1, <2>2 DEF KeepsFrames
  <2>4. QED
    BY <2>2, <2>3 DEF FrameInv, Live, WaitsInPlace, PassedIsDone
<1>4. FrameInv(stack[Len(stack)])'
  BY <1>1, <1>2 DEF FrameInv, Live, WaitsInPlace, PassedIsDone
<1>5. QED
  BY <1>1, <1>2, <1>3, <1>4 DEF StackInv, FrameInv, Live, WaitsInPlace,
     PassedIsDone
-----------------------------------------------------------------------------
(* What each change of the registry means for the calls that wait.         *)

LEMMA FramesIdle ==
    ASSUME UNCHANGED <<initialized, slots, mstate>>
    PROVE  KeepsFrames
BY DEF KeepsFrames, FrameInv, Live, WaitsInPlace, PassedIsDone

LEMMA FramesAppend ==
    ASSUME TypeOK, ListInv, NEW o \in Objs, mstate[o] = "unused",
           count \in Indices,
           slots' = [slots EXCEPT ![count] = o],
           mstate' = [mstate EXCEPT ![o] = "Loaded"],
           initialized' = TRUE
    PROVE  KeepsFrames
<1> SUFFICES ASSUME NEW fr \in Frames, fr.mod # NULL, FrameInv(fr)
             PROVE  FrameInv(fr)'
  BY DEF KeepsFrames
<1>1. fr.mod \in Objs /\ fr.at \in Nat
  BY DEF Frames, ObjsOrNull
<1>2. CASE mstate[fr.mod] = "freed"
  BY <1>1, <1>2 DEF TypeOK, FrameInv, Live
<1>3. CASE mstate[fr.mod] # "freed"
  <2>1. /\ WaitsInPlace(fr)
        /\ PassedIsDone(fr)
    BY <1>3 DEF FrameInv, Live
  <2>2. fr.at < count /\ fr.mod # o
    BY <1>1, <2>1 DEF WaitsInPlace, ListInv, ListedStates
  <2>3. WaitsInPlace(fr)'
    BY <1>1, <2>1, <2>2 DEF TypeOK, WaitsInPlace, Indices
  <2>4. PassedIsDone(fr)'
    BY <1>1, <2>1, <2>2, ObjsAssumption
       DEF TypeOK, PassedIsDone, Indices, ListInv, ListedStates, ObjsOrNull
  <2>5. QED
    BY <2>3, <2>4, <1>3 DEF FrameInv, Live
<1>4. QED
  BY <1>2, <1>3

LEMMA FramesAbandon ==
    ASSUME TypeOK, ListInv, NEW o \in Objs, mstate[o] = "unused",
           UNCHANGED <<slots, initialized>>,
           mstate' = [mstate EXCEPT ![o] = "Invalid"]
    PROVE  KeepsFrames
<1> SUFFICES ASSUME NEW fr \in Frames, fr.mod # NULL, FrameInv(fr)
             PROVE  FrameInv(fr)'
  BY DEF KeepsFrames
<1>1. fr.mod \in Objs /\ fr.at \in Nat
  BY DEF Frames, ObjsOrNull
<1>2. \A i \in Indices : slots[i] # o
  BY ObjsAssumption DEF ListInv, ListedStates
<1>3. QED
  BY <1>1, <1>2 DEF TypeOK, FrameInv, Live, WaitsInPlace, PassedIsDone,
     Indices, ObjsOrNull

LEMMA FramesAdvance ==
    ASSUME TypeOK, ListInv, NEW o \in Objs,
           mstate[o] # "freed", NEW st \in {"Resolved", "Initialized"},
           mstate[o] = "Initialized" => st = "Initialized",
           UNCHANGED <<slots, initialized>>,
           mstate' = [mstate EXCEPT ![o] = st]
    PROVE  KeepsFrames
<1> SUFFICES ASSUME NEW fr \in Frames, fr.mod # NULL, FrameInv(fr)
             PROVE  FrameInv(fr)'
  BY DEF KeepsFrames
<1>1. fr.mod \in Objs /\ fr.at \in Nat
  BY DEF Frames, ObjsOrNull
<1>2. QED
  BY <1>1 DEF TypeOK, FrameInv, Live, WaitsInPlace, PassedIsDone,
     Indices, ObjsOrNull

LEMMA FramesDispose ==
    ASSUME TypeOK, ListInv, NEW i \in Indices, NEW o \in Objs, slots[i] = o,
           UNCHANGED initialized,
           slots' = [slots EXCEPT ![i] = NULL],
           mstate' = [mstate EXCEPT ![o] = "freed"]
    PROVE  KeepsFrames
<1> SUFFICES ASSUME NEW fr \in Frames, fr.mod # NULL, FrameInv(fr)
             PROVE  FrameInv(fr)'
  BY DEF KeepsFrames
<1>1. fr.mod \in Objs /\ fr.at \in Nat
  BY DEF Frames, ObjsOrNull
<1>2. CASE mstate[fr.mod] = "freed" \/ fr.mod = o
  BY <1>1, <1>2 DEF TypeOK, FrameInv, Live
<1>3. CASE mstate[fr.mod] # "freed" /\ fr.mod # o
  <2>1. WaitsInPlace(fr) /\ PassedIsDone(fr)
    BY <1>3 DEF FrameInv, Live
  <2>2. fr.at # i
    BY <1>3, <2>1 DEF WaitsInPlace
  <2>3. WaitsInPlace(fr)'
    BY <1>1, <1>3, <2>1, <2>2 DEF TypeOK, WaitsInPlace, Indices
  <2>4. \A j \in Indices : j # i /\ slots[j] # NULL => slots[j] # o
    BY ObjsAssumption DEF ListInv
  <2>5. PassedIsDone(fr)'
    BY <1>1, <2>1, <2>4 DEF TypeOK, PassedIsDone, Indices, ObjsOrNull
  <2>6. QED
    BY <1>3, <2>3, <2>5 DEF FrameInv, Live
<1>4. QED
  BY <1>2, <1>3

LEMMA FramesExit ==
    ASSUME \A i \in Indices : slots[i] = NULL, UNCHANGED <<slots, mstate>>
    PROVE  KeepsFrames
<1> SUFFICES ASSUME NEW fr \in Frames, fr.mod # NULL, FrameInv(fr)
             PROVE  FrameInv(fr)'
  BY DEF KeepsFrames
<1>1. mstate[fr.mod] = "freed"
  BY DEF FrameInv, Live, WaitsInPlace
<1>2. QED
  BY <1>1 DEF FrameInv, Live
-----------------------------------------------------------------------------
(* The invariant holds initially and is preserved by every action.         *)

LEMMA RegistryInit == Init => RegistryInv
<1> SUFFICES ASSUME Init PROVE RegistryInv
  OBVIOUS
<1>1. stack \in Seq(Frames) /\ Len(stack) = 0
  BY EmptySeq DEF Init
<1>2. EmptySlots \in [Indices -> ObjsOrNull]
  BY DEF EmptySlots, Indices, ObjsOrNull
<1>3. TypeOK
  <2>1. slots \in [0 .. MaxSlots - 1 -> ObjsOrNull]
    BY <1>2 DEF Init, Indices
  <2>2. /\ mstate \in [Objs -> MStates]
        /\ image \in [Objs -> Modules \cup {NULL}]
        /\ binds \in [Objs -> [Symbols -> ObjsOrNull]]
    BY DEF Init, MStates, NoBinds, ObjsOrNull
  <2>3. Len(stack) <= MaxDepth /\ 0 \in 0 .. MaxSlots /\ 0 \in 0 .. MaxSessions
    BY <1>1, BoundsAssumption
  <2>4. QED
    BY <1>1, <2>1, <2>2, <2>3 DEF Init, TypeOK
<1>4. \A i \in Indices : slots[i] = NULL
  BY DEF Init, EmptySlots, Indices
<1>5. ListInv
  BY <1>4 DEF Init, ListInv
<1>6. InitializedInOrder
  BY <1>4 DEF InitializedInOrder, Indices
<1>7. StackInv
  BY <1>1 DEF StackInv
<1>8. SessionBalance
  BY DEF Init, SessionBalance
<1>9. QED
  BY <1>3, <1>5, <1>6, <1>7, <1>8 DEF RegistryInv

(* Steps that change nothing of the list, the states and the session.      *)
LEMMA RegistryIdle ==
    ASSUME RegistryInv, TypeOK', StackInv',
           UNCHANGED <<listVars, mstate, refVars>>
    PROVE  RegistryInv'
BY DEF RegistryInv, ListInv, InitializedInOrder, SessionBalance, listVars,
       refVars

LEMMA RegistryCrash ==
    ASSUME RegistryInv, NEW kind \in Faults, Crash(kind)
    PROVE  RegistryInv'
<1>1. TypeOK'
  BY DEF RegistryInv, TypeOK, Crash, listVars, objVars, roVars, refVars
<1>2. StackInv'
  BY DEF RegistryInv, StackInv, FrameInv, Live, WaitsInPlace, PassedIsDone,
         Crash, listVars, objVars
<1>3. QED
  BY <1>1, <1>2, RegistryIdle DEF Crash, objVars

LEMMA RegistryInitFailsEarly ==
    ASSUME RegistryInv, ClientRuns, ~initialized, NEW n \in 0 .. MaxSlots,
           NEW failure \in InitFailures, InitFailsEarly(n, failure)
    PROVE  RegistryInv'
<1> USE DEF RegistryInv, InitFailsEarly, refVars, objVars, roVars
<1>1. \A i \in Indices : slots[i] = NULL
  BY DEF ListInv
<1>2. slots' = slots
  BY <1>1 DEF TypeOK, EmptySlots, Indices
<1>3. TypeOK'
  BY <1>2, BoundsAssumption DEF TypeOK, SessionBalance
<1>4. ListInv' /\ InitializedInOrder'
  BY <1>1, <1>2 DEF ListInv, InitializedInOrder, Indices
<1>5. StackInv'
  BY <1>2, FramesIdle, StackKept DEF ClientRuns
<1>6. SessionBalance'
  BY DEF TypeOK, SessionBalance
<1>7. QED
  BY <1>3, <1>4, <1>5, <1>6

LEMMA ListAppended ==
    ASSUME TypeOK, ListInv, InitializedInOrder,
           NEW o \in Objs, mstate[o] = "unused",
           count \in Indices, count < maxCount', listAllocated', initialized',
           slots' = [slots EXCEPT ![count] = o],
           mstate' = [mstate EXCEPT ![o] = "Loaded"],
           count' = count + 1, maxCount' \in Nat
    PROVE  ListInv' /\ InitializedInOrder'
<1>1. \A i \in Indices :
          /\ slots'[i] = IF i = count THEN o ELSE slots[i]
          /\ i >= count => slots[i] = NULL
          /\ slots[i] # o
  BY ObjsAssumption DEF TypeOK, Indices, ListInv, ListedStates
<1>2. \A i \in Indices : slots[i] # NULL => mstate'[slots[i]] = mstate[slots[i]]
  BY <1>1 DEF TypeOK, Indices, ObjsOrNull
<1>3. mstate'[o] = "Loaded"
  BY DEF TypeOK
<1>4. ListInv'
  BY <1>1, <1>2, <1>3 DEF ListInv, TypeOK, Indices, ListedStates
<1>5. InitializedInOrder'
  BY <1>1, <1>2, <1>3 DEF InitializedInOrder, TypeOK, Indices
<1>6. QED
  BY <1>4, <1>5

LEMMA ListKeptByAbandon ==
    ASSUME TypeOK, ListInv, InitializedInOrder,
           NEW o \in Objs, mstate[o] = "unused",
           mstate' = [mstate EXCEPT ![o] = "Invalid"],
           UNCHANGED <<slots, count, initialized>>,
           initialized => UNCHANGED <<listAllocated, maxCount>>
    PROVE  ListInv' /\ InitializedInOrder'
<1>1. \A i \in Indices : slots[i] # o
  BY ObjsAssumption DEF ListInv, ListedStates
<1>2. \A i \in Indices : slots[i] # NULL => mstate'[slots[i]] = mstate[slots[i]]
  BY <1>1 DEF TypeOK, Indices, ObjsOrNull
<1>3. QED
  BY <1>2 DEF ListInv, InitializedInOrder, Indices

LEMMA RegistryInitLoadsMain ==
    ASSUME RegistryInv, ClientRuns, ~initialized, NEW n \in 0 .. MaxSlots,
           NEW o \in Objs, InitLoadsMain(n, o)
    PROVE  RegistryInv'
<1> USE DEF RegistryInv
<1>1. /\ mstate[o] = "unused" /\ ldroRef < MaxSessions /\ maxCount' = n
      /\ listAllocated' = TRUE /\ ldroRef' = ldroRef + 1
      /\ MainAccepted(n, o) \/ MainRejected(o) \/ MainStoredPastTheEnd(n)
      /\ UNCHANGED <<binds, registered, mapped, nrrBuf, refused, stack>>
  BY DEF InitLoadsMain, roVars
<1>2. \A i \in Indices : slots[i] = NULL
  BY DEF ListInv
<1>3. EmptySlots = slots
  BY <1>2 DEF TypeOK, EmptySlots, Indices
<1>4. CASE MainStoredPastTheEnd(n)
  <2> USE <1>1, <1>3, <1>4 DEF MainStoredPastTheEnd
  <2>1. TypeOK'
    BY BoundsAssumption DEF TypeOK, SessionBalance, Faults
  <2>2. ListInv' /\ InitializedInOrder'
    BY DEF ListInv, InitializedInOrder, Indices
  <2>3. StackInv'
    BY FramesIdle, StackKept DEF ClientRuns
  <2>4. SessionBalance'
    BY DEF TypeOK, SessionBalance
  <2>5. QED
    BY <2>1, <2>2, <2>3, <2>4
<1>5. CASE MainRejected(o)
  <2> USE <1>1, <1>3, <1>5 DEF MainRejected, AbandonModule
  <2>1. TypeOK'
    BY BoundsAssumption DEF TypeOK, SessionBalance, MStates
  <2>2. ListInv' /\ InitializedInOrder'
    BY ListKeptByAbandon
  <2>3. StackInv'
    BY FramesAbandon, StackKept DEF ClientRuns
  <2>4. SessionBalance'
    BY DEF TypeOK, SessionBalance
  <2>5. QED
    BY <2>1, <2>2, <2>3, <2>4
<1>6. CASE MainAccepted(n, o)
  <2>1. /\ count < n /\ count \in Indices
        /\ slots' = [slots EXCEPT ![count] = o]
        /\ mstate' = [mstate EXCEPT ![o] = "Loaded"]
        /\ image' = [image EXCEPT ![o] = Main]
        /\ count' = count + 1
        /\ initialized' = TRUE
        /\ UNCHANGED <<lostRefs, fault>>
    BY <1>3, <1>6, BoundsAssumption
       DEF TypeOK, Indices, MainAccepted, AppendModule
  <2>2. slots' \in [0 .. MaxSlots - 1 -> ObjsOrNull]
    BY <2>1 DEF TypeOK, ObjsOrNull
  <2>3. TypeOK'
    BY <1>1, <2>1, <2>2, BoundsAssumption
       DEF TypeOK, MStates, ListedStates, Modules
  <2>4. ListInv' /\ InitializedInOrder'
    <3>1. count < maxCount' /\ maxCount' \in Nat /\ listAllocated'
      BY <1>1, <2>1, BoundsAssumption
    <3>2. QED
      BY <1>1, <2>1, <3>1, ListAppended
  <2>5. StackInv'
    BY <1>1, <2>1, FramesAppend, StackKept DEF ClientRuns
  <2>6. SessionBalance'
    BY <1>1, <2>1 DEF TypeOK, SessionBalance
  <2>7. QED
    BY <2>3, <2>4, <2>5, <2>6
<1>7. QED
  BY <1>1, <1>4, <1>5, <1>6

LEMMA RegistryInitialize ==
    ASSUME RegistryInv, LdInitialize
    PROVE  RegistryInv'
BY RegistryInitFailsEarly, RegistryInitLoadsMain DEF LdInitialize

LEMMA RegistryLoad ==
    ASSUME RegistryInv, LdLoadModuleFromNro
    PROVE  RegistryInv'
<1> USE DEF RegistryInv
<1>1. PICK o \in Objs, img \in Images,
           outcome \in {"prepared"} \cup (PrepareFailures \cap Failures) :
          /\ mstate[o] = "unused"
          /\ PrepareNroModule(o, outcome)
          /\ IF outcome = "prepared" /\ img \notin Malformed
             THEN AppendModule(o, img, slots)
             ELSE AbandonModule(o) /\ UNCHANGED slots
  BY DEF LdLoadModuleFromNro, HasRoom, Accepted
<1>2. /\ ClientRuns /\ initialized /\ count < maxCount
      /\ UNCHANGED <<initialized, listAllocated, maxCount, binds, ldroRef,
                     lostRefs, stack, fault>>
  BY DEF LdLoadModuleFromNro, refVars, HasRoom, Accepted
<1>3. /\ nrrBuf' \subseteq Objs
      /\ registered' \subseteq Objs
      /\ mapped' \subseteq Objs
      /\ refused' \subseteq Objs
  BY <1>1 DEF PrepareNroModule, TypeOK
<1>4. image' \in {image, [image EXCEPT ![o] = img]}
  BY <1>1 DEF AppendModule, AbandonModule
<1>5. image' \in [Objs -> Modules \cup {NULL}]
  BY <1>4 DEF TypeOK, Modules
<1>6. SessionBalance'
  BY <1>2 DEF SessionBalance
<1>7. CASE outcome = "prepared" /\ img \notin Malformed
  <2>1. /\ mstate' = [mstate EXCEPT ![o] = "Loaded"]
        /\ slots' = [slots EXCEPT ![count] = o]
        /\ count' = count + 1
    BY <1>1, <1>7 DEF AppendModule
  <2>2. /\ count \in Indices /\ count < maxCount' /\ maxCount' \in Nat
        /\ initialized' = TRUE /\ listAllocated'
    BY <1>2, BoundsAssumption DEF TypeOK, Indices, ListInv
  <2>3. slots' \in [0 .. MaxSlots - 1 -> ObjsOrNull]
    BY <2>1 DEF TypeOK, ObjsOrNull
  <2>4. TypeOK'
    BY <1>2, <1>3, <1>5, <2>1, <2>2, <2>3, BoundsAssumption
       DEF TypeOK, MStates, ListedStates
  <2>5. ListInv' /\ InitializedInOrder'
    BY <1>1, <2>1, <2>2, ListAppended
  <2>6. StackInv'
    BY <1>1, <1>2, <2>1, <2>2, FramesAppend, StackKept DEF ClientRuns
  <2>7. QED
    BY <1>6, <2>4, <2>5, <2>6
<1>8. CASE ~(outcome = "prepared" /\ img \notin Malformed)
  <2>1. /\ mstate' = [mstate EXCEPT ![o] = "Invalid"]
        /\ UNCHANGED <<slots, count>>
    BY <1>1, <1>8 DEF AbandonModule
  <2>2. TypeOK'
    BY <1>2, <1>3, <1>5, <2>1 DEF TypeOK, MStates
  <2>3. ListInv' /\ InitializedInOrder'
    BY <1>1, <1>2, <2>1, ListKeptByAbandon
  <2>4. StackInv'
    BY <1>1, <1>2, <2>1, FramesAbandon, StackKept DEF ClientRuns
  <2>5. QED
    BY <1>6, <2>2, <2>3, <2>4
<1>9. QED
  BY <1>7, <1>8

(* The client enters a call that starts with its loop over the modules.    *)
LEMMA RegistryLoopCalled ==
    ASSUME RegistryInv, ClientRuns, NEW op \in {"lookup", "unloadAll", "exit"},
           op = "exit" => initialized,
           Push([op |-> op, at |-> 0, mod |-> NULL]),
           UNCHANGED <<listVars, objVars, roVars, refVars, fault>>
    PROVE  RegistryInv'
<1>1. PICK new \in Frames : new = [op |-> op, at |-> 0, mod |-> NULL]
  BY DEF Frames, Ops, ObjsOrNull
<1>2. Push(new)
  BY <1>1
<1>3. FrameInv(new)'
  BY <1>1 DEF FrameInv, Live, WaitsInPlace, PassedIsDone, listVars, Indices
<1>4. StackInv'
  BY <1>2, <1>3, StackPushed, FramesIdle
     DEF RegistryInv, ClientRuns, listVars, objVars
<1>5. stack' \in Seq(Frames) /\ Len(stack') <= MaxDepth
  BY <1>2, PushFacts, LenProperties, BoundsAssumption
     DEF RegistryInv, TypeOK, ClientRuns
<1>6. TypeOK'
  BY <1>5 DEF RegistryInv, TypeOK, listVars, objVars, roVars, refVars
<1>7. QED
  BY <1>4, <1>6, RegistryIdle DEF objVars

LEMMA ResolvedBindsType == \A o : ResolvedBinds(o) \in [Symbols -> ObjsOrNull]
<1>1. \A s : Provider(s) \in ObjsOrNull
  BY DEF Provider, ObjsOrNull
<1>2. QED
  BY <1>1 DEF ResolvedBinds, ObjsOrNull

(* The library moves its loop on to the next module.                       *)
LEMMA LoopAdvanced ==
    ASSUME TypeOK, StackInv, KeepsFrames, Len(stack) > 0,
           ReplaceTop(NextModule), UNCHANGED initialized,
           Top.op # "unload", Top.op = "exit" => initialized,
           Top.op = "lookup" =>
              \A i \in Indices : i <= Top.at /\ slots'[i] # NULL =>
                  mstate'[slots'[i]] = "Initialized",
           Top.op \in {"unloadAll", "exit"} =>
              \A i \in Indices : i <= Top.at => slots'[i] = NULL
    PROVE  StackInv' /\ stack' \in Seq(Frames) /\ Len(stack') = Len(stack)
<1>1. PICK new \in Frames : new = NextModule
  BY NextModuleFacts DEF TypeOK
<1>2. ReplaceTop(new) /\ stack \in Seq(Frames)
  BY <1>1 DEF TypeOK
<1>3. new.op = Top.op /\ new.at = Top.at + 1 /\ new.mod = NULL
  BY <1>1, <1>2, NextModuleFacts
<1>4. PICK op \in Ops, at \in Nat : op = Top.op /\ at = Top.at
  BY <1>2, TopFacts
<1>5. \A i \in Indices : i < at + 1 <=> i <= at
  BY <1>4 DEF Indices
<1>6. FrameInv(new)'
  BY <1>3, <1>4, <1>5 DEF FrameInv, Live, WaitsInPlace, PassedIsDone
<1>7. QED
  BY <1>2, <1>6, StackReplaced, ReplaceTopFacts

(* The library enters the callbacks of the module its loop has reached.    *)
LEMMA CallbackEntered ==
    ASSUME TypeOK, StackInv, KeepsFrames, Len(stack) > 0, Top.mod = NULL,
           Top.at \in Indices, NEW o \in Objs, slots[Top.at] = o,
           EnterCallback(o), UNCHANGED <<slots, initialized>>,
           mstate'[o] # "Loaded",
           Top.op # "lookup" => mstate'[o] = "Initialized",
           \A i \in Indices : i < Top.at /\ slots[i] # NULL =>
               mstate'[slots[i]] = mstate[slots[i]]
    PROVE  StackInv' /\ stack' \in Seq(Frames) /\ Len(stack') = Len(stack)
<1>1. stack \in Seq(Frames)
  BY DEF TypeOK
<1>2. PICK op \in Ops, at \in Nat : op = Top.op /\ at = Top.at
  BY <1>1, TopFacts
<1>3. PICK new \in Frames : new = [op |-> op, at |-> at, mod |-> o]
  BY <1>2 DEF Frames, ObjsOrNull
<1>4. ReplaceTop(new)
  BY <1>2, <1>3 DEF EnterCallback
<1>5. FrameInv(Top) /\ Live(Top)
  BY <1>1, TopFacts DEF StackInv, Top, Live
<1>6. FrameInv(new)'
  <2>1. PassedIsDone(Top) /\ (op = "exit" => initialized)
    BY <1>2, <1>5 DEF FrameInv
  <2>2. PassedIsDone(new)'
    BY <1>2, <1>3, <2>1 DEF PassedIsDone
  <2>3. WaitsInPlace(new)'
    BY <1>2, <1>3 DEF WaitsInPlace
  <2>4. QED
    BY <1>3, <2>1, <2>2, <2>3, ObjsAssumption DEF FrameInv
<1>7. QED
  BY <1>1, <1>4, <1>6, StackReplaced, ReplaceTopFacts

LEMMA ListAdvanced ==
    ASSUME TypeOK, ListInv, InitializedInOrder, NEW at \in Indices,
           NEW o \in Objs, slots[at] = o,
           NEW st \in {"Resolved", "Initialized"},
           mstate[o] = "Initialized" => st = "Initialized",
           \A i \in Indices : i < at /\ slots[i] # NULL =>
               mstate[slots[i]] = "Initialized",
           mstate' = [mstate EXCEPT ![o] = st],
           UNCHANGED listVars
    PROVE  ListInv' /\ InitializedInOrder'
<1>1. \A i \in Indices : i # at /\ slots[i] # NULL =>
          slots[i] # o /\ mstate'[slots[i]] = mstate[slots[i]]
  BY ObjsAssumption DEF TypeOK, ListInv, Indices, ObjsOrNull
<1>2. mstate'[o] = st
  BY DEF TypeOK
<1>3. ListInv'
  BY <1>1, <1>2 DEF ListInv, listVars, ListedStates
<1>4. InitializedInOrder'
  <2>1. SUFFICES ASSUME NEW i \in Indices, NEW j \in Indices, i < j,
                        slots[i] # NULL, slots[j] # NULL,
                        mstate'[slots[j]] # "Loaded"
                 PROVE  mstate'[slots[i]] = "Initialized"
    BY DEF InitializedInOrder, Indices, listVars
  <2>2. CASE j = at
    BY <1>1, <2>1, <2>2 DEF Indices
  <2>3. CASE j # at
    <3>1. mstate[slots[i]] = "Initialized"
      BY <1>1, <2>1, <2>3 DEF InitializedInOrder, Indices
    <3>2. QED
      BY <1>1, <1>2, <3>1
  <2>4. QED
    BY <2>2, <2>3
<1>5. QED
  BY <1>3, <1>4

LEMMA ListDisposed ==
    ASSUME TypeOK, ListInv, InitializedInOrder, NEW i \in Indices,
           NEW o \in Objs, slots[i] = o, DisposeModule(o, i)
    PROVE  /\ ListInv' /\ InitializedInOrder' /\ KeepsFrames
           /\ slots' \in [0 .. MaxSlots - 1 -> ObjsOrNull]
           /\ mstate' \in [Objs -> MStates]
<1> USE DEF DisposeModule, ReleaseRo, ClearEntry
<1>1. \A j \in Indices :
          /\ slots'[j] = IF j = i THEN NULL ELSE slots[j]
          /\ j # i /\ slots[j] # NULL => slots[j] # o
  BY ObjsAssumption DEF TypeOK, Indices, ListInv
<1>2. \A j \in Indices : slots'[j] # NULL =>
          slots'[j] = slots[j] /\ mstate'[slots[j]] = mstate[slots[j]]
  BY <1>1 DEF TypeOK, Indices, ObjsOrNull
<1>3. ListInv' /\ InitializedInOrder'
  BY <1>1, <1>2 DEF ListInv, InitializedInOrder, Indices
<1>4. KeepsFrames
  BY FramesDispose
<1>5. QED
  BY <1>3, <1>4 DEF TypeOK, ObjsOrNull, MStates

LEMMA RegistryReturn ==
    ASSUME RegistryInv, Len(stack) > 0, Return
    PROVE  RegistryInv'
<1>1. StackInv' /\ stack' \in Seq(Frames) /\ Len(stack') <= MaxDepth
  BY FramesIdle, StackPopped, PopFacts, LenProperties, BoundsAssumption
     DEF RegistryInv, TypeOK, Return, listVars, objVars
<1>2. TypeOK'
  BY <1>1 DEF RegistryInv, TypeOK, Return, listVars, objVars, roVars, refVars
<1>3. QED
  BY <1>1, <1>2, RegistryIdle DEF Return, objVars

(* What the invariant says of the call that is running.                    *)
LEMMA RunningFacts ==
    ASSUME RegistryInv, NEW op \in Ops, Running(op)
    PROVE  /\ Len(stack) > 0 /\ Top.mod = NULL /\ Top.op = op
           /\ Top.at \in Nat /\ Len(stack) <= MaxDepth
           /\ op # "unload"
           /\ op = "exit" => initialized
           /\ op = "lookup" =>
                 \A i \in Indices : i < Top.at /\ slots[i] # NULL =>
                     mstate[slots[i]] = "Initialized"
           /\ op \in {"unloadAll", "exit"} =>
                 \A i \in Indices : i < Top.at => slots[i] = NULL
<1>1. TypeOK /\ StackInv /\ stack \in Seq(Frames)
  BY DEF RegistryInv, TypeOK
<1>2. Len(stack) > 0 /\ Top.mod = NULL /\ Top.op = op
  BY DEF Running
<1>3. Top.at \in Nat /\ FrameInv(Top)
  BY <1>1, <1>2, TopFacts DEF StackInv, Top
<1>4. Live(Top)
  BY <1>2 DEF Live
<1>5. QED
  BY <1>1, <1>2, <1>3, <1>4 DEF FrameInv, PassedIsDone, TypeOK

(* What it says of the call whose callback is about to return.             *)
LEMMA WaitingFacts ==
    ASSUME RegistryInv, Len(stack) > 0, Top.mod # NULL,
           mstate[Top.mod] # "freed"
    PROVE  /\ Top.at \in Indices /\ Top.mod \in Objs /\ Top.op \in Ops
           /\ slots[Top.at] = Top.mod
           /\ mstate[Top.mod] # "Loaded"
           /\ Top.op = "exit" => initialized
           /\ Top.op = "lookup" =>
                 \A i \in Indices : i < Top.at /\ slots[i] # NULL =>
                     mstate[slots[i]] = "Initialized"
           /\ Top.op \in {"unloadAll", "exit"} =>
                 \A i \in Indices : i < Top.at => slots[i] = NULL
<1>1. TypeOK /\ StackInv /\ stack \in Seq(Frames)
  BY DEF RegistryInv, TypeOK
<1>2. Top.mod \in Objs /\ Top.op \in Ops /\ FrameInv(Top)
  BY <1>1, TopFacts DEF StackInv, Top, ObjsOrNull
<1>3. Live(Top)
  BY DEF Live
<1>4. QED
  BY <1>2, <1>3 DEF FrameInv, WaitsInPlace, PassedIsDone

LEMMA RegistryLookupStep ==
    ASSUME RegistryInv, LookupStep
    PROVE  RegistryInv'
<1> DEFINE at == Top.at
           o == slots[Top.at]
<1>1. /\ Len(stack) > 0 /\ Top.mod = NULL /\ Top.op = "lookup" /\ at \in Nat
      /\ \A i \in Indices : i < at /\ slots[i] # NULL =>
             mstate[slots[i]] = "Initialized"
      /\ at < count /\ stack \in Seq(Frames) /\ Len(stack) <= MaxDepth
  BY RunningFacts DEF LookupStep, Ops, RegistryInv, TypeOK, MoreModules
<1>2. CASE BadAccess(at)
  BY <1>2, RegistryCrash DEF LookupStep, AccessFault, Faults, MoreModules
<1>3. CASE ~BadAccess(at)
  <2>1. /\ EnsureModuleInitialized(o)
        /\ UNCHANGED <<initialized, listAllocated, maxCount, count, slots,
                       registered, mapped, nrrBuf, refused, ldroRef, lostRefs>>
    BY <1>3 DEF LookupStep, listVars, roVars, refVars, MoreModules
  <2>2. at \in Indices /\ o \in Objs
    <3>1. at \in Indices
      BY <1>1, BoundsAssumption DEF RegistryInv, TypeOK, Indices
    <3>2. o # NULL
      BY <1>3 DEF BadAccess
    <3>3. QED
      BY <3>1, <3>2 DEF RegistryInv, TypeOK, Indices, ObjsOrNull
  <2>3. SessionBalance'
    BY <2>1 DEF RegistryInv, SessionBalance
  <2>4. CASE UNCHANGED mstate /\ mstate[o] = "Initialized"
             /\ ReplaceTop(NextModule) /\ UNCHANGED <<objVars, fault>>
    <3>1. KeepsFrames
      BY <2>1, <2>4, FramesIdle
    <3>2. \A i \in Indices : i <= at /\ slots'[i] # NULL =>
              mstate'[slots'[i]] = "Initialized"
      BY <1>1, <2>1, <2>4 DEF Indices
    <3>3. StackInv' /\ stack' \in Seq(Frames) /\ Len(stack') = Len(stack)
      BY <1>1, <2>1, <2>4, <3>1, <3>2, LoopAdvanced DEF RegistryInv
    <3>4. TypeOK'
      BY <1>1, <2>1, <2>4, <3>3 DEF RegistryInv, TypeOK, objVars
    <3>5. QED
      BY <2>1, <2>4, <3>3, <3>4, RegistryIdle DEF listVars, refVars
  <2>5. CASE fault' = "nullDeref" /\ UNCHANGED <<objVars, stack>>
    BY <2>1, <2>5, RegistryCrash
       DEF Crash, Faults, listVars, roVars, refVars
  <2>6. CASE Pop /\ UNCHANGED <<objVars, fault>>
    BY <1>1, <2>1, <2>6, RegistryReturn DEF Return, listVars, roVars, refVars
  <2>7. CASE /\ mstate[o] = "Loaded"
             /\ binds' = [binds EXCEPT ![o] = ResolvedBinds(o)]
             /\ IF IsNro(o)
                THEN /\ mstate' = [mstate EXCEPT ![o] = "Resolved"]
                     /\ EnterCallback(o)
                ELSE /\ mstate' = [mstate EXCEPT ![o] = "Initialized"]
                     /\ ReplaceTop(NextModule)
             /\ UNCHANGED <<image, fault>>
    <3>1. PICK st \in {"Resolved", "Initialized"} :
                 mstate' = [mstate EXCEPT ![o] = st]
      BY <2>7
    <3>2. ListInv' /\ InitializedInOrder'
      BY <1>1, <2>1, <2>2, <2>7, <3>1, ListAdvanced DEF RegistryInv, listVars
    <3>3. KeepsFrames
      BY <2>1, <2>2, <2>7, <3>1, FramesAdvance DEF RegistryInv
    <3>4. \A i \in Indices : i # at /\ slots[i] # NULL =>
              mstate'[slots[i]] = mstate[slots[i]]
      BY <2>2, <3>1, ObjsAssumption
         DEF RegistryInv, TypeOK, ListInv, Indices, ObjsOrNull
    <3>5. StackInv' /\ stack' \in Seq(Frames) /\ Len(stack') = Len(stack)
      <4>1. CASE EnterCallback(o) /\ mstate'[o] = "Resolved"
        BY <1>1, <2>1, <2>2, <3>3, <3>4, <4>1, CallbackEntered
           DEF RegistryInv, Indices
      <4>2. CASE ReplaceTop(NextModule) /\ mstate'[o] = "Initialized"
        <5>1. \A i \in Indices : i <= at /\ slots'[i] # NULL =>
                  mstate'[slots'[i]] = "Initialized"
          BY <1>1, <2>1, <3>4, <4>2 DEF Indices
        <5>2. QED
          BY <1>1, <2>1, <3>3, <4>2, <5>1, LoopAdvanced DEF RegistryInv
      <4>3. QED
        BY <2>2, <2>7, <4>1, <4>2 DEF RegistryInv, TypeOK
    <3>6. TypeOK'
      <4>1. binds' \in [Objs -> [Symbols -> ObjsOrNull]]
        BY <2>2, <2>7, ResolvedBindsType DEF RegistryInv, TypeOK
      <4>2. mstate' \in [Objs -> MStates]
        BY <2>2, <3>1 DEF RegistryInv, TypeOK, MStates, ListedStates
      <4>3. QED
        BY <1>1, <2>1, <2>7, <3>5, <4>1, <4>2 DEF RegistryInv, TypeOK
    <3>7. QED
      BY <2>3, <3>2, <3>5, <3>6 DEF RegistryInv
  <2>8. CASE mstate[o] = "Resolved" /\ EnterCallback(o)
             /\ UNCHANGED <<objVars, fault>>
    <3>1. KeepsFrames
      BY <2>1, <2>8, FramesIdle DEF objVars
    <3>2. StackInv' /\ stack' \in Seq(Frames) /\ Len(stack') = Len(stack)
      BY <1>1, <2>1, <2>2, <2>8, <3>1, CallbackEntered
         DEF RegistryInv, Indices, objVars
    <3>3. TypeOK'
      BY <1>1, <2>1, <2>8, <3>2 DEF RegistryInv, TypeOK, objVars
    <3>4. QED
      BY <2>1, <2>8, <3>2, <3>3, RegistryIdle DEF listVars, refVars, objVars
  <2>9. QED
    BY <2>1, <2>4, <2>5, <2>6, <2>7, <2>8
       DEF EnsureModuleInitialized, objVars, IsInitialized
<1>4. QED
  BY <1>2, <1>3

LEMMA RegistryLookupReturn ==
    ASSUME RegistryInv, LookupReturn
    PROVE  RegistryInv'
BY RegistryCrash, RegistryReturn DEF LookupReturn, Running, Faults, MoreModules

LEMMA RegistryInitReturn ==
    ASSUME RegistryInv, InitReturn
    PROVE  RegistryInv'
<1> DEFINE at == Top.at
           o == Top.mod
<1>1. Len(stack) > 0 /\ Top.op = "lookup" /\ o # NULL
  BY DEF InitReturn
<1>2. CASE mstate[o] = "freed"
  BY <1>2, RegistryCrash DEF InitReturn, Faults
<1>3. CASE mstate[o] # "freed"
  <2>1. /\ mstate' = [mstate EXCEPT ![o] = "Initialized"]
        /\ ReplaceTop(NextModule)
        /\ UNCHANGED <<initialized, listAllocated, maxCount, count, slots, image,
                       binds, registered, mapped, nrrBuf, refused, ldroRef, lostRefs,
                       fault>>
    BY <1>3 DEF InitReturn, listVars, roVars, refVars
  <2>2. /\ at \in Indices /\ o \in Objs /\ slots[at] = o
        /\ \A i \in Indices : i < at /\ slots[i] # NULL =>
               mstate[slots[i]] = "Initialized"
    BY <1>1, <1>3, WaitingFacts
  <2>3. ListInv' /\ InitializedInOrder'
    BY <2>1, <2>2, ListAdvanced DEF RegistryInv, listVars
  <2>4. KeepsFrames
    BY <1>3, <2>1, <2>2, FramesAdvance DEF RegistryInv
  <2>5. \A i \in Indices : i <= at /\ slots'[i] # NULL =>
            mstate'[slots'[i]] = "Initialized"
    BY <2>1, <2>2, ObjsAssumption
       DEF RegistryInv, TypeOK, ListInv, Indices, ObjsOrNull
  <2>6. StackInv' /\ stack' \in Seq(Frames) /\ Len(stack') = Len(stack)
    BY <1>1, <2>1, <2>4, <2>5, LoopAdvanced DEF RegistryInv
  <2>7. TypeOK'
    BY <2>1, <2>2, <2>6 DEF RegistryInv, TypeOK, MStates, ListedStates
  <2>8. SessionBalance'
    BY <2>1 DEF RegistryInv, SessionBalance
  <2>9. QED
    BY <2>3, <2>6, <2>7, <2>8 DEF RegistryInv
<1>4. QED
  BY <1>2, <1>3

LEMMA RegistryUnloadModule ==
    ASSUME RegistryInv, LdUnloadModule
    PROVE  RegistryInv'
<1>1. ClientRuns
  BY DEF LdUnloadModule, CallFini
<1>2. CASE Crash("nullDeref")
  BY <1>2, RegistryCrash DEF Faults
<1>3. ASSUME NEW name \in Modules, NEW i \in Named(name),
             IF HasFini(slots[i])
             THEN /\ Push([op |-> "unload", at |-> i, mod |-> slots[i]])
                  /\ UNCHANGED <<listVars, objVars, roVars, refVars, fault>>
             ELSE DisposeModule(slots[i], i) /\ UNCHANGED stack
      PROVE  RegistryInv'
  <2> DEFINE o == slots[i]
  <2>1. i \in Nat /\ i < count /\ o # NULL
    BY <1>3 DEF Named, BadAccess, RegistryInv, TypeOK
  <2>2. i \in Indices /\ o \in Objs
    BY <2>1, BoundsAssumption DEF RegistryInv, TypeOK, Indices, ObjsOrNull
  <2>3. CASE HasFini(o)
    <3>1. PICK new \in Frames : new = [op |-> "unload", at |-> i, mod |-> o]
      BY <2>1, <2>2 DEF Frames, Ops, ObjsOrNull
    <3>2. Push(new) /\ UNCHANGED <<listVars, objVars, roVars, refVars, fault>>
      BY <1>3, <2>3, <3>1
    <3>3. FrameInv(new)'
      BY <2>1, <2>2, <2>3, <3>1, <3>2
         DEF HasFini, FrameInv, Live, WaitsInPlace, PassedIsDone, listVars,
             objVars
    <3>4. StackInv'
      BY <1>1, <3>2, <3>3, StackPushed, FramesIdle
         DEF RegistryInv, ClientRuns, listVars, objVars
    <3>5. stack' \in Seq(Frames) /\ Len(stack') <= MaxDepth
      BY <1>1, <3>2, PushFacts, LenProperties, BoundsAssumption
         DEF RegistryInv, TypeOK, ClientRuns
    <3>6. TypeOK'
      BY <3>2, <3>5 DEF RegistryInv, TypeOK, listVars, objVars, roVars, refVars
    <3>7. QED
      BY <3>2, <3>4, <3>6, RegistryIdle DEF objVars
  <2>4. CASE ~HasFini(o)
    <3>1. DisposeModule(o, i) /\ UNCHANGED stack
      BY <1>3, <2>4
    <3>2. /\ ListInv' /\ InitializedInOrder' /\ KeepsFrames
          /\ slots' \in [0 .. MaxSlots - 1 -> ObjsOrNull]
          /\ mstate' \in [Objs -> MStates]
      BY <2>2, <3>1, ListDisposed DEF RegistryInv
    <3>3. StackInv'
      BY <1>1, <3>1, <3>2, StackKept DEF RegistryInv, ClientRuns
    <3>4. TypeOK' /\ SessionBalance'
      BY <3>1, <3>2
         DEF RegistryInv, TypeOK, SessionBalance, DisposeModule, refVars,
         ReleaseRo, MayStay, RecordRefused, ClearEntry
    <3>5. QED
      BY <3>2, <3>3, <3>4 DEF RegistryInv
  <2>5. QED
    BY <2>3, <2>4
<1>4. QED
  BY <1>2, <1>3 DEF LdUnloadModule, CallFini

LEMMA RegistryUnloadAllStep ==
    ASSUME RegistryInv, UnloadAllStep
    PROVE  RegistryInv'
<1> DEFINE at == Top.at
           o == slots[Top.at]
<1>1. /\ Len(stack) > 0 /\ Top.mod = NULL /\ at \in Nat
      /\ Top.op \in {"unloadAll", "exit"}
      /\ Top.op = "exit" => initialized
      /\ \A i \in Indices : i < at => slots[i] = NULL
      /\ stack \in Seq(Frames) /\ Len(stack) <= MaxDepth
  BY RunningFacts DEF UnloadAllStep, Ops, RegistryInv, TypeOK, MoreModules
<1>2. at < count
  BY DEF UnloadAllStep, MoreModules
<1>3. at \in Indices /\ o \in ObjsOrNull
  BY <1>1, <1>2, BoundsAssumption DEF RegistryInv, TypeOK, Indices
<1>4. CASE at >= Capacity
  BY <1>4, RegistryCrash DEF UnloadAllStep, AccessFault, Faults, MoreModules
<1>5. CASE ~(at >= Capacity) /\ o = NULL
  <2>1. /\ ReplaceTop(NextModule)
        /\ UNCHANGED <<listVars, objVars, roVars, refVars, fault>>
    BY <1>5 DEF UnloadAllStep, MoreModules
  <2>2. \A i \in Indices : i <= at => slots'[i] = NULL
    BY <1>1, <1>5, <2>1 DEF Indices, listVars
  <2>3. StackInv' /\ stack' \in Seq(Frames) /\ Len(stack') = Len(stack)
    BY <1>1, <2>1, <2>2, FramesIdle, LoopAdvanced
       DEF RegistryInv, listVars, objVars
  <2>4. TypeOK'
    BY <1>1, <2>1, <2>3
       DEF RegistryInv, TypeOK, listVars, objVars, roVars, refVars
  <2>5. QED
    BY <2>1, <2>3, <2>4, RegistryIdle DEF objVars
<1>6. CASE ~(at >= Capacity) /\ o # NULL /\ HasFini(o)
  <2>1. /\ EnterCallback(o)
        /\ UNCHANGED <<listVars, objVars, roVars, refVars, fault>>
    BY <1>6 DEF UnloadAllStep, MoreModules
  <2>2. o \in Objs /\ mstate'[o] = "Initialized"
    BY <1>3, <1>6, <2>1 DEF HasFini, objVars, ObjsOrNull
  <2>3. StackInv' /\ stack' \in Seq(Frames) /\ Len(stack') = Len(stack)
    BY <1>1, <1>3, <2>1, <2>2, FramesIdle, CallbackEntered
       DEF RegistryInv, listVars, objVars
  <2>4. TypeOK'
    BY <1>1, <2>1, <2>3
       DEF RegistryInv, TypeOK, listVars, objVars, roVars, refVars
  <2>5. QED
    BY <2>1, <2>3, <2>4, RegistryIdle DEF objVars
<1>7. CASE ~(at >= Capacity) /\ o # NULL /\ ~HasFini(o)
  <2>1. DisposeModule(o, at) /\ ReplaceTop(NextModule)
    BY <1>7 DEF UnloadAllStep, MoreModules
  <2>2. /\ ListInv' /\ InitializedInOrder' /\ KeepsFrames
        /\ slots' \in [0 .. MaxSlots - 1 -> ObjsOrNull]
        /\ mstate' \in [Objs -> MStates]
    BY <1>3, <1>7, <2>1, ListDisposed DEF RegistryInv, ObjsOrNull
  <2>3. \A i \in Indices : i <= at => slots'[i] = NULL
    BY <1>1, <1>3, <2>1 DEF DisposeModule, RegistryInv, TypeOK, Indices,
       ReleaseRo, ClearEntry
  <2>4. StackInv' /\ stack' \in Seq(Frames) /\ Len(stack') = Len(stack)
    BY <1>1, <2>1, <2>2, <2>3, LoopAdvanced DEF RegistryInv, DisposeModule,
       ReleaseRo, ClearEntry
  <2>5. TypeOK' /\ SessionBalance'
    BY <1>1, <2>1, <2>2, <2>4
       DEF RegistryInv, TypeOK, SessionBalance, DisposeModule, refVars,
       ReleaseRo, MayStay, RecordRefused, ClearEntry
  <2>6. QED
    BY <2>2, <2>4, <2>5 DEF RegistryInv
<1>8. QED
  BY <1>4, <1>5, <1>6, <1>7

LEMMA RegistryFiniReturn ==
    ASSUME RegistryInv, FiniReturn
    PROVE  RegistryInv'
<1> DEFINE at == Top.at
           o == Top.mod
<1>1. Len(stack) > 0 /\ Top.op # "lookup" /\ o # NULL
  BY DEF FiniReturn
<1>2. CASE mstate[o] = "freed"
  BY <1>2, RegistryCrash DEF FiniReturn, Faults
<1>3. CASE mstate[o] # "freed"
  <2>1. /\ DisposeModule(o, at)
        /\ IF Top.op = "unload" THEN Pop ELSE ReplaceTop(NextModule)
    BY <1>3 DEF FiniReturn
  <2>2. /\ at \in Indices /\ o \in Objs /\ Top.op \in Ops /\ slots[at] = o
        /\ Top.op = "exit" => initialized
        /\ Top.op \in {"unloadAll", "exit"} =>
              \A i \in Indices : i < at => slots[i] = NULL
    BY <1>1, <1>3, WaitingFacts
  <2>3. /\ ListInv' /\ InitializedInOrder' /\ KeepsFrames
        /\ slots' \in [0 .. MaxSlots - 1 -> ObjsOrNull]
        /\ mstate' \in [Objs -> MStates]
    BY <2>1, <2>2, ListDisposed DEF RegistryInv
  <2>4. StackInv' /\ stack' \in Seq(Frames) /\ Len(stack') <= MaxDepth
    <3>1. CASE Top.op = "unload"
      BY <1>1, <2>1, <2>3, <3>1, StackPopped, PopFacts, LenProperties,
         BoundsAssumption DEF RegistryInv, TypeOK
    <3>2. CASE Top.op # "unload"
      <4>1. \A i \in Indices : i <= at => slots'[i] = NULL
        BY <1>1, <2>1, <2>2, <3>2
           DEF DisposeModule, RegistryInv, TypeOK, Indices, Ops, ReleaseRo,
           ClearEntry
      <4>2. StackInv' /\ stack' \in Seq(Frames) /\ Len(stack') = Len(stack)
        BY <1>1, <2>1, <2>2, <2>3, <3>2, <4>1, LoopAdvanced
           DEF RegistryInv, DisposeModule, ReleaseRo, ClearEntry
      <4>3. QED
        BY <4>2 DEF RegistryInv, TypeOK
    <3>3. QED
      BY <3>1, <3>2
  <2>5. TypeOK' /\ SessionBalance'
    BY <2>1, <2>3, <2>4
       DEF RegistryInv, TypeOK, SessionBalance, DisposeModule, refVars,
       ReleaseRo, MayStay, RecordRefused, ClearEntry
  <2>6. QED
    BY <2>3, <2>4, <2>5 DEF RegistryInv
<1>4. QED
  BY <1>2, <1>3

LEMMA RegistryExitReturn ==
    ASSUME RegistryInv, ExitReturn
    PROVE  RegistryInv'
<1>1. /\ Len(stack) > 0 /\ initialized /\ Top.at \in Nat /\ Top.at >= count
      /\ \A i \in Indices : i < Top.at => slots[i] = NULL
  <2>1. /\ Len(stack) > 0 /\ initialized /\ Top.at \in Nat
        /\ ~(Top.at < count)
        /\ \A i \in Indices : i < Top.at => slots[i] = NULL
    BY RunningFacts DEF ExitReturn, Ops, MoreModules
  <2>2. count \in Nat
    BY DEF RegistryInv, TypeOK
  <2>3. QED
    BY <2>1, <2>2
<1>2. \A i \in Indices : slots[i] = NULL
  BY <1>1 DEF RegistryInv, TypeOK, ListInv, Indices
<1>3. /\ ldroRef' = ldroRef - 1 /\ initialized' = FALSE
      /\ listAllocated' = FALSE /\ Pop
      /\ UNCHANGED <<maxCount, count, slots, mstate, image, binds, registered,
                     mapped, nrrBuf, refused, lostRefs, fault>>
  BY DEF ExitReturn, objVars, roVars, MoreModules, CloseSession
<1>4. StackInv' /\ stack' \in Seq(Frames) /\ Len(stack') <= MaxDepth
  BY <1>1, <1>2, <1>3, FramesExit, StackPopped, PopFacts, LenProperties,
     BoundsAssumption DEF RegistryInv, TypeOK
<1>5. TypeOK' /\ SessionBalance'
  <2>1. /\ lostRefs \in Nat /\ ldroRef \in Nat /\ ldroRef <= MaxSessions
        /\ ldroRef = lostRefs + 1
    BY <1>1, BoundsAssumption DEF RegistryInv, TypeOK, SessionBalance
  <2>2. SessionBalance' /\ ldroRef' \in 0 .. MaxSessions
    BY <1>3, <2>1, BoundsAssumption DEF SessionBalance
  <2>3. QED
    BY <1>3, <1>4, <2>2 DEF RegistryInv, TypeOK
<1>6. ListInv' /\ InitializedInOrder'
  BY <1>2, <1>3 DEF ListInv, InitializedInOrder, Indices
<1>7. QED
  BY <1>4, <1>5, <1>6 DEF RegistryInv

LEMMA RegistryNext ==
    ASSUME RegistryInv, [Next]_vars
    PROVE  RegistryInv'
<1>1. CASE LdInitialize
  BY <1>1, RegistryInitialize
<1>2. CASE LdLoadModuleFromNro
  BY <1>2, RegistryLoad
<1>3. CASE LdLookupGlobalSymbol
  BY <1>3, RegistryLoopCalled DEF LdLookupGlobalSymbol
<1>4. CASE LdUnloadModule
  BY <1>4, RegistryUnloadModule
<1>5. CASE LdUnloadAllModules
  BY <1>5, RegistryLoopCalled DEF LdUnloadAllModules
<1>6. CASE LdExit
  BY <1>6, RegistryLoopCalled DEF LdExit
<1>7. CASE LookupStep
  BY <1>7, RegistryLookupStep
<1>8. CASE LookupReturn
  BY <1>8, RegistryLookupReturn
<1>9. CASE UnloadAllStep
  BY <1>9, RegistryUnloadAllStep
<1>10. CASE UnloadAllReturn
  BY <1>10, RegistryReturn DEF UnloadAllReturn, Running, MoreModules
<1>11. CASE ExitReturn
  BY <1>11, RegistryExitReturn
<1>12. CASE InitReturn
  BY <1>12, RegistryInitReturn
<1>13. CASE FiniReturn
  BY <1>13, RegistryFiniReturn
<1>14. CASE UNCHANGED vars
  <2>1. TypeOK'
    BY <1>14 DEF RegistryInv, TypeOK, vars, listVars, objVars, roVars, refVars
  <2>2. StackInv'
    BY <1>14 DEF RegistryInv, StackInv, FrameInv, Live, WaitsInPlace,
       PassedIsDone, vars, listVars, objVars
  <2>3. QED
    BY <1>14, <2>1, <2>2, RegistryIdle DEF vars, objVars
<1>15. QED
  BY <1>1, <1>2, <1>3, <1>4, <1>5, <1>6, <1>7, <1>8, <1>9, <1>10, <1>11,
     <1>12, <1>13, <1>14
     DEF Next, ClientCalls, LibrarySteps, CallbackReturns, Crashed

LEMMA RegistryInvariant == Spec => []RegistryInv
BY RegistryInit, RegistryNext, PTL DEF Spec
-----------------------------------------------------------------------------
(* Every variable of the registry stays well typed.                        *)
THEOREM LdTypeCorrect == Spec => []TypeOK
BY RegistryInvariant, PTL DEF RegistryInv

(* Modules are initialized in load order, with any nesting of lookups,     *)
(* loads and unloads in callbacks (ld.c, 611-641 and 780-784).             *)
THEOREM LdInitializedInOrder == Spec => []InitializedInOrder
BY RegistryInvariant, PTL DEF RegistryInv

(* A lookup goes on only past initialized modules (ld.c, 780-784).         *)
THEOREM LdScannedAreInitialized == Spec => []ScannedAreInitialized
<1>1. StackInv => ScannedAreInitialized
  BY DEF StackInv, FrameInv, Live, PassedIsDone, ScannedAreInitialized, Indices
<1>2. QED
  BY <1>1, RegistryInvariant, PTL DEF RegistryInv

(* ldUnloadAllModules tears down in load order (ld.c, 770-778).            *)
THEOREM LdTeardownInLoadOrder == Spec => []TeardownInLoadOrder
<1>1. StackInv => TeardownInLoadOrder
  BY DEF StackInv, FrameInv, Live, PassedIsDone, TeardownInLoadOrder, Indices
<1>2. QED
  BY <1>1, RegistryInvariant, PTL DEF RegistryInv

(* The references on the ldr:ro session are that of the current lifetime   *)
(* and those lost by failed initializations (ld.c, 669-697).               *)
THEOREM LdSessionBalance == Spec => []SessionBalance
BY RegistryInvariant, PTL DEF RegistryInv
-----------------------------------------------------------------------------
(* Memory errors have a cause.  As long as nothing has been unloaded the    *)
(* list has no hole below g_ModuleCount; the other two causes are there in  *)
(* the step that faults, and nothing happens after it.                      *)

Unloaded == \E o \in Objs : mstate[o] = "freed"
NoHole == \A i \in 0 .. count - 1 : slots[i] # NULL
NoEntries == listAllocated /\ maxCount = 0
ListedWithoutTable == \E o \in Listed : HasNoTable(o)
UnloadInv ==
    \/ Unloaded
    \/ fault = "none" /\ NoHole
    \/ fault # "none" /\ (NoEntries \/ ListedWithoutTable)

LEMMA ReleasedForEver ==
    ASSUME RegistryInv, Next, NEW o \in Objs, mstate[o] = "freed"
    PROVE  mstate'[o] = "freed"
<1> USE DEF RegistryInv, TypeOK
<1>1. CASE ClientCalls
  BY <1>1
     DEF ClientCalls, LdInitialize, InitFailsEarly, InitLoadsMain, objVars,
         MainAccepted, MainRejected, MainStoredPastTheEnd, AppendModule, AbandonModule, LdLoadModuleFromNro, Crash,
         LdLookupGlobalSymbol, LdUnloadModule, DisposeModule,
         LdUnloadAllModules, LdExit, HasRoom, CallFini, ReleaseRo, ClearEntry,
         Accepted
<1>2. CASE LookupStep
  <2>1. CASE Crash(AccessFault(Top.at))
    BY <2>1 DEF Crash, objVars
  <2>2. CASE ~BadAccess(Top.at) /\ EnsureModuleInitialized(slots[Top.at])
    BY <2>2 DEF EnsureModuleInitialized, objVars, IsInitialized
  <2>3. QED
    BY <1>2, <2>1, <2>2 DEF LookupStep, MoreModules
<1>3. CASE LookupReturn \/ UnloadAllReturn \/ ExitReturn \/ Crashed
  BY <1>3 DEF LookupReturn, UnloadAllReturn, ExitReturn, Crashed, Crash,
     Return,
     objVars, vars, MoreModules, CloseSession
<1>4. CASE UnloadAllStep
  BY <1>4 DEF UnloadAllStep, Crash, DisposeModule, objVars, MoreModules,
     ReleaseRo, ClearEntry
<1>5. CASE CallbackReturns
  BY <1>5 DEF CallbackReturns, InitReturn, FiniReturn, Crash, DisposeModule,
     objVars, ReleaseRo, ClearEntry
<1>6. QED
  BY <1>1, <1>2, <1>3, <1>4, <1>5 DEF Next, LibrarySteps

(* Without a hole every entry below g_ModuleCount can be read.             *)
LEMMA NoBadAccess ==
    ASSUME RegistryInv, NoHole, NEW i \in Nat, i < count
    PROVE  ~BadAccess(i) /\ i < Capacity /\ initialized
<1>1. i \in Indices /\ slots[i] # NULL
  BY BoundsAssumption DEF RegistryInv, TypeOK, Indices, NoHole
<1>2. initialized /\ listAllocated /\ i < maxCount
  BY <1>1 DEF RegistryInv, ListInv, TypeOK
<1>3. QED
  BY <1>1, <1>2 DEF BadAccess, Capacity, RegistryInv, TypeOK

LEMMA NoScanFault ==
    ASSUME RegistryInv, NoHole, NEW I
    PROVE  ~ScanMeetsHole(I)
BY NoBadAccess DEF ScanMeetsHole, RegistryInv, TypeOK

LEMMA SearchFaultCause ==
    ASSUME RegistryInv, NoHole, NEW I, NEW inMain, SearchFaults(I, inMain)
    PROVE  ListedWithoutTable
<1>1. PICK h \in 0 .. count - 1 : HasNoTable(slots[h])
  BY NoScanFault DEF SearchFaults
<1>2. h \in Indices /\ slots[h] # NULL
  BY BoundsAssumption DEF NoHole, RegistryInv, TypeOK, Indices
<1>3. slots[h] \in Listed
  BY <1>2 DEF RegistryInv, TypeOK, Indices, ObjsOrNull, Listed
<1>4. QED
  BY <1>1, <1>3 DEF ListedWithoutTable

(* After a fault the process is gone. *)
LEMMA FaultStops ==
    ASSUME fault # "none", Next
    PROVE  UNCHANGED vars
BY DEF Next, ClientCalls, LibrarySteps, CallbackReturns, LdInitialize,
       LdLoadModuleFromNro, LdLookupGlobalSymbol, LdUnloadModule,
       LdUnloadAllModules, LdExit, LookupStep, LookupReturn, UnloadAllStep,
       UnloadAllReturn, ExitReturn, InitReturn, FiniReturn, Crashed,
       ClientRuns, Running

LEMMA UnloadInvNext ==
    ASSUME RegistryInv, UnloadInv, Next
    PROVE  UnloadInv'
<1>1. CASE Unloaded
  BY <1>1, ReleasedForEver DEF Unloaded, UnloadInv
<1>0. CASE fault # "none" /\ (NoEntries \/ ListedWithoutTable)
  BY <1>0, FaultStops
     DEF UnloadInv, NoEntries, ListedWithoutTable, Listed, HasNoTable, vars,
         listVars, objVars
<1> SUFFICES ASSUME ~Unloaded, fault = "none", NoHole
             PROVE  UnloadInv'
  BY <1>1, <1>0 DEF UnloadInv
<1> USE DEF UnloadInv
<1>2. ASSUME UNCHANGED <<fault, count, slots>> PROVE UnloadInv'
  BY <1>2 DEF NoHole
<1>15. ASSUME NEW kind \in Faults, fault' = kind, UNCHANGED <<slots, image>>,
              ListedWithoutTable
       PROVE  UnloadInv'
  <2>1. ListedWithoutTable'
    BY <1>15 DEF ListedWithoutTable, Listed, HasNoTable
  <2>2. QED
    BY <1>15, <2>1 DEF Faults
<1>3. ASSUME NEW o \in Objs, mstate' = [mstate EXCEPT ![o] = "freed"]
      PROVE  UnloadInv'
  BY <1>3 DEF Unloaded, RegistryInv, TypeOK
<1>4. CASE LdInitialize
  <2>1. PICK n \in 0 .. MaxSlots :
              \/ \E failure \in InitFailures : InitFailsEarly(n, failure)
              \/ \E o \in Objs : InitLoadsMain(n, o)
    BY <1>4 DEF LdInitialize
  <2>2. ~initialized /\ count = 0
    <3>1. ~initialized
      BY <1>4 DEF LdInitialize
    <3>2. ~(0 < count)
      BY <3>1, NoBadAccess
    <3>3. QED
      BY <3>1, <3>2 DEF RegistryInv, TypeOK
  <2>3. ASSUME NEW failure \in InitFailures, InitFailsEarly(n, failure)
        PROVE  UnloadInv'
    BY <2>2, <2>3 DEF InitFailsEarly, NoHole
  <2>4. ASSUME NEW o \in Objs, InitLoadsMain(n, o)
        PROVE  UnloadInv'
    <3>1. CASE MainRejected(o)
      BY <2>2, <2>4, <3>1 DEF InitLoadsMain, MainRejected, AbandonModule, NoHole
    <3>2. CASE MainAccepted(n, o)
      <4>1. /\ slots' = [EmptySlots EXCEPT ![0] = o]
            /\ count' = 1 /\ fault' = "none"
        BY <2>2, <3>2 DEF MainAccepted, AppendModule
      <4>2. slots'[0] = o
        BY <4>1, BoundsAssumption DEF EmptySlots
      <4>3. QED
        BY <4>1, <4>2, ObjsAssumption DEF NoHole
    <3>3. CASE MainStoredPastTheEnd(n)
      <4>1. n = 0 /\ fault' = "outOfBounds"
        BY <2>2, <3>3 DEF MainStoredPastTheEnd
      <4>2. maxCount' = n /\ listAllocated' = TRUE
        BY <2>4 DEF InitLoadsMain
      <4>3. QED
        BY <4>1, <4>2 DEF NoEntries
    <3>4. QED
      BY <2>4, <3>1, <3>2, <3>3 DEF InitLoadsMain
  <2>5. QED
    BY <2>1, <2>3, <2>4
<1>5. CASE LdLoadModuleFromNro
  <2>1. fault' = "none"
    BY <1>5 DEF LdLoadModuleFromNro, HasRoom, Accepted
  <2>2. CASE UNCHANGED <<count, slots>>
    BY <1>2, <2>1, <2>2
  <2>3. ASSUME NEW o \in Objs, count' = count + 1,
               slots' = [slots EXCEPT ![count] = o]
        PROVE  UnloadInv'
    <3>1. count \in Indices
      BY <1>5, BoundsAssumption
         DEF LdLoadModuleFromNro, RegistryInv, TypeOK, Indices, HasRoom,
         Accepted
    <3>2. \A i \in 0 .. count : slots'[i] # NULL
      BY <2>3, <3>1, ObjsAssumption DEF NoHole, RegistryInv, TypeOK, Indices
    <3>3. QED
      BY <2>1, <2>3, <3>2 DEF NoHole, RegistryInv, TypeOK
  <2>4. QED
    BY <1>5, <2>2, <2>3
       DEF LdLoadModuleFromNro, AppendModule, AbandonModule, HasRoom, Accepted
<1>6. CASE LdLookupGlobalSymbol \/ LdUnloadAllModules \/ LdExit
  BY <1>2, <1>6 DEF LdLookupGlobalSymbol, LdUnloadAllModules, LdExit, listVars
<1>7. CASE LdUnloadModule
  <2>1. ASSUME NEW name \in Modules, NEW i \in Named(name),
               DisposeModule(slots[i], i)
        PROVE  UnloadInv'
    <3>1. i \in 0 .. count - 1 /\ slots[i] # NULL
      BY <2>1 DEF Named, BadAccess
    <3>2. slots[i] \in Objs
      BY <3>1, BoundsAssumption DEF RegistryInv, TypeOK, ObjsOrNull
    <3>3. QED
      BY <1>3, <2>1, <3>2 DEF DisposeModule, ReleaseRo, ClearEntry
  <2>2. QED
    BY <1>2, <1>7, <2>1, NoScanFault DEF LdUnloadModule, listVars, CallFini
<1>8. CASE LookupStep
  <2>1. Top.at \in Nat /\ Top.at < count
    BY <1>8, RunningFacts DEF LookupStep, Ops, MoreModules
  <2>2. ~BadAccess(Top.at)
    BY <2>1, NoBadAccess
  <2>3. slots[Top.at] \in Listed
    BY <2>1, <2>2, BoundsAssumption
       DEF BadAccess, RegistryInv, TypeOK, Listed, ObjsOrNull
  <2>4. ResolveMayFault(slots[Top.at]) => ListedWithoutTable
    BY <2>3, SearchFaultCause
       DEF ResolveMayFault, ResolveMustFault, ListedWithoutTable
  <2>5. CASE /\ ResolveMayFault(slots[Top.at])
             /\ fault' = "nullDeref" /\ UNCHANGED <<slots, image>>
    BY <1>15, <2>4, <2>5 DEF Faults
  <2>6. QED
    BY <1>2, <1>8, <2>2, <2>5
       DEF LookupStep, EnsureModuleInitialized, listVars, objVars, MoreModules,
       IsInitialized
<1>9. CASE LookupReturn
  <2>1. CASE Return
    BY <1>2, <2>1 DEF Return, listVars
  <2>2. ASSUME NEW s, NEW inMain, SearchFaults(Matches(s, inMain), inMain),
               Crash("nullDeref")
        PROVE  UnloadInv'
    BY <1>15, <2>2, SearchFaultCause DEF Crash, Faults, listVars, objVars
  <2>3. QED
    BY <1>9, <2>1, <2>2 DEF LookupReturn
<1>10. CASE UnloadAllStep
  <2>1. Top.at \in Nat /\ Top.at < count
    BY <1>10, RunningFacts DEF UnloadAllStep, Ops, MoreModules
  <2>2. ~(Top.at >= Capacity)
    BY <2>1, NoBadAccess DEF Capacity, RegistryInv, TypeOK
  <2>3. slots[Top.at] \in ObjsOrNull
    BY <2>1, BoundsAssumption DEF RegistryInv, TypeOK
  <2>4. QED
    BY <1>2, <1>3, <1>10, <2>2, <2>3
       DEF UnloadAllStep, DisposeModule, listVars, ObjsOrNull, MoreModules,
       ReleaseRo, ClearEntry
<1>11. CASE UnloadAllReturn \/ ExitReturn
  BY <1>2, <1>11 DEF UnloadAllReturn, ExitReturn, Return, listVars,
     MoreModules, CloseSession
<1>12. CASE CallbackReturns
  <2>1. Top.mod \in Objs /\ mstate[Top.mod] # "freed"
    BY <1>12, TopFacts
       DEF CallbackReturns, InitReturn, FiniReturn, RegistryInv, TypeOK,
           ObjsOrNull, Unloaded
  <2>2. QED
    BY <1>2, <1>3, <1>12, <2>1
       DEF CallbackReturns, InitReturn, FiniReturn, DisposeModule, listVars,
       ReleaseRo, ClearEntry
<1>13. CASE Crashed
  BY <1>2, <1>13 DEF Crashed, vars, listVars
<1>14. QED
  BY <1>4, <1>5, <1>6, <1>7, <1>8, <1>9, <1>10, <1>11, <1>12, <1>13
     DEF Next, ClientCalls, LibrarySteps

(* Loads, failed loads, lookups and failed initializations, nested in any  *)
(* way, never lead the library to a memory error of their own: one needs   *)
(* an unload, a list without entries, or an image without a hash table.    *)
THEOREM LdFaultHasCause == Spec => []FaultHasCause
<1>1. Init => UnloadInv
  BY DEF Init, UnloadInv, NoHole
<1>2. RegistryInv /\ UnloadInv /\ [Next]_vars => UnloadInv'
  <2>1. ASSUME UnloadInv, UNCHANGED vars PROVE UnloadInv'
    BY <2>1 DEF UnloadInv, Unloaded, NoHole, NoEntries, ListedWithoutTable,
       Listed, HasNoTable, vars, listVars, objVars
  <2>2. QED
    BY <2>1, UnloadInvNext
<1>3. UnloadInv => FaultHasCause
  BY DEF UnloadInv, Unloaded, NoEntries, ListedWithoutTable, FaultHasCause
<1>4. QED
  BY <1>1, <1>2, <1>3, RegistryInvariant, PTL DEF Spec
-----------------------------------------------------------------------------
(* What ldr:ro maps and has registered, against the list.                  *)

RoInv ==
    /\ \A o \in Listed : IsNro(o) => o \in mapped \cap registered \cap nrrBuf
    /\ NothingOutlivesItsModule

LEMMA ListedStatesOnly ==
    ASSUME RegistryInv, NEW o \in Listed
    PROVE  o \in Objs /\ mstate[o] \in ListedStates /\ initialized
BY ObjsAssumption DEF RegistryInv, ListInv, Listed, Indices

LEMMA RoIdle ==
    ASSUME RoInv, UNCHANGED <<slots, mstate, image, roVars>>
    PROVE  RoInv'
BY DEF RoInv, Listed, IsNro, NothingOutlivesItsModule, roVars

LEMMA RoAdvance ==
    ASSUME RegistryInv, RoInv, NEW o \in Listed, NEW st \in ListedStates,
           mstate' = [mstate EXCEPT ![o] = st],
           UNCHANGED <<slots, image, roVars>>
    PROVE  RoInv'
<1>1. o \in Objs /\ mstate[o] \notin {"Invalid", "freed"}
  BY ListedStatesOnly DEF ListedStates
<1>2. Listed' = Listed
  BY DEF Listed
<1>3. mstate'[o] # "Invalid" /\ \A p \in Objs : p # o => mstate'[p] = mstate[p]
  BY <1>1 DEF RegistryInv, TypeOK, ListedStates
<1>4. QED
  BY <1>1, <1>2, <1>3
     DEF RoInv, IsNro, NothingOutlivesItsModule,
         roVars, RegistryInv, TypeOK

LEMMA RoDispose ==
    ASSUME RegistryInv, RoInv, NEW i \in Indices, NEW o \in Objs,
           slots[i] = o, DisposeModule(o, i)
    PROVE  RoInv'
<1> USE DEF DisposeModule, ClearEntry
<1>1. \A j \in Indices : slots'[j] = IF j = i THEN NULL ELSE slots[j]
  BY DEF RegistryInv, TypeOK, Indices
<1>2. \A j \in Indices : j # i => slots[j] # o
  BY ObjsAssumption DEF RegistryInv, ListInv
<1>3. Listed' = Listed \ {o}
  BY <1>1, <1>2, ObjsAssumption DEF Listed, Indices
<1>4. mstate'[o] = "freed" /\ \A p \in Objs : p # o => mstate'[p] = mstate[p]
  BY DEF RegistryInv, TypeOK
<1>5. /\ mapped \ {o} \subseteq mapped' /\ mapped' \subseteq mapped
      /\ registered \ {o} \subseteq registered' /\ registered' \subseteq registered
      /\ nrrBuf' = nrrBuf \ {o}
      /\ refused \subseteq refused'
      /\ o \in mapped' \cup registered' => o \in refused'
      /\ UNCHANGED image
  BY DEF ReleaseRo, MayStay, RecordRefused
<1>6. Listed \subseteq Objs
  BY DEF Listed
<1>7. \A p \in Listed' : IsNro(p)' =>
          p \in mapped' \cap registered' \cap nrrBuf'
  BY <1>3, <1>5, <1>6 DEF RoInv, IsNro
<1>8. ASSUME NEW p \in mapped' \cup registered'
      PROVE  \/ p \in Listed'
             \/ mstate'[p] = "Invalid"
             \/ mstate'[p] = "freed" /\ p \in refused'
  <2>1. p \in Objs
    BY <1>5, <1>8 DEF RegistryInv, TypeOK
  <2>2. CASE p = o
    BY <1>4, <1>5, <1>8, <2>2
  <2>3. CASE p # o
    BY <1>3, <1>4, <1>5, <1>8, <2>1, <2>3 DEF RoInv, NothingOutlivesItsModule
  <2>4. QED
    BY <2>2, <2>3
<1>9. ASSUME NEW p \in nrrBuf'
      PROVE  p \in Listed' \/ mstate'[p] = "Invalid"
  BY <1>3, <1>4, <1>5, <1>9
     DEF RoInv, NothingOutlivesItsModule, RegistryInv, TypeOK
<1>10. QED
  BY <1>7, <1>8, <1>9 DEF RoInv, NothingOutlivesItsModule

LEMMA RoAbandon ==
    ASSUME RegistryInv, RoInv, NEW o \in Objs, mstate[o] = "unused",
           mstate' = [mstate EXCEPT ![o] = "Invalid"],
           UNCHANGED <<slots, image, refused>>,
           mapped' \in {mapped, mapped \cup {o}},
           registered' \in {registered, registered \cup {o}},
           nrrBuf' \in {nrrBuf, nrrBuf \cup {o}}
    PROVE  RoInv'
<1>1. Listed' = Listed /\ o \notin Listed
  BY ListedStatesOnly DEF Listed, ListedStates
<1>2. /\ mstate'[o] = "Invalid"
      /\ \A p \in Objs : p # o => mstate'[p] = mstate[p]
  BY DEF RegistryInv, TypeOK
<1>3. Listed \subseteq Objs
  BY DEF Listed
<1>4. QED
  BY <1>1, <1>2, <1>3
     DEF RoInv, IsNro, NothingOutlivesItsModule,
         RegistryInv, TypeOK

LEMMA RoAppend ==
    ASSUME RegistryInv, RoInv, NEW o \in Objs, mstate[o] = "unused",
           count \in Indices, slots' = [slots EXCEPT ![count] = o],
           mstate' = [mstate EXCEPT ![o] = "Loaded"], NEW img \in Modules,
           image' = [image EXCEPT ![o] = img],
           IF img = Main
           THEN UNCHANGED roVars
           ELSE /\ mapped' = mapped \cup {o}
                /\ registered' = registered \cup {o}
                /\ nrrBuf' = nrrBuf \cup {o}
                /\ UNCHANGED refused
    PROVE  RoInv'
<1>1. Listed' = Listed \cup {o}
  <2>1. \A j \in Indices : slots'[j] = IF j = count THEN o ELSE slots[j]
    BY DEF RegistryInv, TypeOK, Indices
  <2>2. slots[count] = NULL
    BY DEF RegistryInv, TypeOK, ListInv
  <2>3. QED
    BY <2>1, <2>2, ObjsAssumption DEF Listed, Indices
<1>2. /\ mstate'[o] = "Loaded" /\ image'[o] = img
      /\ \A p \in Objs : p # o => mstate'[p] = mstate[p] /\ image'[p] = image[p]
  BY DEF RegistryInv, TypeOK
<1>3. Listed \subseteq Objs
  BY DEF Listed
<1>4. o \notin Listed /\ o \notin mapped \cup registered \cup nrrBuf
  BY ListedStatesOnly DEF ListedStates, RoInv, NothingOutlivesItsModule
<1>5. QED
  BY <1>1, <1>2, <1>3, <1>4
     DEF RoInv, IsNro, NothingOutlivesItsModule,
         RegistryInv, TypeOK, roVars

LEMMA RoNext ==
    ASSUME RegistryInv, RoInv, Next
    PROVE  RoInv'
<1>1. ASSUME UNCHANGED <<slots, mstate, image, roVars>> PROVE RoInv'
  BY <1>1, RoIdle
<1>2. CASE LdInitialize
  <2>1. ASSUME NEW n \in 0 .. MaxSlots, NEW failure \in InitFailures,
               InitFailsEarly(n, failure)
        PROVE  RoInv'
    <3>1. slots' = slots
      BY <1>2, <2>1 DEF LdInitialize, InitFailsEarly, RegistryInv, TypeOK,
                        ListInv, EmptySlots, Indices
    <3>2. QED
      BY <1>1, <2>1, <3>1 DEF InitFailsEarly, objVars
  <2>2. ASSUME NEW n \in 0 .. MaxSlots, NEW o \in Objs, InitLoadsMain(n, o)
        PROVE  RoInv'
    <3>1. slots = EmptySlots
      BY <1>2 DEF LdInitialize, RegistryInv, TypeOK, ListInv, EmptySlots,
         Indices
    <3>2. CASE MainStoredPastTheEnd(n)
      BY <1>1, <2>2, <3>1, <3>2 DEF InitLoadsMain, MainStoredPastTheEnd
    <3>3. CASE MainRejected(o)
      BY <2>2, <3>1, <3>3, RoAbandon
         DEF InitLoadsMain, MainRejected, AbandonModule, roVars
    <3>4. CASE MainAccepted(n, o)
      <4>1. count \in Indices
        BY <3>4, BoundsAssumption DEF MainAccepted, RegistryInv, TypeOK, Indices
      <4>2. QED
        BY <2>2, <3>1, <3>4, <4>1, RoAppend
           DEF InitLoadsMain, MainAccepted, AppendModule, Modules
    <3>5. QED
      BY <2>2, <3>2, <3>3, <3>4 DEF InitLoadsMain
  <2>3. QED
    BY <1>2, <2>1, <2>2 DEF LdInitialize
<1>3. CASE LdLoadModuleFromNro
  <2>1. PICK o \in Objs, img \in Images,
             outcome \in {"prepared"} \cup (PrepareFailures \cap Failures) :
            /\ mstate[o] = "unused"
            /\ PrepareNroModule(o, outcome)
            /\ IF outcome = "prepared" /\ img \notin Malformed
               THEN AppendModule(o, img, slots)
               ELSE AbandonModule(o) /\ UNCHANGED slots
    BY <1>3 DEF LdLoadModuleFromNro, HasRoom, Accepted
  <2>3. img \in Modules /\ img # Main
    BY ImagesAssumption DEF Modules
  <2>4. CASE outcome = "prepared" /\ img \notin Malformed
    <3>1. count \in Indices
      BY <1>3, BoundsAssumption
         DEF LdLoadModuleFromNro, RegistryInv, TypeOK, Indices, HasRoom,
         Accepted
    <3>2. QED
      BY <2>1, <2>3, <2>4, <3>1, RoAppend DEF AppendModule, PrepareNroModule
  <2>5. CASE ~(outcome = "prepared" /\ img \notin Malformed)
    <3>1. AbandonModule(o) /\ UNCHANGED slots
      BY <2>1, <2>5
    <3>2. /\ mapped' \in {mapped, mapped \cup {o}}
          /\ registered' \in {registered, registered \cup {o}}
          /\ nrrBuf' \in {nrrBuf, nrrBuf \cup {o}}
          /\ UNCHANGED refused
      BY <2>1 DEF PrepareNroModule
    <3>3. QED
      BY <2>1, <3>1, <3>2, RoAbandon DEF AbandonModule
  <2>6. QED
    BY <2>4, <2>5
<1>4. CASE LdLookupGlobalSymbol \/ LdUnloadAllModules \/ LdExit
  BY <1>1, <1>4
     DEF LdLookupGlobalSymbol, LdUnloadAllModules, LdExit, listVars, objVars
<1>5. CASE LdUnloadModule
  <2>1. ASSUME NEW name \in Modules, NEW i \in Named(name),
               DisposeModule(slots[i], i)
        PROVE  RoInv'
    <3>1. i \in Indices /\ slots[i] \in Objs
      BY <2>1, BoundsAssumption
         DEF Named, BadAccess, RegistryInv, TypeOK, Indices, ObjsOrNull
    <3>2. QED
      BY <2>1, <3>1, RoDispose
  <2>2. QED
    BY <1>1, <1>5, <2>1 DEF LdUnloadModule, Crash, listVars, objVars, CallFini
<1>6. CASE LookupStep
  <2>1. CASE Crash(AccessFault(Top.at))
    BY <1>1, <2>1 DEF Crash, listVars, objVars
  <2>2. CASE /\ ~BadAccess(Top.at) /\ EnsureModuleInitialized(slots[Top.at])
             /\ UNCHANGED <<listVars, roVars, refVars>>
    <3>1. Top.at \in Nat /\ Top.at < count
      BY <1>6, RunningFacts DEF LookupStep, Ops, MoreModules
    <3>2. slots[Top.at] \in Listed
      BY <2>2, <3>1, BoundsAssumption
         DEF BadAccess, RegistryInv, TypeOK, Listed, ObjsOrNull
    <3>3. UNCHANGED <<slots, image, roVars>>
      BY <2>2 DEF EnsureModuleInitialized, listVars, objVars, IsInitialized
    <3>4. \/ UNCHANGED mstate
          \/ \E st \in ListedStates :
                mstate' = [mstate EXCEPT ![slots[Top.at]] = st]
      BY <2>2 DEF EnsureModuleInitialized, ListedStates, objVars, IsInitialized
    <3>5. QED
      BY <1>1, <3>2, <3>3, <3>4, RoAdvance
  <2>3. QED
    BY <1>6, <2>1, <2>2 DEF LookupStep, MoreModules
<1>7. CASE LookupReturn \/ UnloadAllReturn \/ ExitReturn \/ Crashed
  BY <1>1, <1>7 DEF LookupReturn, UnloadAllReturn, ExitReturn, Crashed, Return,
     Crash, listVars, objVars, vars, MoreModules, CloseSession
<1>8. CASE UnloadAllStep
  <2>1. Top.at \in Nat /\ Top.at < count
    BY <1>8, RunningFacts DEF UnloadAllStep, Ops, MoreModules
  <2>2. Top.at \in Indices /\ slots[Top.at] \in ObjsOrNull
    BY <2>1, BoundsAssumption DEF RegistryInv, TypeOK, Indices
  <2>3. QED
    BY <1>1, <1>8, <2>2, RoDispose
       DEF UnloadAllStep, Crash, listVars, objVars, ObjsOrNull, MoreModules
<1>9. CASE InitReturn
  <2>1. CASE mstate[Top.mod] = "freed"
    BY <1>1, <1>9, <2>1 DEF InitReturn, Crash, listVars, objVars
  <2>2. CASE mstate[Top.mod] # "freed"
    <3>1. Top.mod \in Listed
      BY <1>9, <2>2, WaitingFacts DEF InitReturn, Listed, Indices
    <3>2. QED
      BY <1>9, <2>2, <3>1, RoAdvance DEF InitReturn, ListedStates, listVars
  <2>3. QED
    BY <2>1, <2>2
<1>10. CASE FiniReturn
  <2>1. CASE mstate[Top.mod] = "freed"
    BY <1>1, <1>10, <2>1 DEF FiniReturn, Crash, listVars, objVars
  <2>2. CASE mstate[Top.mod] # "freed"
    BY <1>10, <2>2, WaitingFacts, RoDispose DEF FiniReturn
  <2>3. QED
    BY <2>1, <2>2
<1>11. QED
  BY <1>2, <1>3, <1>4, <1>5, <1>6, <1>7, <1>8, <1>9, <1>10
     DEF Next, ClientCalls, LibrarySteps, CallbackReturns

LEMMA RoInvariant == Spec => [](RegistryInv /\ RoInv)
<1>1. Init => RoInv
  BY ObjsAssumption
     DEF Init, RoInv, Listed, EmptySlots, NothingOutlivesItsModule
<1>2. RegistryInv /\ RoInv /\ [Next]_vars => RoInv'
  BY RoNext, RoIdle DEF vars, listVars, objVars
<1>3. QED
  BY <1>1, <1>2, RegistryInvariant, PTL DEF Spec

(* A module that can be found is alive, and ldr:ro maps it and has its     *)
(* NRR registered, on an open session (ld.c, 699-751).                     *)
THEOREM LdListedIsBacked == Spec => []ListedIsBacked
<1>1. RegistryInv /\ RoInv => ListedIsBacked
  <2> SUFFICES ASSUME RegistryInv, RoInv PROVE ListedIsBacked
    OBVIOUS
  <2>1. initialized => ldroRef > lostRefs
    BY DEF RegistryInv, TypeOK, SessionBalance
  <2>2. QED
    BY <2>1, ListedStatesOnly DEF RoInv, ListedIsBacked
<1>2. QED
  BY <1>1, RoInvariant, PTL

(* Whatever is nested in a disposal, it leaves nothing mapped, registered  *)
(* or allocated behind but what ldr:ro refused to give up, or a failed     *)
(* load left (ld.c, 733-751).                                              *)
THEOREM LdNothingOutlivesItsModule == Spec => []NothingOutlivesItsModule
BY RoInvariant, PTL DEF RoInv
-----------------------------------------------------------------------------
(* g_ModuleCount against the modules ever loaded.                          *)

EverLoaded == {o \in Objs : mstate[o] \notin {"unused", "Invalid"}}

LEMMA EverLoadedKept ==
    ASSUME RegistryInv, NEW o \in Objs, mstate[o] \in ListedStates,
           NEW st \in ListedStates \cup {"freed"},
           mstate' = [mstate EXCEPT ![o] = st]
    PROVE  EverLoaded' = EverLoaded
<1>1. \A p \in Objs : mstate'[p] = IF p = o THEN st ELSE mstate[p]
  BY DEF RegistryInv, TypeOK
<1>2. QED
  BY <1>1 DEF EverLoaded, ListedStates

LEMMA EverLoadedAbandon ==
    ASSUME RegistryInv, NEW o \in Objs, mstate[o] = "unused",
           mstate' = [mstate EXCEPT ![o] = "Invalid"]
    PROVE  EverLoaded' = EverLoaded
<1>1. \A p \in Objs : mstate'[p] = IF p = o THEN "Invalid" ELSE mstate[p]
  BY DEF RegistryInv, TypeOK
<1>2. QED
  BY <1>1 DEF EverLoaded

LEMMA EverLoadedAppend ==
    ASSUME RegistryInv, NEW o \in Objs, mstate[o] = "unused",
           mstate' = [mstate EXCEPT ![o] = "Loaded"]
    PROVE  Cardinality(EverLoaded') = Cardinality(EverLoaded) + 1
<1>1. \A p \in Objs : mstate'[p] = IF p = o THEN "Loaded" ELSE mstate[p]
  BY DEF RegistryInv, TypeOK
<1>2. EverLoaded' = EverLoaded \cup {o} /\ o \notin EverLoaded
  BY <1>1 DEF EverLoaded
<1>3. IsFiniteSet(EverLoaded)
  BY ObjsAssumption, FS_Subset DEF EverLoaded
<1>4. QED
  BY <1>2, <1>3, FS_AddElement

LEMMA CountNext ==
    ASSUME RegistryInv, CountIsLoads, Next
    PROVE  CountIsLoads'
<1>1. ASSUME UNCHANGED count, EverLoaded' = EverLoaded PROVE CountIsLoads'
  BY <1>1 DEF CountIsLoads, EverLoaded
<1>2. ASSUME UNCHANGED <<count, mstate>> PROVE CountIsLoads'
  BY <1>2 DEF CountIsLoads
<1>3. ASSUME NEW o \in Objs, mstate[o] = "unused", count' = count + 1,
             mstate' = [mstate EXCEPT ![o] = "Loaded"]
      PROVE  CountIsLoads'
  BY <1>3, EverLoadedAppend DEF CountIsLoads, EverLoaded
<1>4. ASSUME NEW o \in Objs, mstate[o] = "unused", UNCHANGED count,
             mstate' = [mstate EXCEPT ![o] = "Invalid"]
      PROVE  CountIsLoads'
  BY <1>1, <1>4, EverLoadedAbandon
<1>5. ASSUME NEW o \in Objs, mstate[o] \in ListedStates, UNCHANGED count,
             NEW st \in ListedStates \cup {"freed"},
             mstate' = [mstate EXCEPT ![o] = st]
      PROVE  CountIsLoads'
  BY <1>1, <1>5, EverLoadedKept
<1>6. \A i \in Indices : slots[i] # NULL =>
          slots[i] \in Objs /\ mstate[slots[i]] \in ListedStates
  BY DEF RegistryInv, TypeOK, ListInv, Indices, ObjsOrNull
<1>7. CASE LdInitialize
  BY <1>2, <1>3, <1>4, <1>7
     DEF LdInitialize, InitFailsEarly, InitLoadsMain, MainAccepted,
         MainRejected, MainStoredPastTheEnd, AppendModule, AbandonModule, Crash, listVars, objVars, Accepted
<1>8. CASE LdLoadModuleFromNro
  BY <1>3, <1>4, <1>8
     DEF LdLoadModuleFromNro, AppendModule, AbandonModule, HasRoom, Accepted
<1>9. CASE LdLookupGlobalSymbol \/ LdUnloadAllModules \/ LdExit
  BY <1>2, <1>9
     DEF LdLookupGlobalSymbol, LdUnloadAllModules, LdExit, listVars, objVars
<1>10. CASE LdUnloadModule
  <2>1. ASSUME NEW name \in Modules, NEW i \in Named(name),
               DisposeModule(slots[i], i)
        PROVE  CountIsLoads'
    <3>1. i \in Indices /\ slots[i] # NULL
      BY <2>1, BoundsAssumption
         DEF Named, BadAccess, RegistryInv, TypeOK, Indices
    <3>2. QED
      BY <1>5, <1>6, <2>1, <3>1 DEF DisposeModule, ReleaseRo, ClearEntry
  <2>2. QED
    BY <1>2, <1>10, <2>1 DEF LdUnloadModule, Crash, listVars, objVars, CallFini
<1>11. CASE LookupStep
  <2>1. CASE Crash(AccessFault(Top.at))
    BY <1>2, <2>1 DEF Crash, listVars, objVars
  <2>2. CASE /\ ~BadAccess(Top.at) /\ EnsureModuleInitialized(slots[Top.at])
             /\ UNCHANGED listVars
    <3>1. Top.at \in Nat /\ Top.at < count
      BY <1>11, RunningFacts DEF LookupStep, Ops, MoreModules
    <3>2. Top.at \in Indices /\ slots[Top.at] # NULL
      BY <2>2, <3>1, BoundsAssumption
         DEF BadAccess, RegistryInv, TypeOK, Indices
    <3>3. \/ UNCHANGED mstate
          \/ \E st \in ListedStates :
                mstate' = [mstate EXCEPT ![slots[Top.at]] = st]
      BY <2>2 DEF EnsureModuleInitialized, ListedStates, objVars, IsInitialized
    <3>4. QED
      BY <1>2, <1>5, <1>6, <2>2, <3>2, <3>3 DEF listVars
  <2>3. QED
    BY <1>11, <2>1, <2>2 DEF LookupStep, MoreModules
<1>12. CASE LookupReturn \/ UnloadAllReturn \/ ExitReturn \/ Crashed
  BY <1>2, <1>12
     DEF LookupReturn, UnloadAllReturn, ExitReturn, Crashed, Return, Crash,
         listVars, objVars, vars, MoreModules, CloseSession
<1>13. CASE UnloadAllStep
  <2>1. Top.at \in Nat /\ Top.at < count
    BY <1>13, RunningFacts DEF UnloadAllStep, Ops, MoreModules
  <2>2. Top.at \in Indices
    BY <2>1, BoundsAssumption DEF RegistryInv, TypeOK, Indices
  <2>3. QED
    BY <1>2, <1>5, <1>6, <1>13, <2>2
       DEF UnloadAllStep, DisposeModule, Crash, listVars, objVars,
       MoreModules, ReleaseRo, ClearEntry
<1>14. CASE CallbackReturns
  <2>1. CASE mstate[Top.mod] = "freed"
    BY <1>2, <1>14, <2>1
       DEF CallbackReturns, InitReturn, FiniReturn, Crash, listVars, objVars
  <2>2. CASE mstate[Top.mod] # "freed"
    <3>1. Top.mod \in Objs /\ mstate[Top.mod] \in ListedStates
      BY <1>6, <1>14, <2>2, WaitingFacts, ObjsAssumption
         DEF CallbackReturns, InitReturn, FiniReturn
    <3>2. QED
      BY <1>5, <1>14, <2>2, <3>1
         DEF CallbackReturns, InitReturn, FiniReturn, DisposeModule,
             ListedStates, listVars, ReleaseRo, ClearEntry
  <2>3. QED
    BY <2>1, <2>2
<1>15. QED
  BY <1>7, <1>8, <1>9, <1>10, <1>11, <1>12, <1>13, <1>14
     DEF Next, ClientCalls, LibrarySteps

(* An entry of the module list is never used twice: the count is that of   *)
(* all modules ever loaded, across unloads and ldExit (ld.c, 665 and 729). *)
THEOREM LdCountIsLoads == Spec => []CountIsLoads
<1>1. Init => CountIsLoads
  <2> SUFFICES ASSUME Init PROVE CountIsLoads
    OBVIOUS
  <2>1. {o \in Objs : mstate[o] \notin {"unused", "Invalid"}} = {}
    BY DEF Init
  <2>2. QED
    BY <2>1, FS_EmptySet DEF Init, CountIsLoads
<1>2. RegistryInv /\ CountIsLoads /\ [Next]_vars => CountIsLoads'
  <2>1. ASSUME CountIsLoads, UNCHANGED vars PROVE CountIsLoads'
    BY <2>1 DEF CountIsLoads, vars, listVars, objVars
  <2>2. QED
    BY <2>1, CountNext
<1>3. QED
  BY <1>1, <1>2, RegistryInvariant, PTL DEF Spec
-----------------------------------------------------------------------------
(* Without nested calls the module a callback belongs to stays alive.      *)

FlatInv ==
    fault # "useAfterFree" /\ (Len(stack) > 0 => Live(Top))

LEMMA FlatNext ==
    ASSUME RegistryInv, MaxDepth = 1, FlatInv, Next
    PROVE  FlatInv'
<1> USE DEF FlatInv
<1>1. stack \in Seq(Frames) /\ Len(stack) \in Nat /\ Len(stack) <= 1
  BY LenProperties DEF RegistryInv, TypeOK
<1>2. ASSUME NEW k \in Faults, k # "useAfterFree", Crash(k) PROVE FlatInv'
  BY <1>2 DEF Crash, Live, Top, listVars, objVars
<1>3. ASSUME UNCHANGED <<stack, fault>>, Len(stack) = 0 PROVE FlatInv'
  BY <1>3
<1>4. ASSUME NEW fr \in Frames, Push(fr), UNCHANGED fault, Len(stack) = 0,
             fr.mod # NULL => mstate'[fr.mod] # "freed"
      PROVE  FlatInv'
  <2>1. Len(stack') = 1 /\ stack'[1] = fr
    BY <1>1, <1>4, PushFacts
  <2>2. QED
    BY <1>4, <2>1 DEF Live, Top
<1>5. ASSUME Pop, UNCHANGED fault, Len(stack) > 0 PROVE FlatInv'
  <2>1. Len(stack') = 0
    BY <1>1, <1>5, PopFacts
  <2>2. QED
    BY <1>5, <2>1
<1>6. ASSUME NEW fr \in Frames, ReplaceTop(fr), UNCHANGED fault,
             Len(stack) > 0, fr.mod # NULL => mstate'[fr.mod] # "freed"
      PROVE  FlatInv'
  <2>1. Len(stack') = Len(stack) /\ stack'[Len(stack)] = fr
    BY <1>1, <1>6, ReplaceTopFacts
  <2>2. QED
    BY <1>6, <2>1 DEF Live, Top
<1>7. ASSUME ReplaceTop(NextModule), UNCHANGED fault, Len(stack) > 0
      PROVE  FlatInv'
  <2>1. PICK fr \in Frames : fr = NextModule /\ fr.mod = NULL
    BY <1>1, <1>7, NextModuleFacts
  <2>2. QED
    BY <1>6, <1>7, <2>1
<1>8. ASSUME NEW o \in Objs, EnterCallback(o), UNCHANGED fault,
             Len(stack) > 0, mstate'[o] # "freed"
      PROVE  FlatInv'
  <2>1. Top.op \in Ops /\ Top.at \in Nat
    BY <1>1, <1>8, TopFacts
  <2>2. PICK fr \in Frames : fr = [op |-> Top.op, at |-> Top.at, mod |-> o]
    BY <2>1 DEF Frames, ObjsOrNull
  <2>3. QED
    BY <1>6, <1>8, <2>2 DEF EnterCallback
<1>9. ClientRuns => Len(stack) = 0
  BY <1>1 DEF ClientRuns
<1>10. \A i \in Indices : slots[i] # NULL =>
          slots[i] \in Objs /\ mstate[slots[i]] # "freed"
  BY DEF RegistryInv, TypeOK, ListInv, Indices, ObjsOrNull, ListedStates
<1>11. CASE LdInitialize
  BY <1>2, <1>3, <1>9, <1>11
     DEF LdInitialize, InitFailsEarly, InitLoadsMain, MainAccepted,
         MainRejected, MainStoredPastTheEnd, Faults
<1>12. CASE LdLoadModuleFromNro
  BY <1>3, <1>9, <1>12 DEF LdLoadModuleFromNro, HasRoom, Accepted
<1>13. CASE LdLookupGlobalSymbol \/ LdUnloadAllModules \/ LdExit
  <2>1. \A op \in Ops : [op |-> op, at |-> 0, mod |-> NULL] \in Frames
    BY DEF Frames, ObjsOrNull
  <2>2. QED
    BY <1>4, <1>9, <1>13, <2>1
       DEF LdLookupGlobalSymbol, LdUnloadAllModules, LdExit, Ops
<1>14. CASE LdUnloadModule
  <2>1. ASSUME NEW name \in Modules, NEW i \in Named(name),
               Push([op |-> "unload", at |-> i, mod |-> slots[i]]),
               UNCHANGED <<mstate, fault>>
        PROVE  FlatInv'
    <3>1. i \in Nat /\ i \in Indices /\ slots[i] # NULL
      BY <2>1, BoundsAssumption
         DEF Named, BadAccess, RegistryInv, TypeOK, Indices
    <3>2. PICK fr \in Frames :
                 fr = [op |-> "unload", at |-> i, mod |-> slots[i]]
      BY <1>10, <3>1 DEF Frames, Ops, ObjsOrNull
    <3>3. QED
      BY <1>4, <1>9, <1>10, <1>14, <2>1, <3>1, <3>2 DEF LdUnloadModule,
         CallFini
  <2>2. QED
    BY <1>2, <1>3, <1>9, <1>14, <2>1
       DEF LdUnloadModule, DisposeModule, Faults, objVars, CallFini,
       ReleaseRo, ClearEntry
<1>15. CASE LookupStep
  <2>1. Top.at \in Nat /\ Top.at < count /\ Len(stack) > 0
    BY <1>15, RunningFacts DEF LookupStep, Ops, MoreModules
  <2>2. CASE Crash(AccessFault(Top.at))
    BY <1>2, <2>2 DEF AccessFault, Faults
  <2>3. CASE ~BadAccess(Top.at) /\ EnsureModuleInitialized(slots[Top.at])
             /\ UNCHANGED listVars
    <3>1. slots[Top.at] \in Objs /\ mstate[slots[Top.at]] # "freed"
      BY <1>10, <2>1, <2>3, BoundsAssumption
         DEF BadAccess, RegistryInv, TypeOK, Indices
    <3>2. mstate'[slots[Top.at]] # "freed"
      BY <2>3, <3>1 DEF EnsureModuleInitialized, objVars, RegistryInv, TypeOK,
         IsInitialized
    <3>3. CASE fault' = "nullDeref" /\ UNCHANGED <<objVars, stack>>
      BY <3>3 DEF Live, Top, objVars
    <3>4. QED
      BY <1>5, <1>7, <1>8, <2>1, <2>3, <3>1, <3>2, <3>3
         DEF EnsureModuleInitialized, IsInitialized
  <2>4. QED
    BY <1>15, <2>2, <2>3 DEF LookupStep, MoreModules
<1>16. CASE LookupReturn
  BY <1>2, <1>5, <1>16 DEF LookupReturn, Running, Return, Faults, MoreModules
<1>17. CASE UnloadAllReturn \/ ExitReturn
  BY <1>5, <1>17 DEF UnloadAllReturn, ExitReturn, Running, Return,
     MoreModules, CloseSession
<1>18. CASE UnloadAllStep
  <2>1. Top.at \in Nat /\ Top.at < count /\ Len(stack) > 0
    BY <1>18, RunningFacts DEF UnloadAllStep, Ops, MoreModules
  <2>2. Top.at \in Indices
    BY <2>1, BoundsAssumption DEF RegistryInv, TypeOK, Indices
  <2>3. CASE Crash(AccessFault(Top.at))
    BY <1>2, <2>3 DEF AccessFault, Faults
  <2>4. CASE ReplaceTop(NextModule) /\ UNCHANGED fault
    BY <1>7, <2>1, <2>4
  <2>5. CASE slots[Top.at] # NULL /\ EnterCallback(slots[Top.at])
             /\ UNCHANGED <<mstate, fault>>
    BY <1>8, <1>10, <2>1, <2>2, <2>5
  <2>6. QED
    BY <1>18, <2>3, <2>4, <2>5 DEF UnloadAllStep, DisposeModule, objVars,
       MoreModules, ReleaseRo, ClearEntry
<1>19. CASE CallbackReturns
  <2>1. Len(stack) > 0 /\ mstate[Top.mod] # "freed"
    BY <1>19 DEF CallbackReturns, InitReturn, FiniReturn, Live
  <2>2. QED
    BY <1>5, <1>7, <1>19, <2>1
       DEF CallbackReturns, InitReturn, FiniReturn, DisposeModule, ReleaseRo,
       ClearEntry
<1>20. CASE Crashed
  BY <1>20 DEF Crashed, vars, objVars, Live, Top
<1>21. QED
  BY <1>11, <1>12, <1>13, <1>14, <1>15, <1>16, <1>17, <1>18, <1>19, <1>20
     DEF Next, ClientCalls, LibrarySteps

(* If callbacks do not call the library back, no module is used after its  *)
(* release (ld.c, 632 and 735).                                            *)
THEOREM LdUseAfterFreeNeedsNesting == Spec => []UseAfterFreeNeedsNesting
<1>1. CASE MaxDepth = 1
  <2>1. Init => FlatInv
    BY DEF Init, FlatInv
  <2>2. RegistryInv /\ FlatInv /\ [Next]_vars => FlatInv'
    <3>1. ASSUME FlatInv, UNCHANGED vars PROVE FlatInv'
      BY <3>1 DEF FlatInv, Live, Top, vars, objVars
    <3>2. QED
      BY <1>1, <3>1, FlatNext
  <2>3. FlatInv => UseAfterFreeNeedsNesting
    BY DEF FlatInv, UseAfterFreeNeedsNesting
  <2>4. QED
    BY <2>1, <2>2, <2>3, RegistryInvariant, PTL DEF Spec
<1>2. CASE MaxDepth # 1
  <2>1. UseAfterFreeNeedsNesting
    BY <1>2, BoundsAssumption DEF UseAfterFreeNeedsNesting
  <2>2. QED
    BY <2>1, PTL
<1>3. QED
  BY <1>1, <1>2
-----------------------------------------------------------------------------
(* Bindings.  In an initialized library a search for s meets the modules   *)
(* of the list that export s, whatever their state; this set changes only  *)
(* when the list does.                                                     *)

Exporters(s) ==
    {i \in Indices : slots[i] # NULL /\ s \in Exports[image[slots[i]]]}
FirstExporter(o, s) ==
    \E i \in Exporters(s) : IsFirst(i, Exporters(s)) /\ slots[i] = o

BoundToFirst(o, s) ==
    /\ binds[o][s] \in Objs
    /\ mstate[binds[o][s]] = "freed" \/ FirstExporter(binds[o][s], s)

BindInv ==
    \A o \in Listed : \A s \in Symbols :
        mstate[o] # "Loaded" /\ s \in Needs[image[o]] => BoundToFirst(o, s)

LEMMA MatchesAreExporters ==
    ASSUME RegistryInv, initialized, NEW s
    PROVE  Matches(s, TRUE) = Exporters(s)
BY BoundsAssumption
   DEF RegistryInv, TypeOK, ListInv, Indices, Matches, Exporters, BadAccess,
       Capacity, Searchable

(* A search that matches anything has a first match. *)
LEMMA FirstExists ==
    ASSUME NEW I \in SUBSET Nat, I # {}
    PROVE  \E i \in I : IsFirst(i, I)
<1>1. PICK i \in I : \A j \in I : <<j, i>> \notin OpToRel(<, Nat)
  BY NatLessThanWellFounded, WFMin
<1>2. \A j \in I : ~(j < i)
  BY <1>1 DEF OpToRel
<1>3. QED
  BY <1>2 DEF IsFirst

LEMMA ResolvedToFirst ==
    ASSUME RegistryInv, initialized, NEW s \in Symbols, Matches(s, TRUE) # {}
    PROVE  Provider(s) \in Objs /\ FirstExporter(Provider(s), s)
<1>1. Exporters(s) # {} /\ Exporters(s) \in SUBSET Nat
  <2>1. Exporters(s) \in SUBSET Nat
    BY BoundsAssumption DEF Exporters, Indices
  <2>2. Exporters(s) # {}
    BY MatchesAreExporters
  <2>3. QED
    BY <2>1, <2>2
<1>2. PICK i \in Exporters(s) : IsFirst(i, Exporters(s))
  BY <1>1, FirstExists
<1>3. slots[i] \in Objs
  BY DEF Exporters, Indices, RegistryInv, TypeOK, ObjsOrNull
<1>4. IsProvider(slots[i], s)
  BY <1>2, MatchesAreExporters DEF IsProvider
<1>5. Provider(s) \in Objs /\ IsProvider(Provider(s), s)
  BY <1>3, <1>4 DEF Provider
<1>6. QED
  BY <1>5, MatchesAreExporters DEF IsProvider, FirstExporter

LEMMA FirstIsProvider ==
    ASSUME RegistryInv, initialized, NEW s, NEW p \in Objs, FirstExporter(p, s)
    PROVE  p = Provider(s)
<1>1. IsProvider(p, s)
  BY MatchesAreExporters DEF IsProvider, FirstExporter
<1>2. ASSUME NEW q \in Objs, IsProvider(q, s) PROVE q = p
  <2>1. PICK i \in Exporters(s) : IsFirst(i, Exporters(s)) /\ slots[i] = p
    BY DEF FirstExporter
  <2>2. PICK j \in Exporters(s) : IsFirst(j, Exporters(s)) /\ slots[j] = q
    BY <1>2, MatchesAreExporters DEF IsProvider
  <2>3. i = j
    BY <2>1, <2>2, BoundsAssumption DEF IsFirst, Exporters, Indices
  <2>4. QED
    BY <2>1, <2>2, <2>3
<1>3. QED
  BY <1>1, <1>2 DEF Provider

LEMMA BindIdle ==
    ASSUME BindInv, UNCHANGED <<slots, objVars>>
    PROVE  BindInv'
BY DEF BindInv, BoundToFirst, FirstExporter, Exporters, Listed, objVars

LEMMA BindAdvance ==
    ASSUME RegistryInv, BindInv, NEW o \in Listed, mstate[o] # "Loaded",
           NEW st \in ListedStates, mstate' = [mstate EXCEPT ![o] = st],
           UNCHANGED <<slots, image, binds>>
    PROVE  BindInv'
<1>1. \A p \in Objs : p # o => mstate'[p] = mstate[p]
  BY DEF RegistryInv, TypeOK
<1>2. o \in Objs /\ mstate[o] # "freed" /\ Listed' = Listed
  BY ListedStatesOnly DEF Listed, ListedStates
<1>3. \A p, s : FirstExporter(p, s)' <=> FirstExporter(p, s)
  BY DEF FirstExporter, Exporters
<1>4. SUFFICES ASSUME NEW p \in Listed, NEW s \in Symbols,
                      mstate'[p] # "Loaded", s \in Needs[image[p]]
               PROVE  BoundToFirst(p, s)'
  BY <1>2 DEF BindInv
<1>5. mstate[p] # "Loaded"
  BY <1>1, <1>4 DEF Listed
<1>6. BoundToFirst(p, s)
  BY <1>4, <1>5 DEF BindInv
<1>7. mstate[binds[p][s]] = "freed" => mstate'[binds[p][s]] = "freed"
  BY <1>1, <1>2, <1>6 DEF BoundToFirst
<1>8. QED
  BY <1>3, <1>6, <1>7 DEF BoundToFirst

LEMMA BindResolve ==
    ASSUME RegistryInv, BindInv, NEW o \in Listed, Resolvable(o),
           binds' = [binds EXCEPT ![o] = ResolvedBinds(o)],
           NEW st \in ListedStates, mstate' = [mstate EXCEPT ![o] = st],
           UNCHANGED <<slots, image>>
    PROVE  BindInv'
<1>1. /\ \A p \in Objs : p # o => mstate'[p] = mstate[p] /\ binds'[p] = binds[p]
      /\ binds'[o] = ResolvedBinds(o)
  BY DEF RegistryInv, TypeOK, Listed
<1>2. o \in Objs /\ mstate[o] # "freed" /\ Listed' = Listed /\ initialized
  BY ListedStatesOnly DEF Listed, ListedStates
<1>3. \A p, s : FirstExporter(p, s)' <=> FirstExporter(p, s)
  BY DEF FirstExporter, Exporters
<1>4. SUFFICES ASSUME NEW p \in Listed, NEW s \in Symbols,
                      mstate'[p] # "Loaded", s \in Needs[image[p]]
               PROVE  BoundToFirst(p, s)'
  BY <1>2 DEF BindInv
<1>5. CASE p = o
  <2>1. Provider(s) \in Objs /\ FirstExporter(Provider(s), s)
    BY <1>2, <1>4, <1>5, ResolvedToFirst DEF Resolvable
  <2>2. binds'[p][s] = Provider(s)
    BY <1>1, <1>4, <1>5 DEF ResolvedBinds
  <2>3. QED
    BY <1>3, <2>1, <2>2 DEF BoundToFirst
<1>6. CASE p # o
  <2>1. BoundToFirst(p, s) /\ binds'[p] = binds[p]
    BY <1>1, <1>4, <1>6 DEF BindInv, Listed
  <2>2. mstate[binds[p][s]] = "freed" => mstate'[binds[p][s]] = "freed"
    BY <1>1, <1>2, <2>1 DEF BoundToFirst
  <2>3. QED
    BY <1>3, <2>1, <2>2 DEF BoundToFirst
<1>7. QED
  BY <1>5, <1>6

LEMMA BindDispose ==
    ASSUME RegistryInv, BindInv, NEW i \in Indices, NEW o \in Objs,
           slots[i] = o, DisposeModule(o, i)
    PROVE  BindInv'
<1> USE DEF DisposeModule, ClearEntry
<1>1. \A j \in Indices : slots'[j] = IF j = i THEN NULL ELSE slots[j]
  BY DEF RegistryInv, TypeOK, Indices
<1>2. \A p \in Objs : mstate'[p] = IF p = o THEN "freed" ELSE mstate[p]
  BY DEF RegistryInv, TypeOK
<1>3. \A j \in Indices : j # i => slots[j] # o
  BY ObjsAssumption DEF RegistryInv, ListInv
<1>4. Listed' \subseteq Listed \ {o}
  BY <1>1, <1>3, ObjsAssumption DEF Listed, Indices
<1>5. ASSUME NEW s, NEW p \in Objs, p # o, FirstExporter(p, s)
      PROVE  FirstExporter(p, s)'
  <2>1. PICK j \in Exporters(s) : IsFirst(j, Exporters(s)) /\ slots[j] = p
    BY <1>5 DEF FirstExporter
  <2>2. Exporters(s)' \subseteq Exporters(s)
    BY <1>1 DEF Exporters
  <2>3. j \in Exporters(s)' /\ slots'[j] = p
    BY <1>1, <1>5, <2>1 DEF Exporters
  <2>4. QED
    BY <2>1, <2>2, <2>3 DEF FirstExporter, IsFirst
<1>6. SUFFICES ASSUME NEW p \in Listed, p # o, NEW s \in Symbols,
                      mstate[p] # "Loaded", s \in Needs[image[p]]
               PROVE  BoundToFirst(p, s)'
  BY <1>2, <1>4 DEF BindInv, Listed
<1>7. BoundToFirst(p, s)
  BY <1>6 DEF BindInv
<1>8. QED
  BY <1>2, <1>5, <1>7 DEF BoundToFirst

LEMMA BindAbandon ==
    ASSUME RegistryInv, BindInv, NEW o \in Objs, mstate[o] = "unused",
           AbandonModule(o),
           UNCHANGED <<slots, binds>>
    PROVE  BindInv'
<1>1. Listed' = Listed /\ o \notin Listed
  BY ListedStatesOnly DEF Listed, ListedStates
<1>2. \A p \in Objs : p # o => mstate'[p] = mstate[p] /\ image'[p] = image[p]
  BY DEF AbandonModule, RegistryInv, TypeOK
<1>3. \A j \in Indices : slots[j] # NULL =>
          slots[j] \in Objs /\ image'[slots[j]] = image[slots[j]]
  BY <1>1, <1>2 DEF RegistryInv, TypeOK, Indices, ObjsOrNull, Listed
<1>4. \A p, s : FirstExporter(p, s)' <=> FirstExporter(p, s)
  <2>1. \A s : Exporters(s)' = Exporters(s)
    BY <1>3 DEF Exporters
  <2>2. QED
    BY <2>1 DEF FirstExporter
<1>5. QED
  BY <1>1, <1>2, <1>4 DEF BindInv, BoundToFirst, Listed

LEMMA BindAppend ==
    ASSUME RegistryInv, BindInv, NEW o \in Objs, mstate[o] = "unused",
           count \in Indices, NEW img \in Modules,
           AppendModule(o, img, slots), UNCHANGED binds
    PROVE  BindInv'
<1> USE DEF AppendModule
<1>1. \A j \in Indices : slots'[j] = IF j = count THEN o ELSE slots[j]
  BY DEF RegistryInv, TypeOK, Indices
<1>2. \A j \in Indices : slots[j] # NULL => slots[j] \in Listed /\ j < count
  BY DEF RegistryInv, TypeOK, ListInv, Indices, ObjsOrNull, Listed
<1>3. Listed' \subseteq Listed \cup {o} /\ o \notin Listed
  BY <1>1, ListedStatesOnly DEF Listed, Indices, ListedStates
<1>4. /\ mstate'[o] = "Loaded"
      /\ \A p \in Objs : p # o => mstate'[p] = mstate[p] /\ image'[p] = image[p]
  BY DEF RegistryInv, TypeOK
<1>5. ASSUME NEW s, NEW p, FirstExporter(p, s) PROVE FirstExporter(p, s)'
  <2>1. PICK j \in Exporters(s) : IsFirst(j, Exporters(s)) /\ slots[j] = p
    BY <1>5 DEF FirstExporter
  <2>2. j < count /\ slots[j] \in Listed
    BY <1>2, <2>1 DEF Exporters
  <2>3. \A k \in Indices : k # count =>
            (k \in Exporters(s)' <=> k \in Exporters(s))
    BY <1>1, <1>2, <1>3, <1>4 DEF Exporters, Listed
  <2>4. j \in Exporters(s)' /\ slots'[j] = p /\ j \in Indices
    BY <1>1, <2>1, <2>2, <2>3 DEF Exporters, Indices
  <2>5. \A k \in Exporters(s)' : j <= k
    BY <2>1, <2>2, <2>3 DEF IsFirst, Exporters, Indices, RegistryInv, TypeOK
  <2>6. QED
    BY <2>4, <2>5 DEF FirstExporter, IsFirst
<1>6. SUFFICES ASSUME NEW p \in Listed, NEW s \in Symbols,
                      mstate[p] # "Loaded", s \in Needs[image[p]]
               PROVE  BoundToFirst(p, s)'
  BY <1>3, <1>4 DEF BindInv, Listed
<1>7. BoundToFirst(p, s)
  BY <1>6 DEF BindInv
<1>8. mstate[binds[p][s]] = "freed" => mstate'[binds[p][s]] = "freed"
  BY <1>4, <1>7 DEF BoundToFirst
<1>9. QED
  BY <1>5, <1>7, <1>8 DEF BoundToFirst

LEMMA BindNext ==
    ASSUME RegistryInv, BindInv, Next
    PROVE  BindInv'
<1>1. ASSUME UNCHANGED <<slots, objVars>> PROVE BindInv'
  BY <1>1, BindIdle
<1>2. CASE LdInitialize
  <2>1. slots = EmptySlots
    BY <1>2 DEF LdInitialize, RegistryInv, TypeOK, ListInv, EmptySlots, Indices
  <2>2. ASSUME NEW n \in 0 .. MaxSlots, NEW failure \in InitFailures,
               InitFailsEarly(n, failure)
        PROVE  BindInv'
    BY <1>1, <2>1, <2>2 DEF InitFailsEarly
  <2>3. ASSUME NEW n \in 0 .. MaxSlots, NEW o \in Objs, InitLoadsMain(n, o)
        PROVE  BindInv'
    <3>1. CASE MainStoredPastTheEnd(n)
      BY <1>1, <2>1, <2>3, <3>1
         DEF InitLoadsMain, MainStoredPastTheEnd, objVars
    <3>2. CASE MainRejected(o)
      BY <2>1, <2>3, <3>2, BindAbandon DEF InitLoadsMain, MainRejected
    <3>3. CASE MainAccepted(n, o)
      <4>1. count \in Indices
        BY <3>3, BoundsAssumption DEF MainAccepted, RegistryInv, TypeOK, Indices
      <4>2. AppendModule(o, Main, slots) /\ UNCHANGED binds
        BY <2>1, <2>3, <3>3 DEF InitLoadsMain, MainAccepted
      <4>3. QED
        BY <2>3, <4>1, <4>2, BindAppend DEF InitLoadsMain, Modules
    <3>4. QED
      BY <2>3, <3>1, <3>2, <3>3 DEF InitLoadsMain
  <2>4. QED
    BY <1>2, <2>2, <2>3 DEF LdInitialize
<1>3. CASE LdLoadModuleFromNro
  <2>1. PICK o \in Objs, img \in Images :
            /\ mstate[o] = "unused"
            /\ \/ AppendModule(o, img, slots)
               \/ AbandonModule(o) /\ UNCHANGED slots
    BY <1>3 DEF LdLoadModuleFromNro
  <2>2. count \in Indices /\ UNCHANGED binds /\ img \in Modules
    BY <1>3, BoundsAssumption
       DEF LdLoadModuleFromNro, RegistryInv, TypeOK, Indices, HasRoom, Modules
  <2>3. QED
    BY <2>1, <2>2, BindAppend, BindAbandon
<1>4. CASE LdLookupGlobalSymbol \/ LdUnloadAllModules \/ LdExit
  BY <1>1, <1>4 DEF LdLookupGlobalSymbol, LdUnloadAllModules, LdExit, listVars
<1>5. CASE LdUnloadModule
  <2>1. ASSUME NEW name \in Modules, NEW i \in Named(name),
               DisposeModule(slots[i], i)
        PROVE  BindInv'
    <3>1. i \in Indices /\ slots[i] \in Objs
      BY <2>1, BoundsAssumption
         DEF Named, BadAccess, RegistryInv, TypeOK, Indices, ObjsOrNull
    <3>2. QED
      BY <2>1, <3>1, BindDispose
  <2>2. QED
    BY <1>1, <1>5, <2>1 DEF LdUnloadModule, Crash, listVars, CallFini
<1>6. CASE LookupStep
  <2>1. CASE Crash(AccessFault(Top.at))
    BY <1>1, <2>1 DEF Crash, listVars
  <2>2. CASE /\ ~BadAccess(Top.at) /\ EnsureModuleInitialized(slots[Top.at])
             /\ UNCHANGED listVars
    <3>1. Top.at \in Nat /\ Top.at < count
      BY <1>6, RunningFacts DEF LookupStep, Ops, MoreModules
    <3>2. PICK o \in Listed : o = slots[Top.at]
      BY <2>2, <3>1, BoundsAssumption
         DEF BadAccess, RegistryInv, TypeOK, Listed, ObjsOrNull
    <3>3. CASE UNCHANGED objVars
      BY <1>1, <2>2, <3>3 DEF listVars
    <3>4. CASE /\ Resolvable(o)
               /\ binds' = [binds EXCEPT ![o] = ResolvedBinds(o)]
               /\ \E st \in ListedStates : mstate' = [mstate EXCEPT ![o] = st]
               /\ UNCHANGED image
      BY <2>2, <3>4, BindResolve DEF listVars
    <3>5. QED
      BY <2>2, <3>2, <3>3, <3>4 DEF EnsureModuleInitialized, ListedStates
  <2>3. QED
    BY <1>6, <2>1, <2>2 DEF LookupStep
<1>7. CASE LookupReturn \/ UnloadAllReturn \/ ExitReturn \/ Crashed
  BY <1>1, <1>7 DEF LookupReturn, UnloadAllReturn, ExitReturn, Crashed, Return,
     Crash, listVars, vars
<1>8. CASE UnloadAllStep
  <2>1. Top.at \in Nat /\ Top.at < count
    BY <1>8, RunningFacts DEF UnloadAllStep, Ops, MoreModules
  <2>2. Top.at \in Indices /\ slots[Top.at] \in ObjsOrNull
    BY <2>1, BoundsAssumption DEF RegistryInv, TypeOK, Indices
  <2>3. QED
    BY <1>1, <1>8, <2>2, BindDispose
       DEF UnloadAllStep, Crash, listVars, ObjsOrNull
<1>9. CASE InitReturn
  <2>1. CASE mstate[Top.mod] = "freed"
    BY <1>1, <1>9, <2>1 DEF InitReturn, Crash, listVars
  <2>2. CASE mstate[Top.mod] # "freed"
    <3>1. Top.mod \in Listed /\ mstate[Top.mod] # "Loaded"
      BY <1>9, <2>2, WaitingFacts DEF InitReturn, Listed, Indices
    <3>2. QED
      BY <1>9, <2>2, <3>1, BindAdvance DEF InitReturn, ListedStates, listVars
  <2>3. QED
    BY <2>1, <2>2
<1>10. CASE FiniReturn
  <2>1. CASE mstate[Top.mod] = "freed"
    BY <1>1, <1>10, <2>1 DEF FiniReturn, Crash, listVars
  <2>2. CASE mstate[Top.mod] # "freed"
    BY <1>10, <2>2, WaitingFacts, BindDispose DEF FiniReturn
  <2>3. QED
    BY <2>1, <2>2
<1>11. QED
  BY <1>2, <1>3, <1>4, <1>5, <1>6, <1>7, <1>8, <1>9, <1>10
     DEF Next, ClientCalls, LibrarySteps, CallbackReturns

(* A relocated module keeps the binding that a lookup would make now, as   *)
(* long as its provider lives: the search takes the first module of the    *)
(* list, and a later load only adds at the end (ld.c, 394-409 and 729).    *)
THEOREM LdLiveBindingIsFirst == Spec => []LiveBindingIsFirst
<1>1. Init => BindInv
  BY ObjsAssumption DEF Init, BindInv, Listed, EmptySlots
<1>2. RegistryInv /\ BindInv /\ [Next]_vars => BindInv'
  BY BindNext, BindIdle DEF vars, listVars
<1>3. RegistryInv /\ BindInv => LiveBindingIsFirst
  <2> SUFFICES ASSUME RegistryInv, BindInv, NEW o \in Listed,
                      NEW s \in Symbols, mstate[o] # "Loaded",
                      s \in Needs[image[o]]
               PROVE  /\ binds[o][s] # NULL
                      /\ \/ mstate[binds[o][s]] = "freed"
                         \/ binds[o][s] = Provider(s)
    BY DEF LiveBindingIsFirst
  <2>1. BoundToFirst(o, s) /\ initialized
    BY ListedStatesOnly DEF BindInv
  <2>2. QED
    BY <2>1, FirstIsProvider, ObjsAssumption DEF BoundToFirst
<1>4. QED
  BY <1>1, <1>2, <1>3, RegistryInvariant, PTL DEF Spec
-----------------------------------------------------------------------------
(* The library implements LinkMap: each change of the registry is one step *)
(* of LinkMap, and everything else is no step at all.                      *)

LEMMA MapIdle ==
    ASSUME UNCHANGED <<initialized, slots, objVars>>
    PROVE  UNCHANGED Abstract!vars
BY DEF Abstract!vars, Listed, LoadedBefore, WasLoaded, objVars

LEMMA MapAbandon ==
    ASSUME RegistryInv, NEW o \in Objs, mstate[o] = "unused",
           AbandonModule(o), UNCHANGED <<initialized, slots, binds>>
    PROVE  UNCHANGED Abstract!vars
<1>1. Listed' = Listed /\ LoadedBefore' = LoadedBefore
  BY DEF Listed, LoadedBefore
<1>2. /\ ~WasLoaded(o) /\ ~WasLoaded(o)'
      /\ \A p \in Objs : p # o =>
            /\ mstate'[p] = mstate[p] /\ image'[p] = image[p]
            /\ WasLoaded(p)' <=> WasLoaded(p)
  BY DEF AbandonModule, RegistryInv, TypeOK, WasLoaded
<1>3. /\ [p \in Objs |-> IF WasLoaded(p) THEN image[p] ELSE NULL]' =
            [p \in Objs |-> IF WasLoaded(p) THEN image[p] ELSE NULL]
      /\ [p \in Objs |-> IF WasLoaded(p) THEN mstate[p] ELSE "unused"]' =
            [p \in Objs |-> IF WasLoaded(p) THEN mstate[p] ELSE "unused"]
  BY <1>2
<1>4. QED
  BY <1>1, <1>3 DEF Abstract!vars

LEMMA MapAppend ==
    ASSUME RegistryInv, NEW o \in Objs, mstate[o] = "unused",
           count \in Indices, NEW img,
           AppendModule(o, img, slots), UNCHANGED binds
    PROVE  Abstract!AddLast(o, img)
<1> USE DEF AppendModule
<1>1. /\ \A j \in Indices : slots'[j] = IF j = count THEN o ELSE slots[j]
      /\ slots[count] = NULL
      /\ \A j \in Indices : slots[j] # NULL => slots[j] # o /\ j < count
  <2>1. \A j \in Indices : slots[j] # NULL => slots[j] # o /\ j < count
    BY DEF RegistryInv, ListInv, ListedStates
  <2>2. QED
    BY <2>1 DEF RegistryInv, TypeOK, Indices
<1>2. Listed' = Listed \cup {o}
  BY <1>1, ObjsAssumption DEF Listed, Indices
<1>3. LoadedBefore' = LoadedBefore \cup (Listed \X {o})
  <2>1. ASSUME NEW p \in Objs, NEW q \in Objs
        PROVE  <<p, q>> \in LoadedBefore' <=>
                  <<p, q>> \in LoadedBefore \/ (p \in Listed /\ q = o)
    <3>1. ASSUME NEW i \in Indices, NEW j \in Indices, i < j,
                 slots'[i] = p, slots'[j] = q
          PROVE  <<p, q>> \in LoadedBefore \/ (p \in Listed /\ q = o)
      BY <1>1, <3>1, ObjsAssumption DEF LoadedBefore, Listed, Indices
    <3>2. ASSUME NEW i \in Indices, NEW j \in Indices, i < j,
                 slots[i] = p, slots[j] = q
          PROVE  slots'[i] = p /\ slots'[j] = q
      BY <1>1, <3>2, ObjsAssumption
    <3>3. ASSUME NEW i \in Indices, slots[i] = p, q = o
          PROVE  i < count /\ slots'[i] = p /\ slots'[count] = q
      BY <1>1, <3>3, ObjsAssumption DEF Indices
    <3>4. QED
      BY <3>1, <3>2, <3>3 DEF LoadedBefore, Listed, Indices
  <2>2. /\ LoadedBefore \subseteq Objs \X Objs
        /\ LoadedBefore' \subseteq Objs \X Objs
        /\ Listed \X {o} \subseteq Objs \X Objs
    BY DEF LoadedBefore, Listed
  <2>3. \A e \in Objs \X Objs : e \in LoadedBefore' <=>
            e \in LoadedBefore \cup (Listed \X {o})
    BY <2>1
  <2>4. QED
    BY <2>2, <2>3
<1>4. /\ ~WasLoaded(o) /\ WasLoaded(o)'
      /\ mstate'[o] = "Loaded" /\ image'[o] = img
      /\ \A p \in Objs : p # o =>
            /\ mstate'[p] = mstate[p] /\ image'[p] = image[p]
            /\ WasLoaded(p)' <=> WasLoaded(p)
  BY DEF RegistryInv, TypeOK, WasLoaded
<1>5. /\ [p \in Objs |-> IF WasLoaded(p) THEN image[p] ELSE NULL]' =
            [[p \in Objs |-> IF WasLoaded(p) THEN image[p] ELSE NULL]
                EXCEPT ![o] = img]
      /\ [p \in Objs |-> IF WasLoaded(p) THEN mstate[p] ELSE "unused"]' =
            [[p \in Objs |-> IF WasLoaded(p) THEN mstate[p] ELSE "unused"]
                EXCEPT ![o] = "Loaded"]
  BY <1>4
<1>6. QED
  BY <1>2, <1>3, <1>4, <1>5 DEF Abstract!AddLast

(* The phases move as the states do when o is in the list.                 *)
LEMMA MapPhase ==
    ASSUME RegistryInv, NEW o \in Listed,
           NEW st \in ListedStates \cup {"freed"},
           mstate' = [mstate EXCEPT ![o] = st], UNCHANGED image
    PROVE  /\ [p \in Objs |-> IF WasLoaded(p) THEN mstate[p] ELSE "unused"]' =
                [[p \in Objs |-> IF WasLoaded(p) THEN mstate[p] ELSE "unused"]
                    EXCEPT ![o] = st]
           /\ UNCHANGED [p \in Objs |-> IF WasLoaded(p) THEN image[p] ELSE NULL]
           /\ WasLoaded(o) /\ o \in Objs
<1>1. WasLoaded(o) /\ WasLoaded(o)' /\ o \in Objs
  BY ListedStatesOnly DEF WasLoaded, ListedStates, RegistryInv, TypeOK
<1>2. \A p \in Objs : /\ mstate'[p] = IF p = o THEN st ELSE mstate[p]
                      /\ WasLoaded(p)' <=> WasLoaded(p)
  BY <1>1 DEF RegistryInv, TypeOK, WasLoaded
<1>3. QED
  BY <1>1, <1>2

LEMMA MapStart ==
    ASSUME RegistryInv, NEW o \in Listed, mstate[o] = "Resolved",
           mstate' = [mstate EXCEPT ![o] = "Initialized"],
           UNCHANGED <<initialized, slots, image, binds>>
    PROVE  Abstract!Start(o)
<1>1. Listed' = Listed /\ LoadedBefore' = LoadedBefore
  BY DEF Listed, LoadedBefore
<1>2. QED
  BY <1>1, MapPhase DEF Abstract!Start, ListedStates

LEMMA MapUnload ==
    ASSUME RegistryInv, NEW i \in Indices, NEW o \in Objs, slots[i] = o,
           DisposeModule(o, i)
    PROVE  Abstract!Unload(o)
<1> USE DEF DisposeModule, ClearEntry
<1>1. /\ \A j \in Indices : slots'[j] = IF j = i THEN NULL ELSE slots[j]
      /\ \A j \in Indices : slots[j] = o => j = i
  BY ObjsAssumption DEF RegistryInv, TypeOK, ListInv, Indices
<1>2. o \in Listed /\ Listed' = Listed \ {o}
  BY <1>1, ObjsAssumption DEF Listed, Indices
<1>3. LoadedBefore' = {e \in LoadedBefore : o \notin {e[1], e[2]}}
  <2>1. ASSUME NEW p \in Objs, NEW q \in Objs
        PROVE  <<p, q>> \in LoadedBefore' <=>
                  <<p, q>> \in LoadedBefore /\ p # o /\ q # o
    BY <1>1, ObjsAssumption DEF LoadedBefore, Indices
  <2>2. \A e \in Objs \X Objs : e \in LoadedBefore' <=>
            e \in LoadedBefore /\ o \notin {e[1], e[2]}
    BY <2>1
  <2>3. QED
    BY <2>2 DEF LoadedBefore
<1>4. QED
  BY <1>2, <1>3, MapPhase DEF Abstract!Unload

LEMMA MapBind ==
    ASSUME RegistryInv, NEW i \in Indices, NEW o \in Objs, slots[i] = o,
           mstate[o] = "Loaded", Resolvable(o),
           \A j \in Indices : j < i /\ slots[j] # NULL =>
               mstate[slots[j]] = "Initialized",
           binds' = [binds EXCEPT ![o] = ResolvedBinds(o)],
           mstate' = [mstate EXCEPT ![o] =
                         IF IsNro(o) THEN "Resolved" ELSE "Initialized"],
           UNCHANGED <<initialized, slots, image>>
    PROVE  Abstract!Bind(o)
<1>1. Listed' = Listed /\ LoadedBefore' = LoadedBefore /\ o \in Listed
  BY DEF Listed, LoadedBefore, Indices
<1>2. \A p \in Listed : WasLoaded(p) /\ p \in Objs
  BY ListedStatesOnly DEF WasLoaded, ListedStates
<1>3. ASSUME NEW p \in Listed, <<p, o>> \in LoadedBefore
      PROVE  mstate[p] = "Initialized"
  <2>1. PICK j \in Indices, k \in Indices : j < k /\ slots[j] = p /\ slots[k] = o
    BY <1>3 DEF LoadedBefore, Indices
  <2>2. k = i /\ slots[j] # NULL
    BY <1>2, <2>1, ObjsAssumption DEF RegistryInv, ListInv
  <2>3. QED
    BY <2>1, <2>2
<1>4. ASSUME NEW s \in Symbols, s \in Needs[image[o]]
      PROVE  Abstract!IsProvider(Provider(s), s)
  <2>1. Provider(s) \in Objs /\ FirstExporter(Provider(s), s)
    BY <1>1, <1>4, ResolvedToFirst, ListedStatesOnly DEF Resolvable
  <2>2. PICK j \in Exporters(s) :
               IsFirst(j, Exporters(s)) /\ slots[j] = Provider(s)
    BY <2>1 DEF FirstExporter
  <2>3. Provider(s) \in Listed /\ s \in Exports[image[Provider(s)]]
    BY <2>1, <2>2 DEF Listed, Exporters, Indices
  <2>4. ASSUME NEW n \in Listed, n # Provider(s), s \in Exports[image[n]]
        PROVE  <<Provider(s), n>> \in LoadedBefore
    <3>1. PICK k \in Indices : slots[k] = n
      BY DEF Listed, Indices
    <3>2. k \in Exporters(s)
      BY <1>2, <2>4, <3>1, ObjsAssumption DEF Exporters
    <3>3. j <= k /\ j # k /\ j \in Indices
      BY <2>2, <2>4, <3>1, <3>2 DEF IsFirst, Exporters
    <3>4. j < k
      BY <3>3, BoundsAssumption DEF Indices
    <3>5. QED
      BY <1>2, <2>1, <2>2, <3>1, <3>3, <3>4 DEF LoadedBefore, Indices
  <2>5. QED
    BY <1>2, <2>3, <2>4 DEF Abstract!IsProvider
<1>5. /\ ResolvedBinds(o) \in [Symbols -> Objs \cup {NULL}]
      /\ \A s \in Symbols : IF s \in Needs[image[o]]
                            THEN Abstract!IsProvider(ResolvedBinds(o)[s], s)
                            ELSE ResolvedBinds(o)[s] = NULL
  BY <1>4, ResolvedBindsType DEF ResolvedBinds, ObjsOrNull
<1>6. (IF IsNro(o) THEN "Resolved" ELSE "Initialized") \in ListedStates
  BY DEF ListedStates
<1>7. QED
  BY <1>1, <1>2, <1>3, <1>5, <1>6, MapPhase DEF Abstract!Bind, IsNro

MapStep == Abstract!Next \/ UNCHANGED Abstract!vars

LEMMA MapInitialize ==
    ASSUME RegistryInv, LdInitialize
    PROVE  MapStep
<1>1. slots = EmptySlots /\ Listed = {} /\ ~initialized
  BY ObjsAssumption
     DEF LdInitialize, RegistryInv, TypeOK, ListInv, EmptySlots, Indices, Listed
<1>2. ASSUME NEW n \in 0 .. MaxSlots, NEW failure \in InitFailures,
             InitFailsEarly(n, failure)
      PROVE  MapStep
  BY <1>1, <1>2, MapIdle DEF InitFailsEarly, MapStep
<1>3. ASSUME NEW n \in 0 .. MaxSlots, NEW o \in Objs, InitLoadsMain(n, o)
      PROVE  MapStep
  <2>1. CASE MainStoredPastTheEnd(n)
    BY <1>1, <1>3, <2>1, MapIdle
       DEF InitLoadsMain, MainStoredPastTheEnd, MapStep, objVars
  <2>2. CASE MainRejected(o)
    BY <1>1, <1>3, <2>2, MapAbandon DEF InitLoadsMain, MainRejected, MapStep
  <2>3. CASE MainAccepted(n, o)
    <3>1. count \in Indices
      BY <2>3, BoundsAssumption DEF MainAccepted, RegistryInv, TypeOK, Indices
    <3>2. /\ mstate[o] = "unused" /\ initialized' = TRUE
          /\ AppendModule(o, Main, slots) /\ UNCHANGED binds
      BY <1>1, <1>3, <2>3 DEF InitLoadsMain, MainAccepted
    <3>3. Abstract!Open(o)
      BY <1>1, <3>1, <3>2, MapAppend DEF Abstract!Open
    <3>4. QED
      BY <3>3 DEF Abstract!Next, MapStep
  <2>4. QED
    BY <1>3, <2>1, <2>2, <2>3 DEF InitLoadsMain
<1>4. QED
  BY <1>2, <1>3 DEF LdInitialize

LEMMA MapLoad ==
    ASSUME RegistryInv, LdLoadModuleFromNro
    PROVE  MapStep
<1>1. PICK o \in Objs, img \in Images :
          /\ mstate[o] = "unused"
          /\ \/ AppendModule(o, img, slots)
             \/ AbandonModule(o) /\ UNCHANGED slots
  BY DEF LdLoadModuleFromNro
<1>2. count \in Indices /\ initialized /\ UNCHANGED <<initialized, binds>>
  BY BoundsAssumption
     DEF LdLoadModuleFromNro, RegistryInv, TypeOK, Indices, HasRoom
<1>3. CASE AppendModule(o, img, slots)
  <2>1. Abstract!Load(o, img)
    BY <1>1, <1>2, <1>3, MapAppend DEF Abstract!Load
  <2>2. QED
    BY <2>1 DEF Abstract!Next, MapStep
<1>4. CASE AbandonModule(o) /\ UNCHANGED slots
  BY <1>1, <1>2, <1>4, MapAbandon DEF MapStep
<1>5. QED
  BY <1>1, <1>3, <1>4

LEMMA MapDispose ==
    ASSUME RegistryInv, NEW i \in Indices, NEW o, slots[i] = o, o # NULL,
           DisposeModule(o, i)
    PROVE  MapStep
<1>1. o \in Objs
  BY DEF RegistryInv, TypeOK, Indices, ObjsOrNull
<1>2. Abstract!Unload(o)
  BY <1>1, MapUnload
<1>3. QED
  BY <1>1, <1>2 DEF Abstract!Next, MapStep

LEMMA MapLookupStep ==
    ASSUME RegistryInv, LookupStep
    PROVE  MapStep
<1>1. /\ Top.at \in Nat /\ Top.at < count
      /\ \A i \in Indices : i < Top.at /\ slots[i] # NULL =>
            mstate[slots[i]] = "Initialized"
  BY RunningFacts DEF LookupStep, Ops, MoreModules
<1>2. CASE Crash(AccessFault(Top.at))
  BY <1>2, MapIdle DEF Crash, listVars, MapStep
<1>3. CASE /\ ~BadAccess(Top.at) /\ EnsureModuleInitialized(slots[Top.at])
           /\ UNCHANGED listVars
  <2>1. PICK i \in Indices : i = Top.at
    BY <1>1, BoundsAssumption DEF RegistryInv, TypeOK, Indices
  <2>2. PICK o \in Objs : o = slots[i]
    BY <1>3, <2>1 DEF BadAccess, RegistryInv, TypeOK, Indices, ObjsOrNull
  <2>3. CASE UNCHANGED objVars
    BY <1>3, <2>3, MapIdle DEF listVars, MapStep
  <2>4. CASE /\ mstate[o] = "Loaded"
             /\ Resolvable(o)
             /\ binds' = [binds EXCEPT ![o] = ResolvedBinds(o)]
             /\ mstate' = [mstate EXCEPT ![o] =
                              IF IsNro(o) THEN "Resolved" ELSE "Initialized"]
             /\ UNCHANGED image
    <3>1. Abstract!Bind(o)
      BY <1>1, <1>3, <2>1, <2>2, <2>4, MapBind DEF listVars
    <3>2. QED
      BY <3>1 DEF Abstract!Next, MapStep
  <2>5. QED
    BY <1>3, <2>1, <2>2, <2>3, <2>4 DEF EnsureModuleInitialized
<1>4. QED
  BY <1>2, <1>3 DEF LookupStep

LEMMA MapInitReturn ==
    ASSUME RegistryInv, InitReturn
    PROVE  MapStep
<1>1. CASE mstate[Top.mod] = "freed"
  BY <1>1, MapIdle DEF InitReturn, Crash, listVars, MapStep
<1>2. CASE mstate[Top.mod] # "freed"
  <2>1. PICK o \in Listed : o = Top.mod /\ mstate[o] # "Loaded"
    BY <1>2, WaitingFacts DEF InitReturn, Listed, Indices
  <2>2. /\ mstate' = [mstate EXCEPT ![o] = "Initialized"]
        /\ UNCHANGED <<initialized, slots, image, binds>>
    BY <1>2, <2>1 DEF InitReturn, listVars
  <2>3. o \in Objs /\ mstate[o] \in {"Resolved", "Initialized"}
    BY <2>1, ListedStatesOnly DEF ListedStates
  <2>4. CASE mstate[o] = "Resolved"
    <3>1. Abstract!Start(o)
      BY <2>2, <2>4, MapStart
    <3>2. QED
      BY <2>3, <3>1 DEF Abstract!Next, MapStep
  <2>5. CASE mstate[o] = "Initialized"
    <3>1. UNCHANGED objVars
      BY <2>2, <2>3, <2>5 DEF RegistryInv, TypeOK, objVars
    <3>2. QED
      BY <2>2, <3>1, MapIdle DEF MapStep
  <2>6. QED
    BY <2>3, <2>4, <2>5
<1>3. QED
  BY <1>1, <1>2

LEMMA MapExitReturn ==
    ASSUME RegistryInv, ExitReturn
    PROVE  MapStep
<1>1. /\ initialized /\ Top.at \in Nat /\ ~(Top.at < count)
      /\ \A i \in Indices : i < Top.at => slots[i] = NULL
  BY RunningFacts DEF ExitReturn, Ops, MoreModules
<1>2. \A i \in Indices : slots[i] = NULL
  BY <1>1 DEF RegistryInv, TypeOK, ListInv, Indices
<1>3. Listed = {}
  BY <1>2, ObjsAssumption DEF Listed, Indices
<1>4. initialized' = FALSE /\ UNCHANGED <<slots, objVars>>
  BY DEF ExitReturn
<1>5. /\ Listed' = Listed /\ LoadedBefore' = LoadedBefore
      /\ UNCHANGED [p \in Objs |-> IF WasLoaded(p) THEN mstate[p] ELSE "unused"]
      /\ UNCHANGED [p \in Objs |-> IF WasLoaded(p) THEN image[p] ELSE NULL]
  BY <1>4 DEF Listed, LoadedBefore, WasLoaded, objVars
<1>6. Abstract!Close
  BY <1>1, <1>3, <1>4, <1>5 DEF Abstract!Close, objVars
<1>7. QED
  BY <1>6 DEF Abstract!Next, MapStep

LEMMA MapNext ==
    ASSUME RegistryInv, Next
    PROVE  MapStep
<1>1. ASSUME UNCHANGED <<initialized, slots, objVars>> PROVE MapStep
  BY <1>1, MapIdle DEF MapStep
<1>2. CASE LdLookupGlobalSymbol \/ LdUnloadAllModules \/ LdExit
  BY <1>1, <1>2 DEF LdLookupGlobalSymbol, LdUnloadAllModules, LdExit, listVars
<1>3. CASE LdUnloadModule
  <2>1. ASSUME NEW name \in Modules, NEW i \in Named(name),
               DisposeModule(slots[i], i)
        PROVE  MapStep
    <3>1. i \in Indices /\ slots[i] # NULL
      BY <2>1, BoundsAssumption
         DEF Named, BadAccess, RegistryInv, TypeOK, Indices
    <3>2. QED
      BY <2>1, <3>1, MapDispose
  <2>2. QED
    BY <1>1, <1>3, <2>1 DEF LdUnloadModule, Crash, listVars, CallFini
<1>4. CASE LookupReturn \/ UnloadAllReturn \/ Crashed
  BY <1>1, <1>4 DEF LookupReturn, UnloadAllReturn, Crashed, Return, Crash,
     listVars, vars
<1>5. CASE UnloadAllStep
  <2>1. Top.at \in Nat /\ Top.at < count
    BY <1>5, RunningFacts DEF UnloadAllStep, Ops, MoreModules
  <2>2. Top.at \in Indices
    BY <2>1, BoundsAssumption DEF RegistryInv, TypeOK, Indices
  <2>3. QED
    BY <1>1, <1>5, <2>2, MapDispose DEF UnloadAllStep, Crash, listVars
<1>6. CASE FiniReturn
  <2>1. CASE mstate[Top.mod] = "freed"
    BY <1>1, <1>6, <2>1 DEF FiniReturn, Crash, listVars
  <2>2. CASE mstate[Top.mod] # "freed"
    BY <1>6, <2>2, WaitingFacts, MapDispose DEF FiniReturn
  <2>3. QED
    BY <2>1, <2>2
<1>7. QED
  BY <1>2, <1>3, <1>4, <1>5, <1>6, MapInitialize, MapLoad, MapLookupStep,
     MapInitReturn, MapExitReturn
     DEF Next, ClientCalls, LibrarySteps, CallbackReturns

(* Whatever fails, is nested in a callback or is called out of order, the  *)
(* library is a registry without a table: modules come last, go from       *)
(* anywhere, are relocated in their turn against the first provider and    *)
(* initialized once, and ldExit returns with none left (ld.c, 611-792).    *)
THEOREM LdImplementsLinkMap == Spec => ImplementsLinkMap
<1>1. Init => Abstract!Init
  <2> SUFFICES ASSUME Init PROVE Abstract!Init
    OBVIOUS
  <2>1. Listed = {} /\ LoadedBefore = {}
    BY ObjsAssumption DEF Init, EmptySlots, Listed, LoadedBefore
  <2>2. \A o \in Objs : ~WasLoaded(o)
    BY DEF Init, WasLoaded
  <2>3. QED
    BY <2>1, <2>2 DEF Init, NoBinds, Abstract!Init
<1>2. RegistryInv /\ [Next]_vars => [Abstract!Next]_(Abstract!vars)
  BY MapNext, MapIdle DEF MapStep, vars, listVars
<1>3. QED
  BY <1>1, <1>2, RegistryInvariant, PTL
     DEF Spec, ImplementsLinkMap, Abstract!Spec
-----------------------------------------------------------------------------
(***************************************************************************)
(* What the library inherits from LinkMap, whose promises are proved for   *)
(* every behavior of its own.                                              *)
(***************************************************************************)
Promised == INSTANCE LinkMapProofs WITH
    Modules <- Objs,
    open <- initialized,
    live <- Listed,
    before <- LoadedBefore,
    image <- [o \in Objs |-> IF WasLoaded(o) THEN image[o] ELSE NULL],
    phase <- [o \in Objs |-> IF WasLoaded(o) THEN mstate[o] ELSE "unused"],
    bound <- binds

LEMMA PromisedSpec == Spec => Promised!Spec
<1>1. Abstract!Init => Promised!Init
  BY DEF Abstract!Init, Promised!Init
<1>2. [Abstract!Next]_(Abstract!vars) => [Promised!Next]_(Promised!vars)
  BY DEF Abstract!Next, Abstract!vars, Abstract!Open, Abstract!Load,
         Abstract!AddLast, Abstract!Bind, Abstract!IsProvider, Abstract!Start,
         Abstract!Unload, Abstract!Close,
         Promised!Next, Promised!vars, Promised!Open, Promised!Load,
         Promised!AddLast, Promised!Bind, Promised!IsProvider,
         Promised!Start, Promised!Unload, Promised!Close
<1>3. QED
  BY <1>1, <1>2, LdImplementsLinkMap, PTL
     DEF ImplementsLinkMap, Abstract!Spec, Promised!Spec

(* The entry of the main module, while it has one, is before those of all  *)
(* NROs, whichever lifetime the table is in and whatever was unloaded, and *)
(* a library that is not initialized has no module in its table (ld.c,     *)
(* 629-698).                                                               *)
MainIsFirst ==
    /\ \A i, j \in Indices :
          slots[i] # NULL /\ slots[j] # NULL /\ image[slots[j]] = Main => j <= i
    /\ ~initialized => Listed = {}
THEOREM LdMainIsFirst == Spec => []MainIsFirst
<1>1. RegistryInv /\ Promised!MainIsFirst => MainIsFirst
  <2> SUFFICES ASSUME RegistryInv, Promised!MainIsFirst
               PROVE  MainIsFirst
    OBVIOUS
  <2>1. ~initialized => Listed = {}
    BY DEF Promised!MainIsFirst
  <2>2. ASSUME NEW i \in Indices, NEW j \in Indices, slots[i] # NULL,
               slots[j] # NULL, image[slots[j]] = Main
        PROVE  j <= i
    <3>1. SUFFICES ASSUME i < j PROVE FALSE
      BY DEF Indices
    <3>2. /\ slots[i] \in Listed /\ slots[j] \in Listed
          /\ WasLoaded(slots[j]) /\ slots[i] # slots[j]
      BY <2>2, <3>1 DEF RegistryInv, TypeOK, ListInv, Listed, WasLoaded,
         Indices, ObjsOrNull, ListedStates
    <3>3. <<slots[j], slots[i]>> \in LoadedBefore
      BY <2>2, <3>2 DEF Promised!MainIsFirst, Listed
    <3>4. PICK k, l \in Indices : k < l /\ slots[k] = slots[j] /\ slots[l] = slots[i]
      BY <3>3 DEF LoadedBefore, Indices
    <3>5. k = j /\ l = i
      BY <2>2, <3>4 DEF RegistryInv, ListInv
    <3>6. QED
      BY <3>1, <3>4, <3>5 DEF Indices
  <2>3. QED
    BY <2>1, <2>2 DEF MainIsFirst
<1>2. QED
  BY <1>1, PromisedSpec, RegistryInvariant, ImagesAssumption,
     Promised!MapMainIsFirst, PTL
-----------------------------------------------------------------------------
(***************************************************************************)
(* Progress.  A call stands at a place of its loop, in the library or in a *)
(* callback there; its rank is what is left of the loop, in half turns.    *)
(***************************************************************************)
Rank(f) == 2 * (MaxSlots - f.at) + IF f.mod = NULL THEN 1 ELSE 0

(* Client code, inside a callback or not, only adds a call on top.  What   *)
(* the library does, and the return of a callback, ends the innermost call *)
(* or advances it, to a rank that is never negative.                       *)
AddsACall ==
    /\ Len(stack') \in {Len(stack), Len(stack) + 1}
    /\ \A d \in 1 .. Len(stack) : stack'[d] = stack[d]
Advances ==
    /\ Len(stack') = Len(stack)
    /\ \A d \in 1 .. Len(stack) - 1 : stack'[d] = stack[d]
    /\ LET f == stack'[Len(stack)]
       IN  f.op = Top.op /\ Rank(f) \in Nat /\ Rank(f) < Rank(Top)
CallsAdvance ==
    /\ ClientCalls => AddsACall
    /\ LibrarySteps \/ CallbackReturns => fault' # "none" \/ Pop \/ Advances

LEMMA NextAdvances ==
    ASSUME RegistryInv, Len(stack) > 0, Top.at \in Indices,
           ReplaceTop(NextModule)
    PROVE  Advances
<1>1. stack \in Seq(Frames) /\ NextModule \in Frames
  BY NextModuleFacts DEF RegistryInv, TypeOK
<1>2. /\ Len(stack') = Len(stack)
      /\ \A d \in 1 .. Len(stack) - 1 : stack'[d] = stack[d]
      /\ stack'[Len(stack)] = NextModule
  BY <1>1, ReplaceTopFacts
<1>3. /\ NextModule.op = Top.op /\ NextModule.at = Top.at + 1
      /\ NextModule.mod = NULL
  BY <1>1, NextModuleFacts DEF RegistryInv, TypeOK
<1>4. Rank(NextModule) \in Nat /\ Rank(NextModule) < Rank(Top)
  BY <1>3, BoundsAssumption DEF Rank, Indices
<1>5. QED
  BY <1>2, <1>3, <1>4 DEF Advances

LEMMA CallbackAdvances ==
    ASSUME RegistryInv, Len(stack) > 0, Top.at \in Indices, Top.mod = NULL,
           NEW o \in Objs, EnterCallback(o)
    PROVE  Advances
<1> DEFINE fr == [op |-> Top.op, at |-> Top.at, mod |-> o]
<1>1. stack \in Seq(Frames) /\ fr \in Frames
  BY TopFacts DEF RegistryInv, TypeOK, Frames, ObjsOrNull
<1>2. /\ Len(stack') = Len(stack)
      /\ \A d \in 1 .. Len(stack) - 1 : stack'[d] = stack[d]
      /\ stack'[Len(stack)] = fr
  BY <1>1, ReplaceTopFacts DEF EnterCallback
<1>3. Rank(fr) \in Nat /\ Rank(fr) < Rank(Top)
  BY ObjsAssumption, BoundsAssumption DEF Rank, Indices
<1>4. QED
  BY <1>2, <1>3 DEF Advances

LEMMA ClientAddsACall ==
    ASSUME RegistryInv, ClientCalls
    PROVE  AddsACall
<1>1. stack \in Seq(Frames) /\ Len(stack) \in Nat
  BY LenProperties DEF RegistryInv, TypeOK
<1>2. CASE UNCHANGED stack
  BY <1>2 DEF AddsACall
<1>3. ASSUME NEW fr, Push(fr) PROVE AddsACall
  BY <1>1, <1>3 DEF AddsACall, Push
<1>4. QED
  BY <1>2, <1>3
     DEF ClientCalls, LdInitialize, InitFailsEarly, InitLoadsMain, Crash,
         MainAccepted, MainRejected, MainStoredPastTheEnd, LdLoadModuleFromNro, LdLookupGlobalSymbol, LdUnloadModule, CallFini,
         LdUnloadAllModules, LdExit

(* The place of a loop that goes on is one of the table. *)
LEMMA LoopPlace ==
    ASSUME RegistryInv, NEW op \in Ops, Running(op), MoreModules
    PROVE  Len(stack) > 0 /\ Top.mod = NULL /\ Top.at \in Indices
<1>1. Len(stack) > 0 /\ Top.mod = NULL /\ Top.at \in Nat
  BY RunningFacts
<1>2. QED
  BY <1>1, BoundsAssumption DEF RegistryInv, TypeOK, MoreModules, Indices

LEMMA LookupAdvances ==
    ASSUME RegistryInv, LookupStep
    PROVE  fault' # "none" \/ Pop \/ Advances
<1>1. Len(stack) > 0 /\ Top.mod = NULL /\ Top.at \in Indices
  BY LoopPlace DEF LookupStep, Ops
<1>2. CASE BadAccess(Top.at)
  BY <1>2 DEF LookupStep, Crash, AccessFault
<1>3. CASE ~BadAccess(Top.at)
  <2>1. EnsureModuleInitialized(slots[Top.at])
    BY <1>3 DEF LookupStep
  <2>2. slots[Top.at] \in Objs
    BY <1>1, <1>3 DEF BadAccess, RegistryInv, TypeOK, Indices, ObjsOrNull
  <2>3. \/ fault' # "none" \/ Pop \/ ReplaceTop(NextModule)
        \/ EnterCallback(slots[Top.at])
    BY <2>1 DEF EnsureModuleInitialized
  <2>4. QED
    BY <1>1, <2>2, <2>3, NextAdvances, CallbackAdvances
<1>4. QED
  BY <1>2, <1>3

LEMMA UnloadAllAdvances ==
    ASSUME RegistryInv, UnloadAllStep
    PROVE  fault' # "none" \/ Pop \/ Advances
<1>1. Len(stack) > 0 /\ Top.mod = NULL /\ Top.at \in Indices
  BY LoopPlace DEF UnloadAllStep, Ops
<1>2. CASE Top.at >= Capacity
  BY <1>2 DEF UnloadAllStep, Crash, AccessFault
<1>3. CASE Top.at < Capacity
  <2>1. slots[Top.at] # NULL => slots[Top.at] \in Objs
    BY <1>1 DEF RegistryInv, TypeOK, Indices, ObjsOrNull
  <2>2. ~(Top.at >= Capacity)
    BY <1>1, <1>3 DEF RegistryInv, TypeOK, Capacity, Indices
  <2>3. \/ ReplaceTop(NextModule)
        \/ slots[Top.at] # NULL /\ EnterCallback(slots[Top.at])
    BY <2>2 DEF UnloadAllStep
  <2>4. QED
    BY <1>1, <2>1, <2>3, NextAdvances, CallbackAdvances
<1>4. QED
  BY <1>1, <1>2, <1>3 DEF RegistryInv, TypeOK, Capacity, Indices

LEMMA ReturnAdvances ==
    ASSUME RegistryInv, CallbackReturns
    PROVE  fault' # "none" \/ Pop \/ Advances
<1>1. Len(stack) > 0 /\ Top.mod # NULL
  BY DEF CallbackReturns, InitReturn, FiniReturn
<1>2. CASE mstate[Top.mod] = "freed"
  BY <1>2 DEF CallbackReturns, InitReturn, FiniReturn, Crash
<1>3. CASE mstate[Top.mod] # "freed"
  <2>1. Top.at \in Indices
    BY <1>1, <1>3, WaitingFacts
  <2>2. Pop \/ ReplaceTop(NextModule)
    BY <1>3 DEF CallbackReturns, InitReturn, FiniReturn
  <2>3. QED
    BY <1>1, <2>1, <2>2, NextAdvances
<1>4. QED
  BY <1>2, <1>3

(* A call with no other nested in it takes at most 2 * MaxSlots + 2 steps  *)
(* to its return, and enters the callbacks of a place at most once; the    *)
(* calls under it stay as they were (ld.c, 739-792).                       *)
THEOREM LdCallsAdvance == Spec => [][CallsAdvance]_vars
<1>1. RegistryInv /\ [Next]_vars => [CallsAdvance]_vars
  <2> SUFFICES ASSUME RegistryInv, Next PROVE CallsAdvance
    OBVIOUS
  <2>1. LibrarySteps => fault' # "none" \/ Pop \/ Advances
    BY LookupAdvances, UnloadAllAdvances
       DEF LibrarySteps, LookupReturn, Crash, Return, UnloadAllReturn,
           ExitReturn
  <2>2. QED
    BY <2>1, ClientAddsACall, ReturnAdvances DEF CallsAdvance
<1>2. QED
  BY <1>1, RegistryInvariant, PTL DEF Spec

(* The library never comes to a place of a call where it does not know how *)
(* to go on: a lookup meets modules in a state it can take on only, and    *)
(* the call that waits in ldUnloadModule has a callback to wait for.       *)
CanGoOn ==
    Len(stack) > 0 /\ Top.mod = NULL =>
        /\ Top.op \in {"lookup", "unloadAll", "exit"}
        /\ Top.op = "lookup" /\ MoreModules =>
              BadAccess(Top.at) \/ mstate[slots[Top.at]] \in ListedStates
        /\ Top.op = "exit" => ldroRef > 0
THEOREM LdCanGoOn == Spec => []CanGoOn
<1>1. RegistryInv => CanGoOn
  <2> SUFFICES ASSUME RegistryInv, Len(stack) > 0, Top.mod = NULL
               PROVE  /\ Top.op \in {"lookup", "unloadAll", "exit"}
                      /\ Top.op = "lookup" /\ MoreModules =>
                            \/ BadAccess(Top.at)
                            \/ mstate[slots[Top.at]] \in ListedStates
                      /\ Top.op = "exit" => ldroRef > 0
    BY DEF CanGoOn
  <2>1. stack \in Seq(Frames) /\ StackInv
    BY DEF RegistryInv, TypeOK
  <2>2. FrameInv(Top) /\ Top.op \in Ops /\ Top.at \in Nat
    BY <2>1, TopFacts DEF StackInv, Top
  <2>3. Top.op \in {"lookup", "unloadAll", "exit"}
    BY <2>2 DEF FrameInv, Ops
  <2>4. Top.op = "exit" => ldroRef > 0
    <3>1. Top.op = "exit" => initialized
      BY <2>2 DEF FrameInv, Live
    <3>2. QED
      BY <3>1 DEF RegistryInv, TypeOK, SessionBalance
  <2>5. ASSUME MoreModules, ~BadAccess(Top.at)
        PROVE  mstate[slots[Top.at]] \in ListedStates
    <3>1. Top.at \in Indices
      BY <2>2, <2>5, BoundsAssumption
         DEF RegistryInv, TypeOK, MoreModules, Indices
    <3>2. QED
      BY <2>5, <3>1 DEF BadAccess, RegistryInv, ListInv
  <2>6. QED
    BY <2>3, <2>4, <2>5
<1>2. QED
  BY <1>1, RegistryInvariant, PTL
=============================================================================
