------------------------- MODULE ServiceGuardProofs -------------------------
(***************************************************************************)
(* Theorems about ServiceGuard, for any finite set of users.               *)
(*                                                                         *)
(* SessionInv ties the session and the count to the point the owner of the *)
(* mutex has reached; it needs nothing of the clients.  CountInv adds that *)
(* the count is the number of holders, off by the owner of the mutex; this *)
(* is where balanced calls are needed.                                     *)
(***************************************************************************)
EXTENDS ServiceGuard, FiniteSetTheorems, TLAPS

(* Typing, and the mutex is held exactly by the user inside the guard.     *)
LockInv == TypeOK /\ MutualExclusion

SessionAt(u) ==
    /\ pc[u] = "getService" => refCount = 1 /\ session = "closed"
    /\ pc[u] = "setup" => refCount = 1 /\ session = "open"
    /\ pc[u] = "initOk" => refCount > 0 /\ session = "open"
    /\ pc[u] = "initFailed" => refCount = 1
    /\ pc[u] = "cleanup" => refCount = 0
    /\ pc[u] = "exitDone" => (session = "open" <=> refCount > 0)

SessionInv == SessionMatchesCount /\ \A u \in Users : SessionAt(u)

(* With balanced calls, where a user is tells whether it is a holder.      *)
HolderAt(u) ==
    /\ pc[u] \in {"wantInit"} \cup Opening => u \notin holders
    /\ pc[u] \in {"wantExit", "command"} \cup Closing => u \in holders

CountedHolders ==
    IF mutex # NULL /\ pc[mutex] \in Opening THEN Cardinality(holders) + 1
    ELSE IF mutex # NULL /\ pc[mutex] \in Closing THEN Cardinality(holders) - 1
    ELSE Cardinality(holders)

CountInv == (\A u \in Users : HolderAt(u)) /\ refCount = CountedHolders
-----------------------------------------------------------------------------
(* The guard's state is well typed, and its mutex is held by exactly the   *)
(* user inside it, in every behaviour.                                     *)
LEMMA LockInvariant == Spec => [](LockInv /\ SessionInv)
<1> USE UsersAssumption DEF LockInv, TypeOK, MutualExclusion, SessionInv,
        SessionAt, SessionMatchesCount, Opening, Closing, Waiting, Locations
<1>1. Init => LockInv /\ SessionInv
  BY DEF Init
<1>2. LockInv /\ SessionInv /\ [Next]_vars => (LockInv /\ SessionInv)'
  <2> SUFFICES ASSUME LockInv, SessionInv, [Next]_vars
               PROVE  (LockInv /\ SessionInv)'
    OBVIOUS
  <2>1. ASSUME NEW u \in Users, CallInitialize(u)
        PROVE  (LockInv /\ SessionInv)'
    BY <2>1 DEF CallInitialize, Goto
  <2>2. ASSUME NEW u \in Users, BeginInit(u)
        PROVE  (LockInv /\ SessionInv)'
    BY <2>2 DEF BeginInit, Goto, LockMutex
  <2>3. ASSUME NEW u \in Users, GetService(u)
        PROVE  (LockInv /\ SessionInv)'
    BY <2>3 DEF GetService, Goto
  <2>4. ASSUME NEW u \in Users, Setup(u)
        PROVE  (LockInv /\ SessionInv)'
    BY <2>4 DEF Setup, Goto
  <2>5. ASSUME NEW u \in Users, EndInit(u)
        PROVE  (LockInv /\ SessionInv)'
    BY <2>5 DEF EndInit, Goto, UndoCount, UnlockMutex
  <2>6. ASSUME NEW u \in Users, CallExit(u)
        PROVE  (LockInv /\ SessionInv)'
    BY <2>6 DEF CallExit, Goto
  <2>7. ASSUME NEW u \in Users, BeginExit(u)
        PROVE  (LockInv /\ SessionInv)'
    BY <2>7 DEF BeginExit, Goto, LockMutex, DropCount, IsLastExit
  <2>8. ASSUME NEW u \in Users, Cleanup(u)
        PROVE  (LockInv /\ SessionInv)'
    BY <2>8 DEF Cleanup, Goto
  <2>9. ASSUME NEW u \in Users, EndExit(u)
        PROVE  (LockInv /\ SessionInv)'
    BY <2>9 DEF EndExit, Goto, UnlockMutex
  <2>10. ASSUME NEW u \in Users, BeginCommand(u)
         PROVE  (LockInv /\ SessionInv)'
    BY <2>10 DEF BeginCommand, Goto
  <2>11. ASSUME NEW u \in Users, EndCommand(u)
         PROVE  (LockInv /\ SessionInv)'
    BY <2>11 DEF EndCommand, Goto
  <2>12. CASE UNCHANGED vars
    BY <2>12 DEF vars
  <2>13. QED
    BY <2>1, <2>2, <2>3, <2>4, <2>5, <2>6, <2>7, <2>8, <2>9, <2>10, <2>11,
       <2>12 DEF Next, Inside, UndoCount, UnlockMutex
<1>3. QED
  BY <1>1, <1>2, PTL DEF Spec

(* The state of the guard stays well typed.                                *)
THEOREM GuardTypeCorrect == Spec => []TypeOK
BY LockInvariant, PTL DEF LockInv

(* No two users are inside the guard at once (guard.h, 10-32).             *)
THEOREM GuardMutualExclusion == Spec => []MutualExclusion
BY LockInvariant, PTL DEF LockInv

(* Count and session agree whenever the mutex is free, even when some Exit *)
(* has no matching Initialize (guard.h, 29).                               *)
THEOREM GuardSessionMatchesCount == Spec => []SessionMatchesCount
BY LockInvariant, PTL DEF SessionInv

(* The session is never opened over an open one (guard.h, 13).             *)
THEOREM GuardNeverOpensTwice == Spec => []NeverOpenedTwice
<1>1. SessionInv => NeverOpenedTwice
  BY DEF SessionInv, SessionAt, NeverOpenedTwice
<1>2. QED
  BY <1>1, LockInvariant, PTL
-----------------------------------------------------------------------------
(* From here on every Exit matches a successful Initialize.                *)

LEMMA HoldersFinite ==
    ASSUME TypeOK
    PROVE  IsFiniteSet(holders) /\ Cardinality(holders) \in Nat
BY UsersAssumption, FS_Subset, FS_CardinalityType DEF TypeOK

LEMMA HoldersAdd ==
    ASSUME TypeOK, NEW u \in Users, u \notin holders
    PROVE  Cardinality(holders \cup {u}) = Cardinality(holders) + 1
BY HoldersFinite, FS_AddElement

LEMMA HoldersRemove ==
    ASSUME TypeOK, NEW u \in holders
    PROVE  /\ Cardinality(holders \ {u}) = Cardinality(holders) - 1
           /\ Cardinality(holders) > 0
<1>1. Cardinality(holders \ {u}) = Cardinality(holders) - 1
  BY HoldersFinite, FS_RemoveElement
<1>2. Cardinality(holders) # 0
  BY HoldersFinite, FS_EmptySet
<1>3. QED
  BY <1>1, <1>2, HoldersFinite

(* The count is the number of holders, off by the owner of the mutex.      *)
LEMMA CountInvariant == ASSUME Balanced PROVE Spec => []CountInv
<1> USE UsersAssumption
    DEF TypeOK, CountInv, HolderAt, CountedHolders, Opening, Closing, Locations
<1>1. Init => CountInv
  BY FS_EmptySet DEF Init
<1>2. LockInv /\ LockInv' /\ SessionInv /\ CountInv /\ [Next]_vars => CountInv'
  <2> SUFFICES ASSUME LockInv, LockInv', SessionInv, CountInv, [Next]_vars
               PROVE  CountInv'
    OBVIOUS
  <2> USE HoldersFinite, HoldersAdd, HoldersRemove DEF LockInv, MutualExclusion
  <2>1. ASSUME NEW u \in Users, CallInitialize(u)
        PROVE  CountInv'
    BY <2>1 DEF CallInitialize, Goto
  <2>2. ASSUME NEW u \in Users, BeginInit(u)
        PROVE  CountInv'
    BY <2>2 DEF BeginInit, Goto, LockMutex
  <2>3. ASSUME NEW u \in Users, GetService(u)
        PROVE  CountInv'
    BY <2>3 DEF GetService, Goto
  <2>4. ASSUME NEW u \in Users, Setup(u)
        PROVE  CountInv'
    BY <2>4 DEF Setup, Goto
  <2>5. ASSUME NEW u \in Users, EndInit(u)
        PROVE  CountInv'
    BY <2>5 DEF EndInit, Goto, UndoCount, UnlockMutex
  <2>6. ASSUME NEW u \in Users, CallExit(u)
        PROVE  CountInv'
    BY <2>6, Balanced DEF CallExit, Goto
  <2>7. ASSUME NEW u \in Users, BeginExit(u)
        PROVE  CountInv'
    <3>1. u \in holders /\ mutex = NULL /\ refCount = Cardinality(holders)
      BY <2>7 DEF BeginExit, LockMutex, DropCount, IsLastExit
    <3>2. refCount > 0
      BY <3>1, HoldersRemove
    <3>3. QED
      BY <2>7, <3>1, <3>2 DEF BeginExit, Goto, LockMutex, DropCount, IsLastExit
  <2>8. ASSUME NEW u \in Users, Cleanup(u)
        PROVE  CountInv'
    BY <2>8 DEF Cleanup, Goto
  <2>9. ASSUME NEW u \in Users, EndExit(u)
        PROVE  CountInv'
    BY <2>9 DEF EndExit, Goto, UnlockMutex
  <2>10. ASSUME NEW u \in Users, BeginCommand(u)
         PROVE  CountInv'
    BY <2>10 DEF BeginCommand, Goto
  <2>11. ASSUME NEW u \in Users, EndCommand(u)
         PROVE  CountInv'
    BY <2>11 DEF EndCommand, Goto
  <2>12. CASE UNCHANGED vars
    BY <2>12 DEF vars
  <2>13. QED
    BY <2>1, <2>2, <2>3, <2>4, <2>5, <2>6, <2>7, <2>8, <2>9, <2>10, <2>11,
       <2>12 DEF Next, Inside, UndoCount, UnlockMutex
<1>3. QED
  BY <1>1, <1>2, LockInvariant, PTL DEF Spec

(* A holder that is not itself inside the guard finds the session open.    *)
LEMMA HeldByOther ==
    ASSUME LockInv, SessionInv, CountInv, NEW u \in holders, mutex # u
    PROVE  session = "open"
<1>1. Cardinality(holders) \in Nat /\ Cardinality(holders) > 0
  BY HoldersRemove, HoldersFinite DEF LockInv
<1>2. CASE mutex = NULL
  BY <1>1, <1>2 DEF SessionInv, SessionMatchesCount, CountInv, CountedHolders
<1>3. CASE mutex # NULL /\ pc[mutex] \in Opening
  <2>1. mutex \in Users /\ refCount > 1
    BY <1>1, <1>3 DEF LockInv, TypeOK, CountInv, CountedHolders
  <2>2. QED
    BY <1>3, <2>1 DEF SessionInv, SessionAt, Opening
<1>4. CASE mutex # NULL /\ pc[mutex] \in Closing
  <2>1. mutex \in Users /\ mutex \in holders
    BY <1>4 DEF LockInv, TypeOK, CountInv, HolderAt
  <2>2. Cardinality(holders \ {u}) # 0
    <3>1. IsFiniteSet(holders \ {u})
      BY HoldersFinite, FS_RemoveElement DEF LockInv
    <3>2. QED
      BY <2>1, <3>1, FS_EmptySet
  <2>3. Cardinality(holders) > 1
    BY <1>1, <2>2, HoldersRemove DEF LockInv
  <2>4. refCount > 0
    BY <1>1, <1>4, <2>3 DEF CountInv, CountedHolders, Opening, Closing
  <2>5. QED
    BY <1>4, <2>1, <2>4 DEF SessionInv, SessionAt, Closing
<1>5. QED
  BY <1>2, <1>3, <1>4 DEF LockInv, TypeOK, MutualExclusion

(* While anybody holds the service, the session is open, or its last       *)
(* holder is just closing it (guard.h, 26-32).                             *)
THEOREM GuardHeldIsOpen == ASSUME Balanced PROVE Spec => []HeldIsOpen
<1>1. LockInv /\ SessionInv /\ CountInv => HeldIsOpen
  BY HeldByOther DEF HeldIsOpen
<1>2. QED
  BY <1>1, LockInvariant, CountInvariant, PTL

(* A command is never sent on a closed session, although commands take no  *)
(* lock and race with every other user's Initialize and Exit.              *)
THEOREM GuardCommandsOnOpenSession ==
    ASSUME Balanced PROVE Spec => []CommandsOnOpenSession
<1>1. LockInv /\ SessionInv /\ CountInv => CommandsOnOpenSession
  <2> SUFFICES ASSUME LockInv, SessionInv, CountInv,
                      NEW u \in Users, pc[u] = "command"
               PROVE  session = "open"
    BY DEF CommandsOnOpenSession
  <2>1. u \in holders /\ mutex # u
    BY DEF LockInv, MutualExclusion, CountInv, HolderAt, Opening, Closing
  <2>2. QED
    BY <2>1, HeldByOther
<1>2. QED
  BY <1>1, LockInvariant, CountInvariant, PTL
-----------------------------------------------------------------------------
(* What the abstract session shows is whether anybody holds it, except     *)
(* that it is the session itself while the mutex is free: these agree.     *)
OpenSeenIsHeld == OpenSeen = (holders # {})

LEMMA OpenSeenFollows == LockInv /\ SessionInv /\ CountInv => OpenSeenIsHeld
<1> SUFFICES ASSUME LockInv, SessionInv, CountInv
             PROVE  OpenSeen = (holders # {})
  BY DEF OpenSeenIsHeld
<1>1. CASE mutex = NULL
  <2>1. session = "open" <=> refCount > 0
    BY <1>1 DEF SessionInv, SessionMatchesCount
  <2>2. refCount = Cardinality(holders)
    BY <1>1 DEF CountInv, CountedHolders
  <2>3. Cardinality(holders) > 0 <=> holders # {}
    BY HoldersFinite, FS_EmptySet DEF LockInv
  <2>4. OpenSeen = (session = "open")
    BY <1>1 DEF OpenSeen
  <2>5. QED
    BY <2>1, <2>2, <2>3, <2>4
<1>2. CASE mutex # NULL
  BY <1>2 DEF OpenSeen
<1>3. QED
  BY <1>1, <1>2

(* With balanced calls the guard implements the atomic shared session of   *)
(* SharedSession: Initialize and Exit take effect when they unlock.        *)
THEOREM GuardImplementsSharedSession ==
    ASSUME Balanced PROVE Spec => ImplementsSharedSession
<1>1. Init => Abstract!Init
  BY UsersAssumption DEF Init, Abstract!Init, OpenSeen
<1>2. ASSUME LockInv, LockInv', CountInv, OpenSeenIsHeld, OpenSeenIsHeld',
             [Next]_vars
      PROVE  [Abstract!Next]_(Abstract!vars)
  <2>1. OpenSeen = (holders # {})
    BY <1>2 DEF OpenSeenIsHeld
  <2>2. OpenSeen' = (holders' # {})
    BY <1>2 DEF OpenSeenIsHeld
  <2> DEFINE Using == {u \in Users : pc[u] = "command"}
  <2> HIDE DEF OpenSeen
  <2> USE <1>2, <2>1, <2>2 DEF LockInv, TypeOK, MutualExclusion, CountInv,
          HolderAt, Opening, Closing, Goto
  <2>3. ASSUME NEW u \in Users, EndInit(u), pc[u] = "initOk"
        PROVE  Abstract!Acquire(u)
    <3>1. u \notin holders /\ holders' = holders \cup {u}
      BY <2>3 DEF EndInit, UndoCount, UnlockMutex
    <3>2. Using' = Using
      BY <2>3 DEF EndInit, UndoCount, UnlockMutex
    <3>3. QED
      BY <3>1, <3>2 DEF Abstract!Acquire
  <2>4. ASSUME NEW u \in Users, EndExit(u)
        PROVE  Abstract!Release(u)
    <3>1. u \in holders \ Using /\ holders' = holders \ {u}
      BY <2>4 DEF EndExit, UnlockMutex
    <3>2. Using' = Using
      BY <2>4 DEF EndExit, UnlockMutex
    <3>3. QED
      BY <3>1, <3>2 DEF Abstract!Release
  <2>5. ASSUME NEW u \in Users, BeginCommand(u)
        PROVE  Abstract!BeginUse(u)
    <3>1. u \in holders \ Using /\ holders' = holders
      BY <2>5 DEF BeginCommand
    <3>2. Using' = Using \cup {u}
      BY <2>5 DEF BeginCommand
    <3>3. QED
      BY <3>1, <3>2 DEF Abstract!BeginUse
  <2>6. ASSUME NEW u \in Users, EndCommand(u)
        PROVE  Abstract!EndUse(u)
    <3>1. u \in Using /\ u \in holders /\ holders' = holders
      BY <2>6 DEF EndCommand
    <3>2. Using' = Using \ {u}
      BY <2>6 DEF EndCommand
    <3>3. QED
      BY <3>1, <3>2 DEF Abstract!EndUse
  <2>7. ASSUME holders' = holders, Using' = Using
        PROVE  UNCHANGED Abstract!vars
    BY <2>7 DEF Abstract!vars
  <2>8. ASSUME NEW u \in Users,
               \/ CallInitialize(u) \/ BeginInit(u) \/ CallExit(u)
               \/ BeginExit(u) \/ GetService(u) \/ Setup(u) \/ Cleanup(u)
               \/ EndInit(u) /\ pc[u] = "initFailed"
        PROVE  holders' = holders /\ Using' = Using
    BY <2>8 DEF CallInitialize, BeginInit, CallExit, BeginExit, GetService,
                Setup, Cleanup, EndInit, LockMutex, DropCount, IsLastExit,
                UndoCount, UnlockMutex
  <2>9. CASE UNCHANGED vars
    BY <2>7, <2>9 DEF vars
  <2>10. ASSUME NEW u \in Users, EndInit(u)
         PROVE  pc[u] \in {"initOk", "initFailed"}
    BY <2>10 DEF EndInit, UndoCount, UnlockMutex
  <2>11. QED
    BY <2>3, <2>4, <2>5, <2>6, <2>7, <2>8, <2>9, <2>10
       DEF Next, Inside, Abstract!Next, UndoCount, UnlockMutex
<1>3. QED
  BY <1>1, <1>2, LockInvariant, CountInvariant, OpenSeenFollows, PTL
     DEF Spec, ImplementsSharedSession, Abstract!Spec
-----------------------------------------------------------------------------
(* The steps the user inside the guard may still have before it.           *)
StepsLeft(u) ==
    CASE pc[u] = "getService" -> 3
      [] pc[u] \in {"setup", "cleanup"} -> 2
      [] pc[u] \in {"initOk", "initFailed", "exitDone"} -> 1
      [] OTHER -> 0

(* The user that holds the mutex gives it back after three of its own      *)
(* steps at the latest, whatever fails, and those of other users neither   *)
(* take the mutex from it nor move it (guard.h, 10-32).                    *)
HolderMovesOn ==
    \A u \in Users : mutex = u =>
        IF Inside(u) THEN mutex' = NULL \/ StepsLeft(u)' < StepsLeft(u)
                     ELSE mutex' = u /\ pc'[u] = pc[u]
THEOREM GuardHolderMovesOn == Spec => [][HolderMovesOn]_vars
<1>1. LockInv /\ [Next]_vars => [HolderMovesOn]_vars
  <2> SUFFICES ASSUME LockInv, Next, NEW u \in Users, mutex = u
               PROVE  /\ Inside(u) => mutex' = NULL \/ StepsLeft(u)' < StepsLeft(u)
                      /\ ~Inside(u) => mutex' = u /\ pc'[u] = pc[u]
    BY DEF HolderMovesOn
  <2> USE DEF LockInv, TypeOK, Goto
  <2>1. pc[u] \in Opening \cup Closing /\ u # NULL
    BY UsersAssumption DEF MutualExclusion
  <2>2. ASSUME Inside(u) PROVE mutex' = NULL \/ StepsLeft(u)' < StepsLeft(u)
    BY <2>2 DEF Inside, GetService, Setup, EndInit, Cleanup, EndExit,
       UnlockMutex, StepsLeft
  <2>3. ASSUME ~Inside(u) PROVE mutex' = u /\ pc'[u] = pc[u]
    <3>1. PICK v \in Users :
             \/ CallInitialize(v) \/ BeginInit(v)
             \/ CallExit(v) \/ BeginExit(v)
             \/ Inside(v)
             \/ BeginCommand(v) \/ EndCommand(v)
      BY DEF Next
    <3>2. CASE Inside(v)
      <4>1. pc[v] \in Opening \cup Closing
        BY <3>2 DEF Inside, GetService, Setup, EndInit, Cleanup, EndExit,
           Opening, Closing
      <4>2. v = u
        BY <4>1 DEF MutualExclusion
      <4>3. QED
        BY <2>3, <3>2, <4>2
    <3>3. CASE BeginInit(v) \/ BeginExit(v)
      BY <2>1, <3>3 DEF BeginInit, BeginExit, LockMutex
    <3>4. CASE CallInitialize(v) \/ CallExit(v) \/ BeginCommand(v) \/ EndCommand(v)
      BY <2>1, <3>4 DEF CallInitialize, CallExit, BeginCommand, EndCommand,
         Opening, Closing
    <3>5. QED
      BY <3>1, <3>2, <3>3, <3>4
  <2>4. QED
    BY <2>2, <2>3
<1>2. QED
  BY <1>1, LockInvariant, PTL DEF Spec
=============================================================================
