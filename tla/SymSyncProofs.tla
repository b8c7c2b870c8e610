---------------------------- MODULE SymSyncProofs ----------------------------
(***************************************************************************)
(* Theorems about SymMutex, for any threads and any objects, and about     *)
(* SymEvents, for any threads that wait or start, any rates and any spans. *)
(***************************************************************************)
EXTENDS SymMutex, SymEvents, FiniteSets, FiniteSetTheorems, TLAPS

(***************************************************************************)
(* Mutexes.  The lock the flag of an object names is sound: it is free, or *)
(* held by a thread, and a recursive one counts from there.  Nothing is    *)
(* said of the other lock, which may hold anything; it is enough that no   *)
(* operation looks at it.                                                  *)
(***************************************************************************)
SoundR(m) ==
    \/ rmutex[m].owner = NoThread /\ rmutex[m].count = 0
    \/ rmutex[m].owner \in Threads /\ rmutex[m].count \in Nat \ {0}
SoundPlain(m) == mutex[m] \in Threads \cup {NoThread}
Sound(m) == IF rec[m] THEN SoundR(m) ELSE SoundPlain(m)

WaitsForLive == \A t \in Threads, m \in Mutexes : Waits(t, m) => m \in live
LockInv == TypeOK /\ WaitsForLive /\ \A m \in live : Sound(m)
-----------------------------------------------------------------------------
LEMMA LockInvInit == Init => LockInv
BY OwnerAssumption, DepthAssumption, MutexesAssumption
   DEF Init, LockInv, TypeOK, WaitsForLive, Waits, None, LeftR, Owners

LEMMA LockInvMake ==
    ASSUME LockInv, NEW m \in Mutexes, NEW r \in BOOLEAN,
           InitializeMutex(m, r) \/ InlinedInitialize(m, r)
    PROVE  LockInv'
<1> USE OwnerAssumption DEF LockInv, TypeOK, Owners, FreeR
<1>1. CASE InitializeMutex(m, r)
  <2>1. TypeOK' /\ live' = live \cup {m}
    BY <1>1 DEF InitializeMutex, ClearsR
  <2>2. WaitsForLive'
    BY <1>1 DEF InitializeMutex, WaitsForLive, Waits
  <2>3. Sound(m)'
    BY <1>1 DEF InitializeMutex, ClearsR, Sound, SoundR, SoundPlain
  <2>4. ASSUME NEW n \in live, n # m PROVE Sound(n)'
    BY <1>1, <2>4
       DEF InitializeMutex, ClearsR, Sound, SoundR, SoundPlain
  <2>5. QED
    BY <2>1, <2>2, <2>3, <2>4
<1>2. CASE InlinedInitialize(m, r)
  <2>1. TypeOK' /\ live' = live \cup {m}
    BY <1>2 DEF InlinedInitialize
  <2>2. WaitsForLive'
    BY <1>2 DEF InlinedInitialize, WaitsForLive, Waits
  <2>3. Sound(m)'
    BY <1>2 DEF InlinedInitialize, Sound, SoundR, SoundPlain
  <2>4. ASSUME NEW n \in live, n # m PROVE Sound(n)'
    BY <1>2, <2>4 DEF InlinedInitialize, Sound, SoundR, SoundPlain
  <2>5. QED
    BY <2>1, <2>2, <2>3, <2>4
<1>3. QED
  BY <1>1, <1>2

(* Whoever takes the lock the flag names leaves it sound. *)
LEMMA LockInvTake ==
    ASSUME LockInv, NEW t \in Threads, NEW m \in live,
           Takes(t, m), Take(t, m), UNCHANGED <<live, rec>>,
           call' = call \/ call' = [call EXCEPT ![t] = None]
    PROVE  LockInv'
<1> USE OwnerAssumption DEF LockInv, TypeOK, Owners
<1>1. Sound(m)
  OBVIOUS
<1>2. TypeOK'
  BY <1>1 DEF Take, Takes, LocksR, RLocked, CanLockR, CanLock, Sound, SoundR
<1>3. WaitsForLive'
  BY MutexesAssumption DEF WaitsForLive, Waits, None
<1>4. Sound(m)'
  BY <1>1 DEF Take, Takes, LocksR, RLocked, CanLockR, CanLock, Sound, SoundR,
              SoundPlain
<1>5. ASSUME NEW n \in live, n # m PROVE Sound(n)'
  BY <1>5 DEF Take, LocksR, RLocked, Sound, SoundR, SoundPlain
<1>6. QED
  BY <1>2, <1>3, <1>4, <1>5

LEMMA LockInvUnlock ==
    ASSUME LockInv, NEW t \in Threads, NEW m \in Mutexes, UnlockMutex(t, m)
    PROVE  LockInv'
<1> USE OwnerAssumption DEF LockInv, TypeOK, Owners
<1>1. Sound(m) /\ m \in live /\ UNCHANGED <<live, rec, call>>
  BY DEF UnlockMutex
<1>2. TypeOK'
  <2>1. CASE rec[m]
    <3>1. RUnlocked(t, m) \in [owner : Owners, count : Nat]
      BY <1>1, <2>1 DEF UnlockMutex, RUnlocked, Holder, Sound, SoundR
    <3>2. /\ rmutex' = [rmutex EXCEPT ![m] = RUnlocked(t, m)]
          /\ mutex' = mutex
      BY <2>1 DEF UnlockMutex, UnlocksR
    <3>3. QED
      BY <1>1, <3>1, <3>2
  <2>2. CASE ~rec[m]
    BY <1>1, <2>2 DEF UnlockMutex, UnlocksR
  <2>3. QED
    BY <2>1, <2>2
<1>3. Sound(m)'
  BY <1>1 DEF UnlockMutex, UnlocksR, RUnlocked, Holder, Sound, SoundR,
              SoundPlain
<1>4. WaitsForLive'
  BY <1>1 DEF WaitsForLive, Waits
<1>5. ASSUME NEW n \in live, n # m PROVE Sound(n)'
  BY <1>1, <1>5
     DEF UnlockMutex, UnlocksR, RUnlocked, Sound, SoundR, SoundPlain
<1>6. QED
  BY <1>1, <1>2, <1>3, <1>4, <1>5

LEMMA LockInvCall ==
    ASSUME LockInv, NEW t \in Threads, NEW m \in Mutexes, LockMutex(t, m)
    PROVE  LockInv'
BY DEF LockInv, TypeOK, WaitsForLive, Waits, LockMutex, Sound, SoundR,
       SoundPlain

LEMMA LockInvRetire ==
    ASSUME LockInv, NEW m \in Mutexes, Retire(m) PROVE LockInv'
<1> USE OwnerAssumption, DepthAssumption DEF LockInv, TypeOK, Owners
<1>1. PICK r \in BOOLEAN, l \in LeftR, o \in Owners :
        /\ rec' = [rec EXCEPT ![m] = r]
        /\ rmutex' = [rmutex EXCEPT ![m] = l]
        /\ mutex' = [mutex EXCEPT ![m] = o]
  BY DEF Retire
<1>2. l \in [owner : Owners, count : Nat]
  BY DEF LeftR
<1>3. TypeOK'
  BY <1>1, <1>2 DEF Retire
<1>4. WaitsForLive'
  BY DEF Retire, WaitsForLive, Waits
<1>5. ASSUME NEW n \in live' PROVE Sound(n)'
  BY <1>1, <1>5 DEF Retire, Sound, SoundR, SoundPlain
<1>6. QED
  BY <1>3, <1>4, <1>5

LEMMA LockInvNext == LockInv /\ [Next]_vars => LockInv'
<1> SUFFICES ASSUME LockInv, [Next]_vars PROVE LockInv'
  OBVIOUS
<1>1. ASSUME NEW t \in Threads, LockReturns(t) PROVE LockInv'
  <2>1. PICK m \in Mutexes : Waits(t, m) /\ Takes(t, m) /\ Take(t, m)
                             /\ call' = [call EXCEPT ![t] = None]
                             /\ UNCHANGED <<live, rec>>
    BY <1>1 DEF LockReturns
  <2>2. m \in live
    BY <2>1 DEF LockInv, WaitsForLive
  <2>3. QED
    BY <2>1, <2>2, LockInvTake
<1>2. ASSUME NEW t \in Threads, NEW m \in Mutexes, TryLockMutex(t, m)
      PROVE  LockInv'
  BY <1>2, LockInvTake DEF TryLockMutex
<1>3. CASE UNCHANGED vars
  BY <1>3 DEF vars, LockInv, TypeOK, WaitsForLive, Waits, Sound, SoundR,
              SoundPlain
<1>4. QED
  BY <1>1, <1>2, <1>3, LockInvMake, LockInvCall, LockInvUnlock, LockInvRetire
     DEF Next

LEMMA LockInvariant == Spec => []LockInv
BY LockInvInit, LockInvNext, PTL DEF Spec

(* The memory of every mutex keeps its type, whatever was in it.           *)
THEOREM MutexTypeCorrect == Spec => []TypeOK
BY LockInvariant, PTL DEF LockInv

(* A thread in LockMutex is kept by a thread that can release the lock,    *)
(* and by itself only for a plain mutex (sym-impl.c, 223-260).             *)
THEOREM MutexWaitsForAHolder == Spec => []WaitsForAHolder
<1>1. ASSUME LockInv, NEW t \in Threads, NEW m \in Mutexes, Waits(t, m)
      PROVE  m \in live
  BY <1>1 DEF LockInv, WaitsForLive
<1>2. ASSUME LockInv, NEW t \in Threads, NEW m \in live, ~Takes(t, m)
      PROVE  Holder(m) \in Threads /\ (Holder(m) = t => ~rec[m])
  <2>1. Sound(m)
    BY <1>2 DEF LockInv
  <2>2. QED
    BY <1>2, <2>1 DEF Takes, LocksR, CanLockR, CanLock, Holder, Sound, SoundR,
                      SoundPlain
<1>3. LockInv => WaitsForAHolder
  BY <1>1, <1>2 DEF WaitsForAHolder
<1>4. QED
  BY <1>3, LockInvariant, PTL

(* A thread that locks when IsMutexLockedByCurrentThread answers false is  *)
(* never kept by itself (sym-impl.c, 641-651).                             *)
THEOREM MutexAnswerGuardsRelock == Spec => []AnswerGuardsRelock
<1>1. LockInv => AnswerGuardsRelock
  BY OwnerAssumption
     DEF LockInv, TypeOK, AnswerGuardsRelock, IsLockedByCurrentThread, Holder,
         Takes, LocksR, CanLockR
<1>2. QED
  BY <1>1, LockInvariant, PTL
-----------------------------------------------------------------------------
(* What NnMutex sees of an object, and of all of them. *)
Seen(m) ==
    [live |-> m \in live,
     rec |-> m \in live /\ rec[m],
     owner |-> IF m \in live THEN Holder(m) ELSE NoThread,
     depth |-> IF m \in live THEN Depth(m) ELSE 0]
SeenLocks == [m \in Mutexes |-> Seen(m)]

LEMMA PromisedInit ==
    ASSUME \A m \in Mutexes : Seen(m) = Promised!Unmade PROVE Promised!Init
BY Zenon DEF Promised!Init, Seen

(* One object changes and the others look as before. *)
LEMMA SeenChange ==
    ASSUME NEW m \in Mutexes, NEW v, Seen(m)' = v,
           \A n \in Mutexes \ {m} : Seen(n)' = Seen(n)
    PROVE  SeenLocks' = [SeenLocks EXCEPT ![m] = v]
BY DEF SeenLocks

(* A mutex that is live is seen as its flag, its holder and its depth. *)
LEMMA SeenLive ==
    ASSUME NEW m \in Mutexes, m \in live, rec[m] \in BOOLEAN
    PROVE  Seen(m) = [live |-> TRUE, rec |-> rec[m], owner |-> Holder(m),
                      depth |-> Depth(m)]
<1>1. (m \in live) = TRUE /\ (m \in live /\ rec[m]) = rec[m]
  BY Zenon
<1>2. (IF m \in live THEN Holder(m) ELSE NoThread) = Holder(m)
      /\ (IF m \in live THEN Depth(m) ELSE 0) = Depth(m)
  OBVIOUS
<1>3. QED
  BY <1>1, <1>2, Zenon DEF Seen

LEMMA SeenLiveNext ==
    ASSUME NEW m \in Mutexes, m \in live', rec'[m] \in BOOLEAN
    PROVE  Seen(m)' = [live |-> TRUE, rec |-> rec'[m], owner |-> Holder(m)',
                       depth |-> Depth(m)']
<1>1. (m \in live') = TRUE /\ (m \in live' /\ rec'[m]) = rec'[m]
  BY Zenon
<1>2. (IF m \in live' THEN Holder(m)' ELSE NoThread) = Holder(m)'
      /\ (IF m \in live' THEN Depth(m)' ELSE 0) = Depth(m)'
  OBVIOUS
<1>3. QED
  BY <1>1, <1>2, Zenon DEF Seen

LEMMA SeenDeadNext ==
    ASSUME NEW m \in Mutexes, m \notin live'
    PROVE  Seen(m)' = Promised!Unmade
<1>1. (m \in live') = FALSE
  OBVIOUS
<1>2. (m \in live' /\ rec'[m]) = FALSE
  OBVIOUS
<1>3. (IF m \in live' THEN Holder(m)' ELSE NoThread) = NoThread
      /\ (IF m \in live' THEN Depth(m)' ELSE 0) = 0
  OBVIOUS
<1>4. QED
  BY <1>1, <1>2, <1>3, Zenon DEF Seen, Promised!Unmade

(* The steps NnMutex allows, in these terms. *)
LEMMA PromisedMake ==
    ASSUME NEW m \in Mutexes, NEW r \in BOOLEAN, ~SeenLocks[m].live,
           SeenLocks' = [SeenLocks EXCEPT ![m] = Promised!Fresh(r)]
    PROVE  Promised!Make(m, r)
BY Zenon DEF Promised!Make, SeenLocks, Seen

LEMMA PromisedDrop ==
    ASSUME NEW m \in Mutexes, SeenLocks[m].live,
           SeenLocks[m].owner = NoThread,
           SeenLocks' = [SeenLocks EXCEPT ![m] = Promised!Unmade]
    PROVE  Promised!Drop(m)
BY Zenon DEF Promised!Drop, SeenLocks, Seen

LEMMA PromisedAcquire ==
    ASSUME NEW m \in Mutexes, NEW t \in Threads, SeenLocks[m].live,
           \/ SeenLocks[m].owner = NoThread
           \/ SeenLocks[m].rec /\ SeenLocks[m].owner = t,
           SeenLocks' = [SeenLocks EXCEPT ![m] =
              [live |-> TRUE, rec |-> SeenLocks[m].rec, owner |-> t,
               depth |-> SeenLocks[m].depth + 1]]
    PROVE  Promised!Acquire(t, m)
BY Zenon DEF Promised!Acquire, Promised!OwnedBy, SeenLocks, Seen

LEMMA PromisedRelease ==
    ASSUME NEW m \in Mutexes, NEW t \in Threads,
           SeenLocks[m].live, SeenLocks[m].owner = t,
           SeenLocks' = [SeenLocks EXCEPT ![m] =
              [live |-> TRUE, rec |-> SeenLocks[m].rec,
               owner |-> IF SeenLocks[m].depth = 1 THEN NoThread ELSE t,
               depth |-> SeenLocks[m].depth - 1]]
    PROVE  Promised!Release(t, m)
BY Zenon DEF Promised!Release, Promised!OwnedBy, SeenLocks, Seen

LEMMA MakeIsMake ==
    ASSUME LockInv, NEW m \in Mutexes, NEW r \in BOOLEAN,
           InitializeMutex(m, r) \/ InlinedInitialize(m, r)
    PROVE  Promised!Make(m, r)
<1> USE DEF LockInv, TypeOK, InitializeMutex, InlinedInitialize, ClearsR,
            FreeR, Seen, Holder, Depth
<1>1. /\ m \in live' /\ rec'[m] = r
      /\ Holder(m)' = NoThread /\ Depth(m)' = 0
  OBVIOUS
<1>2. Seen(m)' = Promised!Fresh(r)
  BY <1>1, SeenLiveNext, Zenon DEF Promised!Fresh
<1>3. ASSUME NEW n \in Mutexes \ {m} PROVE Seen(n)' = Seen(n)
  BY <1>3
<1>4. SeenLocks' = [SeenLocks EXCEPT ![m] = Promised!Fresh(r)]
  BY <1>2, <1>3, SeenChange
<1>5. ~SeenLocks[m].live
  BY DEF SeenLocks
<1>6. QED
  BY ONLY <1>4, <1>5, PromisedMake

LEMMA RetireIsDrop ==
    ASSUME LockInv, NEW m \in Mutexes, Retire(m)
    PROVE  Promised!Drop(m)
<1> USE DEF LockInv, TypeOK, Retire, Seen, Holder, Depth
<1>1. Seen(m)' = Promised!Unmade
  BY SeenDeadNext
<1>2. ASSUME NEW n \in Mutexes \ {m} PROVE Seen(n)' = Seen(n)
  BY <1>2
<1>3. SeenLocks' = [SeenLocks EXCEPT ![m] = Promised!Unmade]
  BY <1>1, <1>2, SeenChange
<1>4. SeenLocks[m].live /\ SeenLocks[m].owner = NoThread
  BY DEF SeenLocks
<1>5. QED
  BY ONLY <1>3, <1>4, PromisedDrop

LEMMA TakeIsAcquire ==
    ASSUME LockInv, NEW t \in Threads, NEW m \in live,
           Takes(t, m), Take(t, m), UNCHANGED <<live, rec>>
    PROVE  Promised!Acquire(t, m)
<1> USE OwnerAssumption
<1>1. m \in Mutexes /\ Sound(m)
  BY DEF LockInv, TypeOK
<1>2. rec[m] \in BOOLEAN /\ rec'[m] = rec[m] /\ m \in live'
  BY <1>1 DEF LockInv, TypeOK
<1>3. Seen(m) = [live |-> TRUE, rec |-> rec[m], owner |-> Holder(m),
                 depth |-> Depth(m)]
  BY <1>1, <1>2, SeenLive
<1>4. Holder(m) = NoThread \/ (rec[m] /\ Holder(m) = t)
  BY DEF Holder, Takes, LocksR, CanLockR, CanLock
<1>5. Holder(m)' = t /\ Depth(m)' = Depth(m) + 1
  BY <1>1 DEF Holder, Depth, Takes, Take, LocksR, RLocked, CanLockR,
              CanLock, LockInv, TypeOK, Sound, SoundR, SoundPlain
<1>6. Seen(m)' = [live |-> TRUE, rec |-> rec[m], owner |-> t,
                  depth |-> Depth(m) + 1]
  BY <1>1, <1>2, <1>5, SeenLiveNext
<1>7. ASSUME NEW n \in Mutexes \ {m} PROVE Seen(n)' = Seen(n)
  BY <1>7 DEF Seen, Holder, Depth, Take, LocksR, LockInv, TypeOK
<1>8. SeenLocks' =
        [SeenLocks EXCEPT ![m] = [live |-> TRUE, rec |-> rec[m], owner |-> t,
                                  depth |-> Depth(m) + 1]]
  BY <1>1, <1>6, <1>7, SeenChange
<1>9. /\ SeenLocks[m].live /\ SeenLocks[m].rec = rec[m]
      /\ SeenLocks[m].owner = Holder(m) /\ SeenLocks[m].depth = Depth(m)
  BY <1>1, <1>3 DEF SeenLocks
<1>10. QED
  BY <1>1, <1>4, <1>8, <1>9, PromisedAcquire

LEMMA UnlockIsRelease ==
    ASSUME LockInv, NEW t \in Threads, NEW m \in Mutexes, UnlockMutex(t, m)
    PROVE  Promised!Release(t, m)
<1> USE OwnerAssumption
<1> DEFINE left == IF Depth(m) = 1 THEN NoThread ELSE t
<1>1. m \in live /\ Sound(m) /\ Holder(m) = t /\ UNCHANGED <<live, rec>>
  BY DEF LockInv, UnlockMutex
<1>2. rec[m] \in BOOLEAN /\ rec'[m] = rec[m] /\ m \in live'
  BY <1>1 DEF LockInv, TypeOK
<1>3. Seen(m) = [live |-> TRUE, rec |-> rec[m], owner |-> t,
                 depth |-> Depth(m)]
  BY <1>1, <1>2, SeenLive
<1>4. Holder(m)' = left /\ Depth(m)' = Depth(m) - 1
  BY <1>1 DEF Holder, Depth, UnlockMutex, UnlocksR, RUnlocked, LockInv,
              TypeOK, Sound, SoundR, SoundPlain
<1>5. Seen(m)' = [live |-> TRUE, rec |-> rec[m], owner |-> left,
                  depth |-> Depth(m) - 1]
  BY <1>1, <1>2, <1>4, SeenLiveNext
<1>6. ASSUME NEW n \in Mutexes \ {m} PROVE Seen(n)' = Seen(n)
  BY <1>6 DEF Seen, Holder, Depth, UnlockMutex, UnlocksR, LockInv, TypeOK
<1>7. SeenLocks' =
        [SeenLocks EXCEPT ![m] = [live |-> TRUE, rec |-> rec[m],
                                  owner |-> left, depth |-> Depth(m) - 1]]
  BY <1>5, <1>6, SeenChange
<1>8. /\ SeenLocks[m].live /\ SeenLocks[m].rec = rec[m]
      /\ SeenLocks[m].owner = t /\ SeenLocks[m].depth = Depth(m)
  BY <1>3 DEF SeenLocks
<1>9. QED
  BY <1>7, <1>8, PromisedRelease

(* The two libnx locks in one object are one nn::os mutex, whatever kinds  *)
(* of mutex its memory was before (sym-impl.c, 206-274 and 627-639).       *)
THEOREM MutexImplementsNnMutex == Spec => ImplementsNnMutex
<1>1. Init => Promised!Init
  <2>1. ASSUME NEW m \in Mutexes, Init PROVE Seen(m) = Promised!Unmade
    <3>1. m \notin live
      BY <2>1 DEF Init
    <3>2. (m \in live) = FALSE
      BY <3>1
    <3>3. (m \in live /\ rec[m]) = FALSE
      BY <3>1
    <3>4. (IF m \in live THEN Holder(m) ELSE NoThread) = NoThread
          /\ (IF m \in live THEN Depth(m) ELSE 0) = 0
      BY <3>1
    <3>5. QED
      BY <3>2, <3>3, <3>4, Zenon DEF Seen, Promised!Unmade
  <2>2. QED
    BY <2>1, PromisedInit
<1>2. ASSUME LockInv, [Next]_vars
      PROVE  Promised!Next \/ UNCHANGED SeenLocks
  <2>1. ASSUME NEW t \in Threads, LockReturns(t)
        PROVE  \E m \in Mutexes : Promised!Acquire(t, m)
    <3>1. PICK m \in Mutexes : Waits(t, m) /\ Takes(t, m) /\ Take(t, m)
                               /\ UNCHANGED <<live, rec>>
      BY <2>1 DEF LockReturns
    <3>2. m \in live
      BY <1>2, <3>1 DEF LockInv, WaitsForLive
    <3>3. QED
      BY <1>2, <3>1, <3>2, TakeIsAcquire
  <2>2. ASSUME NEW t \in Threads, NEW m \in Mutexes, TryLockMutex(t, m)
        PROVE  Promised!Acquire(t, m)
    BY <1>2, <2>2, TakeIsAcquire DEF TryLockMutex
  <2>3. ASSUME \/ UNCHANGED vars
               \/ \E t \in Threads, m \in Mutexes : LockMutex(t, m)
        PROVE  UNCHANGED SeenLocks
    BY <2>3 DEF vars, LockMutex, SeenLocks, Seen, Holder, Depth
  <2>4. QED
    BY <1>2, <2>1, <2>2, <2>3, MakeIsMake, RetireIsDrop, UnlockIsRelease
       DEF Next, Promised!Next
<1>3. QED
  BY <1>1, <1>2, LockInvariant, PTL
     DEF Spec, ImplementsNnMutex, Promised!Spec, SeenLocks, Seen
-----------------------------------------------------------------------------
(***************************************************************************)
(* Events.                                                                 *)
(***************************************************************************)

(* Arithmetic that the conversion of ticks rests on. *)
LEMMA DivMod ==
    ASSUME NEW a \in Nat, NEW b \in Nat \ {0}
    PROVE  /\ a \div b \in Nat /\ a % b \in 0 .. b - 1
           /\ a = b * (a \div b) + (a % b)
BY SMT

LEMMA DivBounds ==
    ASSUME NEW a \in Nat, NEW b \in Nat \ {0}
    PROVE  /\ a \div b \in Nat
           /\ b * (a \div b) <= a /\ a < b * (a \div b) + b
<1> DEFINE z == a \div b
<1>1. z \in Nat /\ a % b \in 0 .. b - 1 /\ a = b * z + (a % b)
  BY DivMod
<1> HIDE DEF z
<1>2. b * z \in Nat
  BY <1>1
<1>3. z \in Nat /\ b * z <= a /\ a < b * z + b
  BY <1>1, <1>2
<1>4. QED
  BY <1>3 DEF z

LEMMA MulLess ==
    ASSUME NEW a \in Nat, NEW b \in Nat, NEW c \in Nat, a < b
    PROVE  c * a + c <= c * b
<1>1. PICK d \in Nat : b = a + 1 + d
  <2>1. b - a - 1 \in Nat /\ b = a + 1 + (b - a - 1)
    OBVIOUS
  <2>2. QED
    BY <2>1
<1>2. c * b = c * a + c + c * d
  BY <1>1
<1>3. c * d \in Nat /\ c * a \in Nat
  OBVIOUS
<1>4. QED
  BY <1>2, <1>3

LEMMA DivIsUnique ==
    ASSUME NEW a \in Nat, NEW b \in Nat \ {0}, NEW q \in Nat,
           b * q <= a, a < b * q + b
    PROVE  a \div b = q
<1> DEFINE z == a \div b
<1>1. z \in Nat /\ b * z <= a /\ a < b * z + b
  BY DivBounds
<1> HIDE DEF z
<1>2. b * z \in Nat /\ b * q \in Nat
  BY <1>1
<1>3. ~(z < q)
  BY <1>1, <1>2, MulLess
<1>4. ~(q < z)
  BY <1>1, <1>2, MulLess
<1>5. z = q
  BY <1>1, <1>3, <1>4
<1>6. QED
  BY <1>5 DEF z

LEMMA ModIsIdentity ==
    ASSUME NEW a \in Nat, NEW b \in Nat, a < b
    PROVE  a % b = a
BY SMT

LEMMA ConversionType ==
    ASSUME NEW c \in Nat
    PROVE  ConvertToTimeSpan(c) \in Nat
<1>1. NsRate \in Nat \ {0} /\ TickRate \in Nat \ {0} /\ Wrap \in Nat \ {0}
  <2>1. NsRate * TickRate \in Nat
    BY RatesAssumption
  <2>2. QED
    BY <2>1, RatesAssumption
<1>2. \A a \in Nat, b \in Nat \ {0} : a \div b \in Nat /\ a % b \in Nat
  BY DivMod
<1> DEFINE r == c % TickRate
           q == c \div TickRate
           y == ((NsRate * r) % Wrap) \div TickRate
           w == y + NsRate * q
<1>3. r \in Nat /\ q \in Nat
  BY <1>1, <1>2
<1> HIDE DEF r, q
<1>4. NsRate * r \in Nat /\ NsRate * q \in Nat
  BY <1>1, <1>3
<1>5. y \in Nat
  <2>1. (NsRate * r) % Wrap \in Nat
    BY <1>1, <1>2, <1>4
  <2>2. QED
    BY <1>1, <1>2, <2>1
<1> HIDE DEF y
<1>6. w \in Nat
  BY <1>4, <1>5
<1> HIDE DEF w
<1>7. w % Wrap \in Nat
  BY <1>1, <1>2, <1>6
<1>8. QED
  BY <1>7 DEF ConvertToTimeSpan, w, y, q, r

LEMMA ConversionIsExact ==
    ASSUME NEW c \in Nat, NsRate * c < Wrap * TickRate
    PROVE  ConvertToTimeSpan(c) = (NsRate * c) \div TickRate
<1> DEFINE q == c \div TickRate
           r == c % TickRate
           x == NsRate * r
           y == x \div TickRate
<1>0. NsRate \in Nat \ {0} /\ TickRate \in Nat \ {0} /\ Wrap \in Nat
      /\ NsRate * TickRate < Wrap
  BY RatesAssumption
<1>1. q \in Nat /\ r \in Nat /\ r < TickRate /\ c = TickRate * q + r
  BY <1>0, DivMod
<1> HIDE DEF q, r
<1>2. x \in Nat /\ x < Wrap
  <2>1. NsRate * r + NsRate <= NsRate * TickRate
    BY <1>0, <1>1, MulLess
  <2>2. NsRate * r \in Nat /\ NsRate * TickRate \in Nat
    BY <1>0, <1>1
  <2>3. QED
    BY <1>0, <2>1, <2>2
<1>3. x % Wrap = x
  BY <1>0, <1>2, ModIsIdentity
<1>4. y \in Nat /\ TickRate * y <= x /\ x < TickRate * y + TickRate
  BY <1>0, <1>2, DivBounds
<1>5. NsRate * c = TickRate * (NsRate * q) + x
  BY <1>0, <1>1
<1>6. NsRate * q \in Nat /\ NsRate * c \in Nat
  BY <1>0, <1>1
<1> HIDE DEF x, y
<1>7. TickRate * (y + NsRate * q) = TickRate * y + TickRate * (NsRate * q)
  BY <1>0, <1>4, <1>6
<1> DEFINE w == y + NsRate * q
<1>8. w \in Nat /\ TickRate * w <= NsRate * c
      /\ NsRate * c < TickRate * w + TickRate
  <2>1. TickRate * y \in Nat /\ TickRate * (NsRate * q) \in Nat /\ w \in Nat
    BY <1>0, <1>4, <1>6
  <2>2. QED
    BY <1>0, <1>2, <1>4, <1>5, <1>6, <1>7, <2>1
<1> HIDE DEF w
<1>9. (NsRate * c) \div TickRate = w
  BY <1>0, <1>6, <1>8, DivIsUnique
<1>10. w < Wrap
  <2>1. SUFFICES ASSUME Wrap <= w PROVE FALSE
    BY <1>0, <1>8
  <2>2. TickRate * Wrap <= TickRate * w
    <3>1. CASE Wrap = w
      BY <1>0, <3>1
    <3>2. CASE Wrap < w
      <4>1. TickRate * Wrap + TickRate <= TickRate * w
        BY <1>0, <1>8, <3>2, MulLess
      <4>2. TickRate * Wrap \in Nat /\ TickRate * w \in Nat
        BY <1>0, <1>8
      <4>3. QED
        BY <1>0, <4>1, <4>2
    <3>3. QED
      BY <1>0, <1>8, <2>1, <3>1, <3>2
  <2>3. Wrap * TickRate = TickRate * Wrap /\ TickRate * Wrap \in Nat
    BY <1>0
  <2>4. TickRate * w \in Nat
    BY <1>0, <1>8
  <2>5. QED
    BY <1>6, <1>8, <2>2, <2>3, <2>4
<1>11. w % Wrap = w
  BY <1>0, <1>8, <1>10, ModIsIdentity
<1>12. ConvertToTimeSpan(c) = w % Wrap
  BY <1>3 DEF ConvertToTimeSpan, w, x, y, q, r
<1>13. QED
  BY <1>9, <1>11, <1>12
-----------------------------------------------------------------------------
(***************************************************************************)
(* The timer is set, or about to be set anew, only by a start that no wait *)
(* has used up, or by one that was overtaken.                              *)
(***************************************************************************)
NowStarts == {t \in Callers : waits[t] = "startNow"}
Armed == IF Gone THEN 0 ELSE 1
TimerIsUnused ==
    /\ IsFiniteSet(NowStarts)
    /\ wakes + Armed + Cardinality(NowStarts) <= starts + overtaken
EventsInv == EventsTypeOK /\ TimerIsUnused

LEMMA NowStartsCount ==
    ASSUME EventsInv
    PROVE  Cardinality(NowStarts) \in Nat /\ Armed \in {0, 1}
BY FS_CardinalityType DEF EventsInv, TimerIsUnused, Armed

LEMMA EventsInvInit == EventsInit => EventsInv
<1> SUFFICES ASSUME EventsInit PROVE EventsInv
  OBVIOUS
<1>1. EventsTypeOK
  BY RatesAssumption DEF EventsInit, EventsTypeOK
<1>2. NowStarts = {} /\ Armed = 0
  BY DEF EventsInit, NowStarts, Armed, Gone
<1>3. QED
  BY <1>1, <1>2, FS_EmptySet DEF EventsInit, EventsInv, TimerIsUnused

(* What does not touch the timer.                                          *)
LEMMA EventsInvEvent ==
    ASSUME EventsInv,
           \/ Tick \/ SignalEvent
           \/ \E m \in {"auto", "manual"} : InitializeEvent(m)
           \/ \E t \in Callers : \/ TimedWaitEvent(t) \/ WaitSucceeds(t)
                                 \/ WaitTimesOut(t) \/ WaitTimerEvent(t)
    PROVE  EventsInv'
<1>1. UNCHANGED tms
  BY DEF Tick, SignalEvent, InitializeEvent, TimedWaitEvent, WaitSucceeds,
         WaitTimesOut, WaitTimerEvent
<1>2. EventsTypeOK'
  <2> USE RatesAssumption DEF EventsInv, EventsTypeOK, tms
  <2>1. CASE Tick
    BY <2>1 DEF Tick
  <2>2. CASE SignalEvent \/ \E m \in {"auto", "manual"} : InitializeEvent(m)
    <3>1. UNCHANGED <<tms, clock, waits>>
      BY <2>2 DEF SignalEvent, InitializeEvent
    <3>2. CASE SignalEvent
      BY <3>1, <3>2 DEF SignalEvent
    <3>3. ASSUME NEW m \in {"auto", "manual"}, InitializeEvent(m)
          PROVE  event' \in [signal : BOOLEAN, autoClear : BOOLEAN]
      <4>1. AutoClear(m) \in BOOLEAN
        BY DEF AutoClear
      <4> HIDE DEF EventsInv
      <4>2. QED
        BY <3>3, <4>1 DEF InitializeEvent
    <3>4. QED
      BY <2>2, <3>1, <3>2, <3>3
  <2>3. CASE \E t \in Callers : \/ TimedWaitEvent(t) \/ WaitSucceeds(t)
                                \/ WaitTimesOut(t) \/ WaitTimerEvent(t)
    BY <1>1, <2>3 DEF TimedWaitEvent, WaitSucceeds, WaitTimesOut,
                      WaitTimerEvent
  <2>4. QED
    BY <2>1, <2>2, <2>3
<1>3. NowStarts' = NowStarts
  BY DEF EventsInv, EventsTypeOK, NowStarts, Tick, SignalEvent,
         InitializeEvent, TimedWaitEvent, WaitSucceeds, WaitTimesOut,
         WaitTimerEvent, NotWaiting
<1>4. QED
  BY <1>1, <1>2, <1>3 DEF EventsInv, TimerIsUnused, Armed, Gone, tms

LEMMA EventsInvEmpty ==
    ASSUME EventsInv, InitializeTimerEvent \/ FinalizeTimerEvent
    PROVE  EventsInv'
<1> USE DEF InitializeTimerEvent, FinalizeTimerEvent
<1>1. EventsTypeOK'
  BY DEF EventsInv, EventsTypeOK
<1>2. NowStarts' = NowStarts /\ Armed' = 0
  BY DEF NowStarts, Armed, Gone, EventsInv, EventsTypeOK
<1>3. starts \in Nat /\ wakes \in Nat /\ overtaken \in Nat
  BY RatesAssumption DEF EventsInv, EventsTypeOK
<1>4. QED
  BY <1>1, <1>2, <1>3, NowStartsCount DEF EventsInv, TimerIsUnused

LEMMA EventsInvStart ==
    ASSUME EventsInv, NEW t \in Callers, NEW span \in Spans,
           StartOneShotTimerEvent(t, span)
    PROVE  EventsInv'
<1> USE RatesAssumption DEF StartOneShotTimerEvent, StartType
<1>1. EventsTypeOK'
  <2> USE DEF EventsInv, EventsTypeOK
  <2>1. timer' \in [nextTick : Nat, type : {"oneShot"}]
        /\ starts' \in 0 .. MaxStarts
    OBVIOUS
  <2>2. ran' \in [at : Nat, span : Nat, slept : Int, asked : Nat]
    <3>1. clock \in Nat /\ span \in Nat
      OBVIOUS
    <3>2. QED
      BY <3>1
  <2>3. waits' \in [Callers -> {"none", "event", "timer", "startNow", "start"}]
    OBVIOUS
  <2>4. QED
    BY <2>1, <2>2, <2>3
<1>2. waits[t] = "none" /\ t \notin NowStarts
  BY DEF NotWaiting, NowStarts
<1>3. wakes' = wakes /\ starts' = starts + 1 /\ overtaken' = overtaken
      /\ starts \in Nat /\ wakes \in Nat /\ overtaken \in Nat
  BY DEF EventsInv, EventsTypeOK
<1>4. CASE span = 0
  <2>1. NowStarts' = NowStarts \cup {t}
    BY <1>4 DEF NowStarts, EventsInv, EventsTypeOK
  <2>2. /\ IsFiniteSet(NowStarts')
        /\ Cardinality(NowStarts') = Cardinality(NowStarts) + 1
    BY <1>2, <2>1, FS_AddElement DEF EventsInv, TimerIsUnused
  <2>3. Armed' = 0
    BY <1>4 DEF Armed, Gone
  <2>4. QED
    BY <1>1, <1>3, <2>2, <2>3, NowStartsCount DEF EventsInv, TimerIsUnused
<1>5. CASE span # 0
  <2>1. NowStarts' = NowStarts
    BY <1>2, <1>5 DEF NowStarts, EventsInv, EventsTypeOK
  <2>2. Armed' = 1
    BY <1>5 DEF Armed, Gone
  <2>3. QED
    BY <1>1, <1>3, <2>1, <2>2, NowStartsCount DEF EventsInv, TimerIsUnused
<1>6. QED
  BY <1>4, <1>5

LEMMA EventsInvUtimerStart ==
    ASSUME EventsInv, NEW t \in Callers, UtimerStart(t)
    PROVE  EventsInv'
<1> USE RatesAssumption DEF UtimerStart
<1>1. EventsTypeOK'
  BY DEF EventsInv, EventsTypeOK
<1>2. /\ wakes' = wakes /\ starts' = starts
      /\ starts \in Nat /\ wakes \in Nat /\ overtaken \in Nat
  BY DEF EventsInv, EventsTypeOK
<1>3. Armed' \in {0, 1} /\ (~Gone => Armed = 1) /\ (Gone => Armed = 0)
  BY DEF Armed
<1>4. CASE waits[t] = "startNow"
  <2>1. NowStarts' = NowStarts \ {t} /\ t \in NowStarts
    BY <1>4 DEF NowStarts, EventsInv, EventsTypeOK
  <2>2. /\ IsFiniteSet(NowStarts')
        /\ Cardinality(NowStarts') = Cardinality(NowStarts) - 1
    BY <2>1, FS_RemoveElement DEF EventsInv, TimerIsUnused
  <2>3. overtaken' = overtaken
    BY <1>2, <1>4
  <2>4. QED
    BY <1>1, <1>2, <1>3, <2>2, <2>3, NowStartsCount
       DEF EventsInv, TimerIsUnused
<1>5. CASE waits[t] = "start"
  <2>1. NowStarts' = NowStarts
    BY <1>5 DEF NowStarts, EventsInv, EventsTypeOK
  <2>2. overtaken' = overtaken + (IF Gone THEN 1 ELSE 0)
    BY <1>5
  <2>3. QED
    BY <1>1, <1>2, <1>3, <2>1, <2>2, NowStartsCount
       DEF EventsInv, TimerIsUnused
<1>6. QED
  BY <1>4, <1>5

LEMMA EventsInvFires ==
    ASSUME EventsInv, NEW t \in Callers, TimerFires(t)
    PROVE  EventsInv'
<1>1. timer' = [timer EXCEPT !.nextTick = 0]
  BY DEF TimerFires, EventsInv, EventsTypeOK
<1>2. /\ waits' = [waits EXCEPT ![t] = "none"] /\ waits[t] = "timer"
      /\ wakes' = wakes + 1 /\ timer.nextTick # 0
      /\ UNCHANGED <<event, clock, starts, overtaken>>
  BY DEF TimerFires
<1>3. EventsTypeOK'
  <2>1. ConvertToTimeSpan(clock) \in Int /\ ConvertToTimeSpan(ran.at) \in Int
    BY RatesAssumption, ConversionType DEF EventsInv, EventsTypeOK
  <2>2. ran' \in [at : Nat, span : Nat, slept : Int, asked : Nat]
    <3>1. /\ ran'.at = ran.at /\ ran'.span = ran.span
          /\ ran' = [ran EXCEPT
               !.slept = ConvertToTimeSpan(clock) - ConvertToTimeSpan(ran.at),
               !.asked = ran.span]
      BY DEF TimerFires, EventsInv, EventsTypeOK
    <3> DEFINE d == ConvertToTimeSpan(clock) - ConvertToTimeSpan(ran.at)
    <3>2. d \in Int
      BY <2>1
    <3> HIDE DEF d
    <3>3. ran' = [ran EXCEPT !.slept = d, !.asked = ran.span]
      BY <3>1 DEF d
    <3>4. QED
      BY <3>2, <3>3 DEF EventsInv, EventsTypeOK
  <2>3. QED
    BY <1>1, <1>2, <2>2 DEF EventsInv, EventsTypeOK
<1>4. NowStarts' = NowStarts
  BY <1>2 DEF NowStarts, EventsInv, EventsTypeOK
<1>5. Armed = 1 /\ Armed' = 0
  BY <1>1, <1>2 DEF Armed, Gone, EventsInv, EventsTypeOK
<1>6. starts \in Nat /\ wakes \in Nat /\ overtaken \in Nat
  BY RatesAssumption DEF EventsInv, EventsTypeOK
<1>7. QED
  BY <1>2, <1>3, <1>4, <1>5, <1>6, NowStartsCount
     DEF EventsInv, TimerIsUnused

LEMMA EventsInvariant == EventsSpec => []EventsInv
<1>1. EventsInv /\ [EventsNext]_eventVars => EventsInv'
  <2>1. CASE UNCHANGED eventVars
    BY <2>1 DEF eventVars, tms, EventsInv, EventsTypeOK, TimerIsUnused,
                NowStarts, Armed, Gone
  <2>2. QED
    BY <2>1, EventsInvEvent, EventsInvEmpty, EventsInvStart,
       EventsInvUtimerStart, EventsInvFires DEF EventsNext
<1>2. QED
  BY <1>1, EventsInvInit, PTL DEF EventsSpec

(* However many threads wait and start, each start of the timer lets at    *)
(* most one wait return, and a second one only if a waiter or a call took  *)
(* its next_tick before utimerStart looked (sym-impl.c, 701-707, 722-738). *)
THEOREM EventsOneWakePerStart == EventsSpec => []OneWakePerStart
<1>1. EventsInv => OneWakePerStart
  <2> SUFFICES ASSUME EventsInv PROVE OneWakePerStart
    OBVIOUS
  <2>1. starts \in Nat /\ wakes \in Nat /\ overtaken \in Nat
    BY RatesAssumption DEF EventsInv, EventsTypeOK
  <2>2. QED
    BY <2>1, NowStartsCount DEF EventsInv, TimerIsUnused, OneWakePerStart
<1>2. QED
  BY <1>1, EventsInvariant, PTL

(* For any rates, the conversion of ticks is exact as long as the value    *)
(* fits a u64 (sym-impl.c, 319).                                           *)
THEOREM EventsTimeSpanIsExact == EventsSpec => []TimeSpanIsExact
<1>1. EventsInv => TimeSpanIsExact
  BY ConversionIsExact, RatesAssumption
     DEF EventsInv, EventsTypeOK, TimeSpanIsExact
<1>2. QED
  BY <1>1, EventsInvariant, PTL
=============================================================================
