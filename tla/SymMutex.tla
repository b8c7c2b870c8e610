------------------------------ MODULE SymMutex ------------------------------
(***************************************************************************)
(* The mutexes of the nnSdk layer (libnx-cruiser, sym-impl.c).  A module   *)
(* gives 0x20 bytes; the layer keeps a recursive and a plain libnx lock in *)
(* them and the flag that says which of the two is used.  Initialization   *)
(* clears only that one, so the other keeps what was in the memory, which  *)
(* may be that of an earlier mutex.  FinalizeMutex only aborts (see        *)
(* SymThreads), so a mutex ends when its memory is used again.             *)
(*                                                                         *)
(* The libnx locks are external: one word for the owner, and for the       *)
(* recursive one a counter.  A thread that waits stays in the call.        *)
(***************************************************************************)
EXTENDS Integers

CONSTANTS
    Threads,
    Mutexes,
    NoThread,  \* the owner of a lock that is free
    Junk,      \* an owner that is no thread's handle
    MaxDepth   \* bound on how often a thread takes a recursive mutex

ASSUME OwnerAssumption ==
    NoThread \notin Threads /\ Junk \notin Threads \cup {NoThread}
ASSUME MutexesAssumption == "none" \notin Mutexes
ASSUME DepthAssumption == MaxDepth \in Nat \ {0}

VARIABLES
    live,    \* history: the objects that are initialized
    rec,     \* rec[m]: is_recursive
    rmutex,  \* rmutex[m]: [owner, count]
    mutex,   \* mutex[m]: the owner
    call     \* call[t]: the mutex t waits for in LockMutex, or None

vars == <<live, rec, rmutex, mutex, call>>

None == "none"
Owners == Threads \cup {NoThread, Junk}
LeftR == [owner : Owners, count : {MaxDepth}]
FreeR == [owner |-> NoThread, count |-> 0]
Waits(t, m) == call[t] = m
Busy(t) == call[t] # None
-----------------------------------------------------------------------------
(* libnx: what the primitives do to the lock they are given. *)
CanLockR(t, m) == rmutex[m].owner \in {NoThread, t}
RLocked(t, m) == [owner |-> t, count |-> rmutex[m].count + 1]
RUnlocked(t, m) ==
    [owner |-> IF rmutex[m].count = 1 THEN NoThread ELSE t,
     count |-> rmutex[m].count - 1]
CanLock(m) == mutex[m] = NoThread

Init ==
    /\ live = {}
    /\ rec \in [Mutexes -> BOOLEAN]
    /\ rmutex \in [Mutexes -> LeftR]
    /\ mutex \in [Mutexes -> Owners]
    /\ call = [t \in Threads |-> None]

(* nn::os::InitializeMutex. *)
AlwaysPlain(r) == FALSE
ClearsR(r) == r
InitializeMutex(m, r) ==
    /\ m \notin live
    /\ live' = live \cup {m}
    /\ rec' = [rec EXCEPT ![m] = r]
    /\ IF ClearsR(r)
       THEN rmutex' = [rmutex EXCEPT ![m] = FreeR] /\ UNCHANGED mutex
       ELSE mutex' = [mutex EXCEPT ![m] = NoThread] /\ UNCHANGED rmutex
    /\ UNCHANGED call

(* The copy of it inlined in a module: it zeroes the fields both locks are *)
(* placed in, and writes the flag.                                         *)
InlinedInitialize(m, r) ==
    /\ m \notin live
    /\ live' = live \cup {m}
    /\ rec' = [rec EXCEPT ![m] = r]
    /\ rmutex' = [rmutex EXCEPT ![m] = FreeR]
    /\ mutex' = [mutex EXCEPT ![m] = NoThread]
    /\ UNCHANGED call

(* The lock the flag names is there for t to take, and is taken. *)
LocksPlain(m) == FALSE
LocksR(m) == rec[m]
Takes(t, m) == IF LocksR(m) THEN CanLockR(t, m) ELSE CanLock(m)
Take(t, m) ==
    IF LocksR(m)
    THEN rmutex' = [rmutex EXCEPT ![m] = RLocked(t, m)] /\ UNCHANGED mutex
    ELSE mutex' = [mutex EXCEPT ![m] = t] /\ UNCHANGED rmutex

(* The thread that holds m, and how often. *)
Holder(m) == IF rec[m] THEN rmutex[m].owner ELSE mutex[m]
Depth(m) ==
    IF rec[m] THEN rmutex[m].count
    ELSE IF mutex[m] = NoThread THEN 0 ELSE 1
DeepEnough(t, m) == rec[m] /\ Holder(m) = t /\ Depth(m) >= MaxDepth

(* nn::os::LockMutex: the call, and its return with the lock. *)
LockMutex(t, m) ==
    /\ ~Busy(t) /\ m \in live /\ ~DeepEnough(t, m)
    /\ call' = [call EXCEPT ![t] = m]
    /\ UNCHANGED <<live, rec, rmutex, mutex>>

LockReturns(t) ==
    \E m \in Mutexes :
        /\ Waits(t, m) /\ Takes(t, m)
        /\ Take(t, m)
        /\ call' = [call EXCEPT ![t] = None]
        /\ UNCHANGED <<live, rec>>

(* nn::os::TryLockMutex; it changes nothing when it answers false. *)
TryLockMutex(t, m) ==
    /\ ~Busy(t) /\ m \in live /\ ~DeepEnough(t, m)
    /\ Takes(t, m)
    /\ Take(t, m)
    /\ UNCHANGED <<live, rec, call>>

(* nn::os::UnlockMutex, by the thread that holds the mutex. *)
UnlocksR(m) == rec[m]
UnlockMutex(t, m) ==
    /\ ~Busy(t) /\ m \in live /\ Holder(m) = t
    /\ IF UnlocksR(m)
       THEN /\ rmutex' = [rmutex EXCEPT ![m] = RUnlocked(t, m)]
            /\ UNCHANGED mutex
       ELSE mutex' = [mutex EXCEPT ![m] = NoThread] /\ UNCHANGED rmutex
    /\ UNCHANGED <<live, rec, call>>

(* nn::os::IsMutexLockedByCurrentThread. *)
IsLockedByCurrentThread(t, m) == ~rec[m] /\ mutex[m] = t

(* The memory of a mutex nobody holds or waits for goes to something else. *)
Retire(m) ==
    /\ m \in live /\ Holder(m) = NoThread /\ \A t \in Threads : ~Waits(t, m)
    /\ live' = live \ {m}
    /\ rec' \in {[rec EXCEPT ![m] = r] : r \in BOOLEAN}
    /\ rmutex' \in {[rmutex EXCEPT ![m] = l] : l \in LeftR}
    /\ mutex' \in {[mutex EXCEPT ![m] = o] : o \in Owners}
    /\ UNCHANGED call

Next ==
    \/ \E m \in Mutexes, r \in BOOLEAN :
          InitializeMutex(m, r) \/ InlinedInitialize(m, r)
    \/ \E t \in Threads, m \in Mutexes :
          LockMutex(t, m) \/ TryLockMutex(t, m) \/ UnlockMutex(t, m)
    \/ \E t \in Threads : LockReturns(t)
    \/ \E m \in Mutexes : Retire(m)

Spec == Init /\ [][Next]_vars

(* A thread that could return from LockMutex again and again does: the     *)
(* kernel hands a released lock to its waiters in turn.                    *)
FairSpec == Spec /\ \A t \in Threads : SF_vars(LockReturns(t))
-----------------------------------------------------------------------------
(* Properties. *)

TypeOK ==
    /\ live \subseteq Mutexes
    /\ rec \in [Mutexes -> BOOLEAN]
    /\ rmutex \in [Mutexes -> [owner : Owners, count : Nat]]
    /\ mutex \in [Mutexes -> Owners]
    /\ call \in [Threads -> Mutexes \cup {None}]

(* Whoever is kept in LockMutex is kept by a thread that can release the   *)
(* lock, never by what was left in the memory, and by itself only for a    *)
(* plain mutex it takes twice (sym-impl.c, 223-236 and 248-260).           *)
WaitsForAHolder ==
    \A t \in Threads, m \in Mutexes :
        Waits(t, m) =>
            /\ m \in live
            /\ ~Takes(t, m) => /\ Holder(m) \in Threads
                               /\ Holder(m) = t => ~rec[m]

(* The memory of a mutex leads to one owner, whatever kinds of mutex the   *)
(* object was before, and the layer keeps the promise of NnMutex           *)
(* (sym-impl.c, 206-274 and 627-639).                                      *)
Promised ==
    INSTANCE NnMutex WITH lock <- [m \in Mutexes |->
        [live |-> m \in live,
         rec |-> m \in live /\ rec[m],
         owner |-> IF m \in live THEN Holder(m) ELSE NoThread,
         depth |-> IF m \in live THEN Depth(m) ELSE 0]]
ImplementsNnMutex == Promised!Spec

(* IsMutexLockedByCurrentThread never answers true to a thread that does   *)
(* not hold the mutex, and answers false to one that does only for a       *)
(* recursive mutex: a thread that locks if the answer is false is never    *)
(* kept by itself (sym-impl.c, 641-651).                                   *)
AnswerGuardsRelock ==
    \A t \in Threads, m \in live :
        /\ IsLockedByCurrentThread(t, m) => Holder(m) = t
        /\ Holder(m) = t /\ ~IsLockedByCurrentThread(t, m) => Takes(t, m)

(* A mutex that is free again and again reaches every thread that waits    *)
(* for it: the lock a waiter stands at is the one the others give back,    *)
(* whichever initialization made it (sym-impl.c, 206-274).                 *)
WaitersAreServed ==
    \A t \in Threads, m \in Mutexes :
        []<>(Holder(m) = NoThread) => (Waits(t, m) ~> ~Waits(t, m))
=============================================================================
