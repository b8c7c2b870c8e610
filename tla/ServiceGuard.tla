---------------------------- MODULE ServiceGuard ----------------------------
(***************************************************************************)
(* The service guard of libnx-ext (src/libnx-ext/include/guard.h) around a *)
(* service session, as NX_GENERATE_SERVICE_GUARD instantiates it for       *)
(* ldr:ro, ams:su, es and bpc:ams: a mutex and a reference count decide    *)
(* which Initialize opens the session and which Exit closes it.            *)
(*                                                                         *)
(* The count is only touched under the mutex, so each operation is one     *)
(* step up to the next IPC call or unlock.  An initializer is two steps,   *)
(* smGetService and then the first command (ldro.c, 18-22).                *)
(***************************************************************************)
EXTENDS Integers, FiniteSets

CONSTANTS
    Users,      \* the pairs of Initialize and Exit calls of the program
    NULL,       \* no user
    Balanced    \* whether only those call Exit whose Initialize succeeded

ASSUME UsersAssumption == IsFiniteSet(Users) /\ NULL \notin Users
ASSUME BalancedAssumption == Balanced \in BOOLEAN

VARIABLES
    mutex,      \* ServiceGuard.mutex: the user that holds it, or NULL
    refCount,   \* ServiceGuard.refCount
    session,    \* the Service: "open" or "closed"
    pc,         \* where each user is in its call
    holders     \* users whose Initialize succeeded and who have not exited

vars == <<mutex, refCount, session, pc, holders>>

(* Between calls; waiting for the mutex; inside it; sending a command. *)
Waiting == {"wantInit", "wantExit"}
Opening == {"getService", "setup", "initOk", "initFailed"}
Closing == {"cleanup", "exitDone"}
Locations == {"idle", "command"} \cup Waiting \cup Opening \cup Closing

Goto(u, l) == pc' = [pc EXCEPT ![u] = l]

(* mutexLock and mutexUnlock *)
LockMutex(u) == mutex = NULL /\ mutex' = u
KeepMutex == UNCHANGED mutex
UnlockMutex == mutex' = NULL

Init ==
    /\ mutex = NULL
    /\ refCount = 0
    /\ session = "closed"
    /\ pc = [u \in Users |-> "idle"]
    /\ holders = {}

CallInitialize(u) ==
    /\ pc[u] = "idle"
    /\ u \notin holders
    /\ Goto(u, "wantInit")
    /\ UNCHANGED <<mutex, refCount, session, holders>>

(* serviceGuardBeginInit *)
BeginInit(u) ==
    /\ pc[u] = "wantInit"
    /\ LockMutex(u)
    /\ refCount' = refCount + 1
    /\ Goto(u, IF refCount = 0 THEN "getService" ELSE "initOk")
    /\ UNCHANGED <<session, holders>>

GetService(u) ==
    /\ pc[u] = "getService"
    /\ \/ session' = "open" /\ Goto(u, "setup")
       \/ UNCHANGED session /\ Goto(u, "initFailed")
    /\ UNCHANGED <<mutex, refCount, holders>>

Setup(u) ==
    /\ pc[u] = "setup"
    /\ Goto(u, "initOk") \/ Goto(u, "initFailed")
    /\ UNCHANGED <<mutex, refCount, session, holders>>

(* serviceGuardEndInit *)
KeepCount == UNCHANGED refCount
UndoCount == refCount' = refCount - 1
EndInit(u) ==
    /\ pc[u] \in {"initOk", "initFailed"}
    /\ IF pc[u] = "initFailed"
       THEN /\ session' = "closed"
            /\ UndoCount
            /\ UNCHANGED holders
       ELSE /\ holders' = holders \cup {u}
            /\ UNCHANGED <<session, refCount>>
    /\ UnlockMutex
    /\ Goto(u, "idle")

CallExit(u) ==
    /\ pc[u] = "idle"
    /\ Balanced => u \in holders
    /\ Goto(u, "wantExit")
    /\ UNCHANGED <<mutex, refCount, session, holders>>

(* serviceGuardExit, up to the cleanup function if this is the last exit. *)
DropCount == refCount' = IF refCount > 0 THEN refCount - 1 ELSE refCount
IsLastOrSecondLast == refCount \in {1, 2}
IsLastExit == refCount = 1
BeginExit(u) ==
    /\ pc[u] = "wantExit"
    /\ LockMutex(u)
    /\ DropCount
    /\ Goto(u, IF IsLastExit THEN "cleanup" ELSE "exitDone")
    /\ UNCHANGED <<session, holders>>

Cleanup(u) ==
    /\ pc[u] = "cleanup"
    /\ session' = "closed"
    /\ Goto(u, "exitDone")
    /\ UNCHANGED <<mutex, refCount, holders>>

EndExit(u) ==
    /\ pc[u] = "exitDone"
    /\ UnlockMutex
    /\ holders' = holders \ {u}
    /\ Goto(u, "idle")
    /\ UNCHANGED <<refCount, session>>

(* A command of the service, sent without the mutex. *)
BeginCommand(u) ==
    /\ pc[u] = "idle"
    /\ u \in holders
    /\ Goto(u, "command")
    /\ UNCHANGED <<mutex, refCount, session, holders>>

EndCommand(u) ==
    /\ pc[u] = "command"
    /\ Goto(u, "idle")
    /\ UNCHANGED <<mutex, refCount, session, holders>>

(* What a user does inside the mutex. *)
Inside(u) ==
    GetService(u) \/ Setup(u) \/ EndInit(u) \/ Cleanup(u) \/ EndExit(u)

Next ==
    \E u \in Users :
        \/ CallInitialize(u) \/ BeginInit(u)
        \/ CallExit(u) \/ BeginExit(u)
        \/ Inside(u)
        \/ BeginCommand(u) \/ EndCommand(u)

Spec == Init /\ [][Next]_vars

(* IPC calls answer and the holder of the mutex keeps running.  Unlocking  *)
(* it while others wait makes the kernel hand it to one of them, in the    *)
(* order they came in when their priorities are equal: nobody waits while  *)
(* it goes round the others for ever.                                      *)
Lock(u) == BeginInit(u) \/ BeginExit(u)
Fairness == \A u \in Users : WF_vars(Inside(u)) /\ SF_vars(Lock(u))

FairSpec == Spec /\ Fairness
-----------------------------------------------------------------------------
(* Properties. *)

TypeOK ==
    /\ mutex \in Users \cup {NULL}
    /\ refCount \in Nat
    /\ session \in {"open", "closed"}
    /\ pc \in [Users -> Locations]
    /\ holders \subseteq Users

(* The mutex is held exactly by the one user inside the guard. *)
MutualExclusion ==
    \A u \in Users : pc[u] \in Opening \cup Closing <=> mutex = u

(* No Exit, however unbalanced, and no failed Initialize leaves the count  *)
(* and the session disagreeing once the mutex is free (guard.h, 16-32).    *)
SessionMatchesCount ==
    mutex = NULL => (session = "open" <=> refCount > 0)

(* The session is never opened over an open one, which would leak it.      *)
NeverOpenedTwice == \A u \in Users : pc[u] = "getService" => session = "closed"

(* With balanced calls: while anybody holds the service or sends a command *)
(* the session is open, whatever other users acquire, fail or release.     *)
HeldIsOpen == Balanced /\ holders # {} => session = "open" \/ mutex \in holders
CommandsOnOpenSession ==
    Balanced => \A u \in Users : pc[u] = "command" => session = "open"

(* The guard implements the atomic shared session.  What a user is about   *)
(* to publish under the mutex has not happened yet for the others.         *)
OpenSeen ==
    IF mutex = NULL THEN session = "open" ELSE holders # {}
Abstract == INSTANCE SharedSession WITH
    users <- {u \in Users : pc[u] = "command"},
    open <- OpenSeen
ImplementsSharedSession == Abstract!Spec

(* Whoever calls Initialize or Exit gets into the guard, whatever fails    *)
(* and whatever the others acquire and release meanwhile: every path of    *)
(* the guard gives the mutex back (guard.h, 10-32).                        *)
EveryoneGetsIn ==
    \A u \in Users : pc[u] \in Waiting ~> pc[u] \in Opening \cup Closing
=============================================================================
