-------------------------------- MODULE AmsSu --------------------------------
(***************************************************************************)
(* The ams:su client (libnx-ipcext, amssu.c): one session, shared by the   *)
(* threads through the service guard (see ServiceGuard, here a step), and  *)
(* one global TransferMemory that the two setup commands create and give   *)
(* to the service, without a lock.  A step is the code between two calls   *)
(* to the kernel or the service; each of those can fail.  Handles are      *)
(* numbered, and 0 is INVALID_HANDLE.                                      *)
(***************************************************************************)
EXTENDS Integers

CONSTANTS
    Threads,
    MaxHandle   \* bound on the handles created

ASSUME MaxHandleAssumption == MaxHandle \in Nat

VARIABLES
    holds,      \* the threads between amssuInitialize and amssuExit
    session,    \* whether g_AmsSuService is open
    tmem,       \* g_AmsSuTransferMemory
    slot,       \* slot[t]: the object in the AsyncResult of t
    opened,     \* the handles of this process that are open
    nextHandle, \* the handle created next
    command,    \* command[t]: the step of the command t is in
    mine,       \* history: the transfer memory t created for its setup
    given,      \* history: those of setups that succeeded
    overlapped, \* history: two setups were under way at once
    again,      \* history: a setup or an AsyncResult was repeated
    foreign     \* history: a setup gave away another memory than its own

handles == <<tmem, slot, opened, nextHandle>>
amssuHistory == <<mine, given, overlapped, again, foreign>>
amssuVars == <<holds, session, handles, command, amssuHistory>>

NoCommand(t) == command[t] = "idle"
CommandGoesTo(t, step) == command' = [command EXCEPT ![t] = step]
InSetup(t) == command[t] \in {"send", "close"}

AmsSuInit ==
    /\ holds = {} /\ session = FALSE
    /\ tmem = 0 /\ slot = [t \in Threads |-> 0]
    /\ opened = {} /\ nextHandle = 1
    /\ command = [t \in Threads |-> "idle"]
    /\ mine = [t \in Threads |-> 0] /\ given = {}
    /\ overlapped = FALSE /\ again = FALSE /\ foreign = FALSE

(* amssuInitialize; smGetService fails for the first user only. *)
AmssuInitialize(t) ==
    /\ t \notin holds /\ NoCommand(t)
    /\ holds' = holds \cup {t}
    /\ session' = TRUE
    /\ UNCHANGED <<handles, command, amssuHistory>>

(* amssuExit, which for the last user cleans up. *)
LastUser(t) == holds = {t}
KeepsMemory == {}
CleanedUp == {tmem}
AmssuExit(t) ==
    /\ t \in holds /\ NoCommand(t)
    /\ holds' = holds \ {t}
    /\ IF LastUser(t)
       THEN /\ session' = FALSE
            /\ opened' = opened \ CleanedUp
            /\ tmem' = 0
            /\ given' = {}
       ELSE UNCHANGED <<session, opened, tmem, given>>
    /\ UNCHANGED <<slot, nextHandle, command, mine, overlapped, again,
                   foreign>>

(* The commands that only ask: they are sent and answered. *)
Command(t) ==
    /\ t \in holds /\ NoCommand(t)
    /\ CommandGoesTo(t, "answer")
    /\ UNCHANGED <<holds, session, handles, amssuHistory>>
CommandReturns(t) ==
    /\ command[t] = "answer"
    /\ CommandGoesTo(t, "idle")
    /\ UNCHANGED <<holds, session, handles, amssuHistory>>
-----------------------------------------------------------------------------
(* amssuSetupUpdate and amssuSetupUpdateWithVariation: the memory is       *)
(* created in the global; a creation that fails may still have cleared it. *)
SendsAnyway == "send"
AfterCreateFailure == "idle"
SetupCreates(t) ==
    /\ t \in holds /\ NoCommand(t)
    /\ \/ /\ nextHandle <= MaxHandle
          /\ tmem' = nextHandle
          /\ opened' = opened \cup {nextHandle}
          /\ nextHandle' = nextHandle + 1
          /\ mine' = [mine EXCEPT ![t] = nextHandle]
          /\ CommandGoesTo(t, "send")
       \/ /\ tmem' \in {tmem, 0}
          /\ mine' = [mine EXCEPT ![t] = 0]
          /\ CommandGoesTo(t, AfterCreateFailure)
          /\ UNCHANGED <<opened, nextHandle>>
    /\ overlapped' = (overlapped \/ \E u \in Threads : InSetup(u))
    /\ again' = (again \/ given # {} \/ \E u \in Threads : InSetup(u))
    /\ UNCHANGED <<holds, session, slot, given, foreign>>

(* What the global holds now is sent; no service takes an invalid handle. *)
Always(ok) == TRUE
ClosesMemory(ok) == ~ok
SetupSends(t) ==
    /\ command[t] = "send"
    /\ \E ok \in BOOLEAN :
          /\ ok => tmem # 0
          /\ CommandGoesTo(t, IF ClosesMemory(ok) THEN "close" ELSE "idle")
          /\ given' = IF ok THEN given \cup {tmem} ELSE given
    /\ foreign' = (foreign \/ tmem # mine[t])
    /\ UNCHANGED <<holds, session, handles, mine, overlapped, again>>

(* What the global holds by then is closed, if the service refused. *)
SetupCloses(t) ==
    /\ command[t] = "close"
    /\ opened' = opened \ {tmem}
    /\ tmem' = 0
    /\ CommandGoesTo(t, "idle")
    /\ UNCHANGED <<holds, session, slot, nextHandle, amssuHistory>>
-----------------------------------------------------------------------------
(* amssuRequestPrepareUpdate zeroes the AsyncResult it is given, and puts  *)
(* the object of the answer there.  The caller closes it.                  *)
RequestPrepareUpdate(t) ==
    /\ t \in holds /\ NoCommand(t)
    /\ slot' = [slot EXCEPT ![t] = 0]
    /\ again' = (again \/ slot[t] # 0)
    /\ CommandGoesTo(t, "request")
    /\ UNCHANGED <<holds, session, tmem, opened, nextHandle, mine, given,
                   overlapped, foreign>>
RequestReturns(t) ==
    /\ command[t] = "request"
    /\ \/ /\ nextHandle <= MaxHandle
          /\ slot' = [slot EXCEPT ![t] = nextHandle]
          /\ opened' = opened \cup {nextHandle}
          /\ nextHandle' = nextHandle + 1
       \/ UNCHANGED <<slot, opened, nextHandle>>
    /\ CommandGoesTo(t, "idle")
    /\ UNCHANGED <<holds, session, tmem, amssuHistory>>
AsyncResultClose(t) ==
    /\ NoCommand(t) /\ slot[t] # 0
    /\ opened' = opened \ {slot[t]}
    /\ slot' = [slot EXCEPT ![t] = 0]
    /\ UNCHANGED <<holds, session, tmem, nextHandle, command, amssuHistory>>

AmsSuNext ==
    \E t \in Threads :
        \/ AmssuInitialize(t) \/ AmssuExit(t)
        \/ Command(t) \/ CommandReturns(t)
        \/ SetupCreates(t) \/ SetupSends(t) \/ SetupCloses(t)
        \/ RequestPrepareUpdate(t) \/ RequestReturns(t) \/ AsyncResultClose(t)

AmsSuSpec == AmsSuInit /\ [][AmsSuNext]_amssuVars
-----------------------------------------------------------------------------
(* Properties. *)

AmsSuTypeOK ==
    /\ holds \subseteq Threads /\ session = (holds # {})
    /\ tmem \in 0 .. MaxHandle /\ slot \in [Threads -> 0 .. MaxHandle]
    /\ opened \subseteq 1 .. MaxHandle /\ nextHandle \in 1 .. MaxHandle + 1
    /\ command \in [Threads -> {"idle", "answer", "send", "close", "request"}]
    /\ mine \in [Threads -> 0 .. MaxHandle] /\ given \subseteq 1 .. MaxHandle
    /\ overlapped \in BOOLEAN /\ again \in BOOLEAN /\ foreign \in BOOLEAN

(* If no two setups overlap, each gives the service the memory it created  *)
(* itself, never one left by a setup before it (amssu.c, 54-117).          *)
SetupSendsItsOwn == ~overlapped => ~foreign

(* If no two setups overlap, the memory the service was given stays open   *)
(* until the last user leaves: no later setup that fails, and no user who  *)
(* leaves earlier, closes it (amssu.c, 14-17, 54-117).                     *)
GivenStaysOpen == ~overlapped => given \subseteq opened

(* A handle of the client is out of reach only after a setup was repeated  *)
(* before amssuExit, or an AsyncResult used twice: every other order of    *)
(* failures closes it or keeps it where it will be closed (amssu.c, 14-17, *)
(* 54-134).                                                                *)
LostOnlyOnReuse ==
    ~again => opened \subseteq {tmem} \cup {slot[t] : t \in Threads}
=============================================================================
