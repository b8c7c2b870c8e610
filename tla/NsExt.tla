-------------------------------- MODULE NsExt --------------------------------
(***************************************************************************)
(* The commands libnx-ipcext adds to ns (ns-ext.c) and acc:su              *)
(* (account-ext.c), and the sessions they are sent on.                     *)
(*                                                                         *)
(* An ns command of libnx-ipcext opens an interface of its own in a local  *)
(* Service and closes it again; before 3.0.0 it uses the one libnx shares. *)
(* A Service that could not be opened is left as it was: whatever was on   *)
(* the stack.  An account object is a Service the caller keeps.  Sessions  *)
(* are numbered: 0 is none, 1 the one libnx shares.                        *)
(***************************************************************************)
EXTENDS Integers

CONSTANTS
    Callers,
    Versions,    \* the major versions of the system looked at
    MaxSession   \* bound on the sessions opened

ASSUME VersionsAssumption == Versions \subseteq Nat /\ MaxSession \in Nat \ {0}

VARIABLES
    version,   \* what hosversionAtLeast compares with
    request,   \* request[t]: the step of the command t is in
    kind,      \* kind[t]: "record", "control" or "object"
    srv,       \* srv[t]: the local Service of the command
    object,    \* object[t]: the profile editor or administrator t keeps
    live,      \* the sessions that are open
    nextSession, \* the session opened next
    own,       \* history: the session the command of t opened
    failed,    \* history: an application manager interface was not opened
    reused,    \* history: an account object was opened over another
    strayed    \* history: the kinds of command sent on a session that was
               \* not theirs, or no longer open

sessions == <<srv, object, live, nextSession>>
nsHistory == <<own, failed, reused, strayed>>
nsVars == <<version, request, kind, sessions, nsHistory>>

Shared == 1
NoRequest(t) == request[t] = "idle"
RequestGoesTo(t, step) == request' = [request EXCEPT ![t] = step]

(* A new session takes the place of what the Service of t held. *)
Opens(t, where, others) ==
    /\ nextSession <= MaxSession
    /\ where' = [where EXCEPT ![t] = nextSession]
    /\ live' = live \cup {nextSession}
    /\ nextSession' = nextSession + 1
    /\ UNCHANGED others

NsInit ==
    /\ version \in Versions
    /\ request = [t \in Callers |-> "idle"]
    /\ kind = [t \in Callers |-> "record"]
    /\ srv = [t \in Callers |-> 0] /\ object = [t \in Callers |-> 0]
    /\ live = {Shared} /\ nextSession = Shared + 1
    /\ own = [t \in Callers |-> 0]
    /\ failed = FALSE /\ reused = FALSE /\ strayed = {}
-----------------------------------------------------------------------------
(* The four commands on application records and launch versions: whether   *)
(* nsGetApplicationManagerInterface succeeded is not looked at.            *)
Uninitialized(t) ==
    srv' \in {[srv EXCEPT ![t] = s] : s \in 0 .. nextSession - 1}
NeverOwn == FALSE
HasOwn == version >= 3
BeginRecord(t) ==
    /\ NoRequest(t)
    /\ kind' = [kind EXCEPT ![t] = "record"]
    /\ IF HasOwn
       THEN \/ /\ Opens(t, srv, object)
               /\ own' = [own EXCEPT ![t] = nextSession]
               /\ UNCHANGED failed
            \/ /\ Uninitialized(t)
               /\ failed' = TRUE
               /\ UNCHANGED <<object, live, nextSession, own>>
       ELSE /\ Uninitialized(t)
            /\ UNCHANGED <<object, live, nextSession, own, failed>>
    /\ RequestGoesTo(t, "send")
    /\ UNCHANGED <<version, reused, strayed>>

(* nsextGetApplicationControlData: from 21.0.0 on nsGetApplicationControl- *)
(* Data3 opens an interface and looks at the result; before, libnx does it *)
(* all.                                                                    *)
AfterOpenFailure == "close"
BeginControl(t) ==
    /\ NoRequest(t) /\ version >= 21
    /\ kind' = [kind EXCEPT ![t] = "control"]
    /\ \/ Opens(t, srv, object) /\ own' = [own EXCEPT ![t] = nextSession]
          /\ RequestGoesTo(t, "send")
       \/ srv' = [srv EXCEPT ![t] = 0] /\ RequestGoesTo(t, AfterOpenFailure)
          /\ UNCHANGED <<object, live, nextSession, own>>
    /\ UNCHANGED <<version, failed, reused, strayed>>

(* The session a command goes to, and the one it should. *)
Used(t) ==
    CASE kind[t] = "object" -> object[t]
      [] kind[t] = "record" /\ version < 3 -> Shared
      [] OTHER -> srv[t]
Meant(t) ==
    CASE kind[t] = "object" -> object[t]
      [] kind[t] = "record" /\ version < 3 -> Shared
      [] OTHER -> own[t]

Send(t) ==
    /\ request[t] = "send"
    /\ strayed' = IF Used(t) = Meant(t) /\ Used(t) \in live THEN strayed
                  ELSE strayed \cup {kind[t]}
    /\ RequestGoesTo(t, IF kind[t] = "object" THEN "idle" ELSE "close")
    /\ UNCHANGED <<version, kind, sessions, own, failed, reused>>

(* _nsextDisposeApplicationManagerInterfaceService, and the serviceClose   *)
(* of nsGetApplicationControlData3: what the local Service names is closed.*)
Closes(t) == kind[t] = "control" \/ version >= 3
Close(t) ==
    /\ request[t] = "close"
    /\ live' = IF Closes(t) THEN live \ {srv[t]} ELSE live
    /\ own' = [own EXCEPT ![t] = 0]
    /\ RequestGoesTo(t, "idle")
    /\ UNCHANGED <<version, kind, srv, object, nextSession, failed, reused,
                   strayed>>
-----------------------------------------------------------------------------
(* accountextGetProfileEditor and GetBaasAccountAdministrator zero the     *)
(* object before they ask for it.                                          *)
ZeroedObject(t) == 0
GetObject(t) ==
    /\ NoRequest(t)
    /\ reused' = (reused \/ object[t] # 0)
    /\ \/ Opens(t, object, srv)
       \/ /\ object' = [object EXCEPT ![t] = ZeroedObject(t)]
          /\ UNCHANGED <<srv, live, nextSession>>
    /\ UNCHANGED <<version, request, kind, own, failed, strayed>>

(* The commands of the object: Store, StoreWithImage and those of the      *)
(* administrator.                                                          *)
BeginObject(t) ==
    /\ NoRequest(t) /\ object[t] # 0
    /\ kind' = [kind EXCEPT ![t] = "object"]
    /\ RequestGoesTo(t, "send")
    /\ UNCHANGED <<version, sessions, nsHistory>>

KeepsSession(t) == {}
ClosedWith(t) == {object[t]}
CloseObject(t) ==
    /\ NoRequest(t) /\ object[t] # 0
    /\ live' = live \ ClosedWith(t)
    /\ object' = [object EXCEPT ![t] = 0]
    /\ UNCHANGED <<version, request, kind, srv, nextSession, nsHistory>>

NsNext ==
    \E t \in Callers :
        \/ BeginRecord(t) \/ BeginControl(t) \/ BeginObject(t)
        \/ Send(t) \/ Close(t)
        \/ GetObject(t) \/ CloseObject(t)

NsSpec == NsInit /\ [][NsNext]_nsVars
-----------------------------------------------------------------------------
(* Properties. *)

NsTypeOK ==
    /\ version \in Versions
    /\ request \in [Callers -> {"idle", "send", "close"}]
    /\ kind \in [Callers -> {"record", "control", "object"}]
    /\ srv \in [Callers -> 0 .. nextSession - 1]
    /\ object \in [Callers -> 0 .. nextSession - 1]
    /\ live \subseteq 1 .. nextSession - 1 /\ nextSession \in 2 .. MaxSession + 1
    /\ own \in [Callers -> 0 .. MaxSession]
    /\ failed \in BOOLEAN /\ reused \in BOOLEAN
    /\ strayed \subseteq {"record", "control", "object"}

(* If every application manager interface could be opened, no command of   *)
(* any thread is sent on a session that is not its own or is closed: not   *)
(* the shared one, not one another thread has just closed, and not what an *)
(* earlier call left on the stack (ns-ext.c, 3-76 and 80-106).             *)
SentOnOwnSession == ~failed => strayed = {}

(* If in addition no account object is opened twice, what is open is what  *)
(* somebody will close: the shared session, those of the commands under    *)
(* way and those of the objects (ns-ext.c, 13-17; account-ext.c, 8-22).    *)
OpenIsOwned ==
    ~failed /\ ~reused =>
        live = ({Shared} \cup {own[t] : t \in Callers}
                         \cup {object[t] : t \in Callers}) \ {0}
=============================================================================
