--------------------------------- MODULE Ld ---------------------------------
(***************************************************************************)
(* The module registry of libnx-ld (src/libnx-ld/source/ld.c): loading,    *)
(* resolving, initializing, looking up and unloading NRO modules.          *)
(*                                                                         *)
(* The library takes no lock and is used by one thread, but it calls back  *)
(* into loaded code (init and fini functions), and that code may call the  *)
(* library again.  The variable stack holds the library calls in progress. *)
(* A step is what the library does between two points where other code can *)
(* run: up to a callback, up to its return, or one turn of a module loop.  *)
(*                                                                         *)
(* A memory error of the library (a NULL entry dereferenced, an access     *)
(* past the module list or through a released LdModule) stops the process: *)
(* it is recorded in fault, and nothing happens after it.                  *)
(***************************************************************************)
EXTENDS Integers, Sequences, FiniteSets

CONSTANTS
    Objs,       \* LdModule allocations; an address is never reused
    NULL,       \* the NULL pointer
    Main,       \* the image of the running program, named "main"
    Images,     \* the NRO images the client may load, each under its name
    Malformed,  \* images whose MOD0 header or dynamic section is rejected
    Unhashed,   \* images without DT_HASH, which are accepted all the same
    Symbols,    \* symbol names
    Exports,    \* Exports[img]: the names img defines with non-local binding
    Needs,      \* Needs[img]: the names the relocations of img must find
    Failures,   \* the failures of the environment that may happen
    MaxSlots,   \* bound on the max_modules argument of ldInitialize
    MaxDepth,   \* bound on library calls nested through callbacks
    MaxSessions \* bound on the references taken on the ldr:ro session

Modules == Images \cup {Main}

(* Where ldInitialize and _ldPrepareNroModule may fail, in program order,  *)
(* and the commands that ldr:ro may refuse when a module is disposed of.   *)
InitFailures == {"noList", "noSession", "noMain"}
PrepareFailures == {"noNrr", "noProgramId", "noBss", "noRegister", "noMap"}
DisposeFailures == {"noUnmap", "noUnregister"}

ASSUME ObjsAssumption == IsFiniteSet(Objs) /\ NULL \notin Objs
ASSUME ImagesAssumption == Main \notin Images
ASSUME SymbolsAssumption ==
    /\ Malformed \subseteq Modules
    /\ Exports \in [Modules -> SUBSET Symbols]
    /\ Needs \in [Modules -> SUBSET Symbols]
ASSUME UnhashedAssumption ==
    /\ Unhashed \subseteq Modules
    /\ \A img \in Unhashed : Exports[img] = {}
ASSUME FailuresAssumption ==
    Failures \subseteq (InitFailures \cup PrepareFailures \cup DisposeFailures)
ASSUME BoundsAssumption ==
    /\ MaxSlots \in Nat \ {0}
    /\ MaxDepth \in Nat \ {0}
    /\ MaxSessions \in Nat

VARIABLES
    initialized,    \* g_Initialized
    listAllocated,  \* whether g_ModuleList points to an allocated list
    maxCount,       \* g_MaxModuleCount
    count,          \* g_ModuleCount
    slots,          \* the entries of g_ModuleList
    mstate,         \* LdModule.state, "unused" before and "freed" after its life
    image,          \* the image (and so the name) of an LdModule
    binds,          \* binds[o][s]: the module that gave o its symbol s
    registered,     \* modules whose NRR is registered with ldr:ro
    mapped,         \* modules whose NRO is mapped by ldr:ro
    nrrBuf,         \* modules whose NRR buffer is allocated
    refused,        \* disposed modules for which ldr:ro refused a command
    ldroRef,        \* references held on the ldr:ro session
    lostRefs,       \* those of them taken by an ldInitialize that then failed
    stack,          \* library calls in progress, the innermost last
    fault           \* the memory error met, or "none"

listVars == <<initialized, listAllocated, maxCount, count, slots>>
objVars == <<mstate, image, binds>>
roVars == <<registered, mapped, nrrBuf, refused>>
refVars == <<ldroRef, lostRefs>>
vars == <<listVars, objVars, roVars, refVars, stack, fault>>

ListedStates == {"Loaded", "Resolved", "Initialized"}
MStates == ListedStates \cup {"unused", "Invalid", "freed"}
Ops == {"lookup", "unload", "unloadAll", "exit"}
Faults == {"nullDeref", "outOfBounds", "useAfterFree"}
ObjsOrNull == Objs \cup {NULL}
Frames == [op : Ops, at : Nat, mod : ObjsOrNull]
NoBinds == [s \in Symbols |-> NULL]
EmptySlots == [i \in 0 .. MaxSlots - 1 |-> NULL]
-----------------------------------------------------------------------------
(* The module list. *)

Capacity == IF listAllocated THEN maxCount ELSE 0

(* Reading g_ModuleList[i] and then a field of the module goes wrong. *)
BadAccess(i) == i >= Capacity \/ slots[i] = NULL
AccessFault(i) ==
    IF listAllocated /\ i >= Capacity THEN "outOfBounds" ELSE "nullDeref"

Listed == {o \in Objs : \E i \in 0 .. MaxSlots - 1 : slots[i] = o}
IsNro(o) == image[o] # Main

(* The entries that match s in a scan of the list, and the one found. *)
Searchable(o, inMain) == (inMain \/ IsNro(o)) /\ mstate[o] \in ListedStates
Matches(s, inMain) ==
    {i \in 0 .. count - 1 : /\ ~BadAccess(i)
                            /\ Searchable(slots[i], inMain)
                            /\ s \in Exports[image[slots[i]]]}
IsLast(i, I) == i \in I /\ \A j \in I : j <= i
IsFirst(i, I) == i \in I /\ \A j \in I : i <= j
IsProvider(o, s) ==
    \E i \in Matches(s, TRUE) : IsFirst(i, Matches(s, TRUE)) /\ slots[i] = o
Provider(s) ==
    IF \E o \in Objs : IsProvider(o, s)
    THEN CHOOSE o \in Objs : IsProvider(o, s)
    ELSE NULL

(* A scan reads every entry up to the first match, and a search for a name *)
(* also the hash table of every module it considers (a NULL hash_bucket).  *)
ScanMeetsHole(I) ==
    \E h \in 0 .. count - 1 : BadAccess(h) /\ \A i \in I : h < i
HasNoTable(o) == image[o] \in Unhashed
SearchFaults(I, inMain) ==
    \/ ScanMeetsHole(I)
    \/ \E h \in 0 .. count - 1 : /\ ~BadAccess(h)
                                /\ Searchable(slots[h], inMain)
                                /\ HasNoTable(slots[h])
                                /\ \A i \in I : h < i
-----------------------------------------------------------------------------
(* The stack of calls. *)

Top == stack[Len(stack)]
Push(f) == stack' = Append(stack, f)
Pop == stack' = SubSeq(stack, 1, Len(stack) - 1)
ReplaceTop(f) == stack' = [stack EXCEPT ![Len(stack)] = f]

(* Client code runs outside any call, or inside a callback. *)
ClientRuns ==
    /\ fault = "none"
    /\ Len(stack) < MaxDepth
    /\ Len(stack) > 0 => Top.mod # NULL

(* The library runs, in the call op, in its loop over the modules. *)
Running(op) ==
    /\ fault = "none"
    /\ Len(stack) > 0
    /\ Top.op = op
    /\ Top.mod = NULL

Crash(kind) ==
    /\ fault' = kind
    /\ UNCHANGED <<listVars, objVars, roVars, refVars, stack>>
-----------------------------------------------------------------------------
Init ==
    /\ initialized = FALSE
    /\ listAllocated = FALSE
    /\ maxCount = 0
    /\ count = 0
    /\ slots = EmptySlots
    /\ mstate = [o \in Objs |-> "unused"]
    /\ image = [o \in Objs |-> NULL]
    /\ binds = [o \in Objs |-> NoBinds]
    /\ registered = {}
    /\ mapped = {}
    /\ nrrBuf = {}
    /\ refused = {}
    /\ ldroRef = 0
    /\ lostRefs = 0
    /\ stack = <<>>
    /\ fault = "none"

(* _ldLoadModule succeeds: the MOD0 header has its magic, and the entries  *)
(* of the dynamic section have the sizes and the kind of PLT it expects.   *)
Accepted(img) == img \notin Malformed

(* The last statements of a successful load. *)
AppendModule(o, img, list) ==
    /\ mstate' = [mstate EXCEPT ![o] = "Loaded"]
    /\ image' = [image EXCEPT ![o] = img]
    /\ slots' = [list EXCEPT ![count] = o]
    /\ count' = count + 1

(* A failed load returns without releasing its LdModule, which nothing     *)
(* points to any more: whose image it was to be is forgotten.              *)
AbandonModule(o) ==
    /\ mstate' = [mstate EXCEPT ![o] = "Invalid"]
    /\ UNCHANGED <<image, count>>

(* ldInitialize gets as far as its own allocations and ldroInitialize. *)
InitFailsEarly(n, failure) ==
    /\ maxCount' = n
    /\ listAllocated' = (failure # "noList")
    /\ slots' = EmptySlots
    /\ IF failure = "noMain"
       THEN ldroRef < MaxSessions /\ ldroRef' = ldroRef + 1
                                  /\ lostRefs' = lostRefs + 1
       ELSE UNCHANGED refVars
    /\ UNCHANGED <<initialized, count, objVars, roVars, stack, fault>>

(* ldInitialize reaches _ldLoadModule for the main module.  The entry of   *)
(* the main module is stored at g_ModuleCount, which only starts at zero,  *)
(* in a list of any size: g_ModuleCount is not compared with max_modules.  *)
MainAccepted(n, o) ==
    /\ Accepted(Main)
    /\ count < n
    /\ AppendModule(o, Main, EmptySlots)
    /\ initialized' = TRUE
    /\ UNCHANGED <<lostRefs, fault>>
MainRejected(o) ==
    /\ ~Accepted(Main)
    /\ AbandonModule(o)
    /\ slots' = EmptySlots
    /\ lostRefs' = lostRefs + 1
    /\ UNCHANGED <<initialized, fault>>
MainStoredPastTheEnd(n) ==
    /\ Accepted(Main)
    /\ count >= n
    /\ fault' = "outOfBounds"
    /\ slots' = EmptySlots
    /\ lostRefs' = lostRefs + 1
    /\ UNCHANGED <<initialized, count, mstate, image>>
InitLoadsMain(n, o) ==
    /\ mstate[o] = "unused"
    /\ ldroRef < MaxSessions
    /\ maxCount' = n
    /\ listAllocated' = TRUE
    /\ ldroRef' = ldroRef + 1
    /\ MainAccepted(n, o) \/ MainRejected(o) \/ MainStoredPastTheEnd(n)
    /\ UNCHANGED <<binds, roVars, stack>>

LdInitialize ==
    /\ ClientRuns
    /\ ~initialized
    /\ \E n \in 0 .. MaxSlots :
          \/ \E failure \in InitFailures \cap Failures :
                InitFailsEarly(n, failure)
          \/ \E o \in Objs : InitLoadsMain(n, o)

(* _ldPrepareNroModule: what its success ("prepared") and each failure     *)
(* leave behind.  The .bss buffer goes the way of the NRR buffer.          *)
PrepareNroModule(o, outcome) ==
    /\ nrrBuf' = IF outcome \in {"noProgramId", "prepared"}
                 THEN nrrBuf \cup {o} ELSE nrrBuf
    /\ registered' = IF outcome \in {"noMap", "prepared"}
                     THEN registered \cup {o} ELSE registered
    /\ mapped' = IF outcome = "prepared" THEN mapped \cup {o} ELSE mapped
    /\ UNCHANGED refused

HasRoom == count < maxCount

LdLoadModuleFromNro ==
    /\ ClientRuns
    /\ initialized
    /\ HasRoom
    /\ \E o \in Objs, img \in Images,
       outcome \in {"prepared"} \cup (PrepareFailures \cap Failures) :
          /\ mstate[o] = "unused"
          /\ PrepareNroModule(o, outcome)
          /\ IF outcome = "prepared" /\ Accepted(img)
             THEN AppendModule(o, img, slots)
             ELSE AbandonModule(o) /\ UNCHANGED slots
    /\ UNCHANGED <<initialized, listAllocated, maxCount, binds, refVars,
                   stack, fault>>
-----------------------------------------------------------------------------
(* ldLookupGlobalSymbol: every module is initialized, then the list is     *)
(* searched.  Its arguments are first used by the search.                  *)

LdLookupGlobalSymbol ==
    /\ ClientRuns
    /\ Push([op |-> "lookup", at |-> 0, mod |-> NULL])
    /\ UNCHANGED <<listVars, objVars, roVars, refVars, fault>>

Return ==
    /\ Pop
    /\ UNCHANGED <<listVars, objVars, roVars, refVars, fault>>

(* _ldResolveModuleSymbols succeeds for o, or one of its searches faults.  *)
(* Hidden names, which o does not have in Needs, are looked up in o alone. *)
Resolvable(o) == \A s \in Needs[image[o]] : Matches(s, TRUE) # {}
ResolveMustFault(o) ==
    \E s \in Needs[image[o]] : SearchFaults(Matches(s, TRUE), TRUE)
ResolveMayFault(o) == ResolveMustFault(o) \/ HasNoTable(o)
ResolvedBinds(o) ==
    [s \in Symbols |-> IF s \in Needs[image[o]] THEN Provider(s) ELSE NULL]

(* The callbacks of o are entered; the call waits for them to return. *)
EnterCallback(o) == ReplaceTop([op |-> Top.op, at |-> Top.at, mod |-> o])
SameModule == [op |-> Top.op, at |-> Top.at, mod |-> NULL]
NextModule == [op |-> Top.op, at |-> Top.at + 1, mod |-> NULL]

(* The condition of the loops over the module list. *)
MoreModulesOffByOne == Top.at <= count
MoreModules == Top.at < count

AtLeastResolved(o) == mstate[o] # "Loaded"
IsInitialized(o) == mstate[o] = "Initialized"

(* One turn of _ldEnsureModuleInitialized.  A module found Resolved is one *)
(* whose init functions are still on the stack: they are run again.        *)
EnsureModuleInitialized(o) ==
    \/ /\ IsInitialized(o)
       /\ ReplaceTop(NextModule)
       /\ UNCHANGED <<objVars, fault>>
    \/ /\ mstate[o] = "Loaded"
       /\ ResolveMayFault(o)
       /\ fault' = "nullDeref"
       /\ UNCHANGED <<objVars, stack>>
    \/ /\ mstate[o] = "Loaded"
       /\ ~ResolveMustFault(o)
       /\ ~Resolvable(o)
       /\ Pop
       /\ UNCHANGED <<objVars, fault>>
    \/ /\ mstate[o] = "Loaded"
       /\ ~ResolveMustFault(o)
       /\ Resolvable(o)
       /\ binds' = [binds EXCEPT ![o] = ResolvedBinds(o)]
       /\ IF IsNro(o)
          THEN /\ mstate' = [mstate EXCEPT ![o] = "Resolved"]
               /\ EnterCallback(o)
          ELSE /\ mstate' = [mstate EXCEPT ![o] = "Initialized"]
               /\ ReplaceTop(NextModule)
       /\ UNCHANGED <<image, fault>>
    \/ /\ mstate[o] = "Resolved"
       /\ EnterCallback(o)
       /\ UNCHANGED <<objVars, fault>>

LookupStep ==
    /\ Running("lookup")
    /\ MoreModules
    /\ IF BadAccess(Top.at)
       THEN Crash(AccessFault(Top.at))
       ELSE /\ EnsureModuleInitialized(slots[Top.at])
            /\ UNCHANGED <<listVars, roVars, refVars>>

(* The final search, for any name and either value of search_in_main. *)
LookupReturn ==
    /\ Running("lookup")
    /\ ~MoreModules
    /\ \E s \in Symbols, inMain \in BOOLEAN :
          IF SearchFaults(Matches(s, inMain), inMain)
          THEN Crash("nullDeref")
          ELSE Return

(* The init functions return; the module they belong to may be gone. *)
InitReturn ==
    /\ fault = "none"
    /\ Len(stack) > 0
    /\ Top.op = "lookup"
    /\ Top.mod # NULL
    /\ IF mstate[Top.mod] = "freed"
       THEN Crash("useAfterFree")
       ELSE /\ mstate' = [mstate EXCEPT ![Top.mod] = "Initialized"]
            /\ ReplaceTop(NextModule)
            /\ UNCHANGED <<listVars, image, binds, roVars, refVars, fault>>
-----------------------------------------------------------------------------
(* Unloading. *)

(* The results of the two ldr:ro commands are not looked at: the buffers   *)
(* are freed in any case, and what a refused command leaves behind stays.  *)
(* The unmap, given the buffer and not the address of the map, is one that *)
(* ldr:ro may well refuse.                                                 *)
MayStay(S, o, failure) == {S \ {o}} \cup (IF failure \in Failures THEN {S} ELSE {})
RecordRefused(o) ==
    refused' = IF o \in mapped' \cup registered' THEN refused \cup {o}
                                                ELSE refused
UnmapOnly(o) ==
    /\ mapped' \in MayStay(mapped, o, "noUnmap")
    /\ nrrBuf' = nrrBuf \ {o}
    /\ UNCHANGED <<registered, refused>>
ReleaseRo(o) ==
    /\ mapped' \in MayStay(mapped, o, "noUnmap")
    /\ registered' \in MayStay(registered, o, "noUnregister")
    /\ RecordRefused(o)
    /\ nrrBuf' = nrrBuf \ {o}

ClearEntry(i) == slots' = [slots EXCEPT ![i] = NULL]

(* _ldDisposeModule once the fini functions have run, and the clearing of  *)
(* the entry by its caller.                                                *)
DisposeAndCountDown(o, i) ==
    /\ mstate' = [mstate EXCEPT ![o] = "freed"]
    /\ ReleaseRo(o)
    /\ ClearEntry(i)
    /\ count' = count - 1
    /\ UNCHANGED <<initialized, listAllocated, maxCount, image, binds, refVars,
                   fault>>
DisposeModule(o, i) ==
    /\ mstate' = [mstate EXCEPT ![o] = "freed"]
    /\ ReleaseRo(o)
    /\ ClearEntry(i)
    /\ UNCHANGED <<initialized, listAllocated, maxCount, count, image, binds,
                   refVars, fault>>

HasFini(o) == mstate[o] = "Initialized" /\ IsNro(o)

(* ldUnloadModule(name): the first module of that name. *)
Named(name) ==
    {i \in 0 .. count - 1 : ~BadAccess(i) /\ image[slots[i]] = name}

(* Its fini functions are called first, if there are any. *)
CallFini(i) ==
    /\ Push([op |-> "unload", at |-> i, mod |-> slots[i]])
    /\ UNCHANGED <<listVars, objVars, roVars, refVars, fault>>

LdUnloadModule ==
    /\ ClientRuns
    /\ initialized
    /\ \E name \in Modules :
          \/ /\ ScanMeetsHole(Named(name))
             /\ Crash("nullDeref")
          \/ /\ ~ScanMeetsHole(Named(name))
             /\ \E i \in Named(name) :
                   /\ IsFirst(i, Named(name))
                   /\ IF HasFini(slots[i])
                      THEN CallFini(i)
                      ELSE DisposeModule(slots[i], i) /\ UNCHANGED stack

UnloadAllButMain ==
    /\ ClientRuns
    /\ Push([op |-> "unloadAll", at |-> 1, mod |-> NULL])
    /\ UNCHANGED <<listVars, objVars, roVars, refVars, fault>>
LdUnloadAllModules ==
    /\ ClientRuns
    /\ Push([op |-> "unloadAll", at |-> 0, mod |-> NULL])
    /\ UNCHANGED <<listVars, objVars, roVars, refVars, fault>>

LdExit ==
    /\ ClientRuns
    /\ initialized
    /\ Push([op |-> "exit", at |-> 0, mod |-> NULL])
    /\ UNCHANGED <<listVars, objVars, roVars, refVars, fault>>

(* One turn of the loop of ldUnloadAllModules, from the client or ldExit. *)
UnloadAllStep ==
    /\ Running("unloadAll") \/ Running("exit")
    /\ MoreModules
    /\ IF Top.at >= Capacity
       THEN Crash(AccessFault(Top.at))
       ELSE IF slots[Top.at] = NULL
       THEN /\ ReplaceTop(NextModule)
            /\ UNCHANGED <<listVars, objVars, roVars, refVars, fault>>
       ELSE IF HasFini(slots[Top.at])
       THEN /\ EnterCallback(slots[Top.at])
            /\ UNCHANGED <<listVars, objVars, roVars, refVars, fault>>
       ELSE DisposeModule(slots[Top.at], Top.at) /\ ReplaceTop(NextModule)

(* The fini functions return. *)
FiniReturn ==
    /\ fault = "none"
    /\ Len(stack) > 0
    /\ Top.op # "lookup"
    /\ Top.mod # NULL
    /\ IF mstate[Top.mod] = "freed"
       THEN Crash("useAfterFree")
       ELSE /\ DisposeModule(Top.mod, Top.at)
            /\ IF Top.op = "unload" THEN Pop ELSE ReplaceTop(NextModule)

UnloadAllReturn ==
    /\ Running("unloadAll")
    /\ ~MoreModules
    /\ Return

KeepSession == UNCHANGED ldroRef
CloseSession == ldroRef' = ldroRef - 1

(* The end of ldExit; g_ModuleCount keeps its value. *)
ExitReturn ==
    /\ Running("exit")
    /\ ~MoreModules
    /\ CloseSession
    /\ listAllocated' = FALSE
    /\ initialized' = FALSE
    /\ Pop
    /\ UNCHANGED <<maxCount, count, slots, objVars, roVars, lostRefs, fault>>

(* The process is gone. *)
Crashed == fault # "none" /\ UNCHANGED vars
-----------------------------------------------------------------------------
ClientCalls ==
    \/ LdInitialize
    \/ LdLoadModuleFromNro
    \/ LdLookupGlobalSymbol
    \/ LdUnloadModule
    \/ LdUnloadAllModules
    \/ LdExit

LibrarySteps ==
    \/ LookupStep
    \/ LookupReturn
    \/ UnloadAllStep
    \/ UnloadAllReturn
    \/ ExitReturn

CallbackReturns == InitReturn \/ FiniReturn

Next == ClientCalls \/ LibrarySteps \/ CallbackReturns \/ Crashed

Spec == Init /\ [][Next]_vars

(* The library keeps running, and every callback returns in the end, those *)
(* that call the library again included: depth by depth, since the return  *)
(* of an outer callback is disabled while an inner call runs.              *)
CallbackReturnsAt(d) == Len(stack) = d /\ CallbackReturns
Fairness ==
    /\ WF_vars(LibrarySteps)
    /\ \A d \in 1 .. MaxDepth : SF_vars(CallbackReturnsAt(d))

FairSpec == Spec /\ Fairness
-----------------------------------------------------------------------------
(* Properties. *)

TypeOK ==
    /\ initialized \in BOOLEAN
    /\ listAllocated \in BOOLEAN
    /\ maxCount \in 0 .. MaxSlots
    /\ count \in 0 .. MaxSlots
    /\ slots \in [0 .. MaxSlots - 1 -> ObjsOrNull]
    /\ mstate \in [Objs -> MStates]
    /\ image \in [Objs -> Modules \cup {NULL}]
    /\ binds \in [Objs -> [Symbols -> ObjsOrNull]]
    /\ registered \subseteq Objs
    /\ mapped \subseteq Objs
    /\ nrrBuf \subseteq Objs
    /\ refused \subseteq Objs
    /\ ldroRef \in 0 .. MaxSessions
    /\ lostRefs \in 0 .. MaxSessions
    /\ stack \in Seq(Frames)
    /\ Len(stack) <= MaxDepth
    /\ fault \in Faults \cup {"none"}

(* Modules are initialized in load order: once a module is resolved, every *)
(* module still loaded before it has completed its init functions, however *)
(* lookups, loads and unloads are nested in callbacks (ld.c, 780-784).     *)
InitializedInOrder ==
    \A i, j \in 0 .. MaxSlots - 1 :
        /\ i < j
        /\ slots[i] # NULL
        /\ slots[j] # NULL
        /\ mstate[slots[j]] # "Loaded"
        => mstate[slots[i]] = "Initialized"

(* Whenever a lookup is about to go on, all it has passed is initialized,  *)
(* so that a symbol is never returned from a module whose init functions   *)
(* have not run; a lookup waiting for a callback may be overtaken, but     *)
(* then its module was released and it faults instead of going on.         *)
ScannedAreInitialized ==
    \A d \in 1 .. Len(stack) :
        LET f == stack[d]
        IN  f.op = "lookup" /\ (f.mod # NULL => mstate[f.mod] # "freed")
            => \A i \in 0 .. MaxSlots - 1 :
                  i < f.at /\ slots[i] # NULL
                  => mstate[slots[i]] = "Initialized"

(* ldUnloadAllModules tears down in load order: when the fini functions of *)
(* a module run there, every module loaded before it is already unmapped,  *)
(* even if earlier fini functions loaded more modules (ld.c, 770-778).     *)
TeardownInLoadOrder ==
    \A d \in 1 .. Len(stack) :
        LET f == stack[d]
        IN  /\ f.op \in {"unloadAll", "exit"}
            /\ f.mod # NULL => mstate[f.mod] # "freed"
            => \A i \in 0 .. MaxSlots - 1 : i < f.at => slots[i] = NULL

(* A module that can be found is alive, mapped and registered, its NRR is  *)
(* still allocated, and the library is initialized with an open session.   *)
ListedIsBacked ==
    \A o \in Listed :
        /\ initialized
        /\ ldroRef > lostRefs
        /\ mstate[o] \in ListedStates
        /\ IsNro(o) => o \in mapped \cap registered \cap nrrBuf

(* What ldr:ro still maps or has registered belongs to a listed module, to *)
(* a load that failed, or to a module for which ldr:ro refused a command;  *)
(* no NRR buffer survives its module, whatever ldr:ro says: no disposal,   *)
(* whatever was nested in it, forgets one of its steps (ld.c, 739-750).    *)
NothingOutlivesItsModule ==
    /\ \A o \in mapped \cup registered :
          \/ o \in Listed
          \/ mstate[o] = "Invalid"
          \/ mstate[o] = "freed" /\ o \in refused
    /\ \A o \in nrrBuf : o \in Listed \/ mstate[o] = "Invalid"

(* Every reference on the ldr:ro session is that of the current lifetime   *)
(* or was lost by a failed ldInitialize; ldExit never drops one too many.  *)
SessionBalance == ldroRef = lostRefs + (IF initialized THEN 1 ELSE 0)

(* g_ModuleCount counts every module ever loaded, main modules included,   *)
(* across unloads and ldExit: an entry is never used twice.                *)
CountIsLoads ==
    count = Cardinality({o \in Objs : mstate[o] \notin {"unused", "Invalid"}})

(* While its provider lives, a resolved module is bound to what a lookup   *)
(* of the symbol finds now: a later load never takes over a name.          *)
LiveBindingIsFirst ==
    \A o \in Listed : \A s \in Symbols :
        mstate[o] # "Loaded" /\ s \in Needs[image[o]]
        => LET p == binds[o][s]
           IN  p # NULL /\ (mstate[p] = "freed" \/ p = Provider(s))

(* Loads, failed loads, lookups and failed initializations never lead to a *)
(* memory error of their own: a module must have been unloaded before, the *)
(* list was asked for without entries, or an image without DT_HASH was     *)
(* accepted (ld.c, 384, 396, 664, 781).                                    *)
FaultHasCause ==
    fault # "none" =>
        \/ \E o \in Objs : mstate[o] = "freed"
        \/ listAllocated /\ maxCount = 0
        \/ \E o \in Listed : HasNoTable(o)

(* Without nested calls a module is never used after its release.          *)
UseAfterFreeNeedsNesting == fault = "useAfterFree" => MaxDepth > 1

(* The registry seen without its table: an entry's place only says which   *)
(* modules are older, and a failed load never happened.                    *)
LoadedBefore ==
    {e \in Objs \X Objs : \E i, j \in 0 .. MaxSlots - 1 :
        i < j /\ slots[i] = e[1] /\ slots[j] = e[2]}
WasLoaded(o) == mstate[o] \notin {"unused", "Invalid"}

Abstract == INSTANCE LinkMap WITH
    Modules <- Objs,
    open <- initialized,
    live <- Listed,
    before <- LoadedBefore,
    image <- [o \in Objs |-> IF WasLoaded(o) THEN image[o] ELSE NULL],
    phase <- [o \in Objs |-> IF WasLoaded(o) THEN mstate[o] ELSE "unused"],
    bound <- binds

(* The library implements LinkMap, whatever fails, is nested or is called  *)
(* out of order: holes in the table, the count that is never reset and the *)
(* scans that start over never bind a module early or to a later provider, *)
(* and the registry never closes over a module that can still be found.    *)
ImplementsLinkMap == Abstract!Spec

(* Every call returns, or meets a memory error, if callbacks return.       *)
CallsReturn == Len(stack) > 0 ~> (Len(stack) = 0 \/ fault # "none")
=============================================================================
