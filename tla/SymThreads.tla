----------------------------- MODULE SymThreads -----------------------------
(***************************************************************************)
(* The threads of the nnSdk layer of libnx-cruiser (sym-impl.c).  Every    *)
(* wrapper that a loaded module calls first looks the calling thread up in *)
(* g_ThreadList by its handle, to log its name; nn::os::CreateThread adds  *)
(* to the list and symExit pauses what is in it.  Nothing protects the     *)
(* list.  The log (libnx-ext, ext.c) has a mutex, which symExit may pause  *)
(* a thread with, and a function that is set without it.                   *)
(*                                                                         *)
(* A step is one access to what the threads share.  The two stores of      *)
(* "g_ThreadList[g_ThreadListCount++] = thread" come in either order, as   *)
(* the build may emit them.                                                *)
(***************************************************************************)
EXTENDS Integers, FiniteSets

CONSTANTS
    Main,       \* the thread that runs ossInitialize and ossExit
    Workers,    \* the thread objects of the modules, each created once
    NULL,
    Wrappers,   \* the kinds of wrapper the modules call
    MaxThreads, \* MAX_THREAD_COUNT, 10 in the code
    MaxExits    \* bound on the lifetimes of the layer

ASSUME ThreadsAssumption ==
    /\ IsFiniteSet(Workers)
    /\ Main \notin Workers
    /\ NULL \notin Workers \cup {Main}
ASSUME WrappersAssumption ==
    Wrappers \subseteq {"log", "create", "start", "stub"}
ASSUME SizesAssumption == MaxThreads \in Nat \ {0} /\ MaxExits \in Nat

Threads == Workers \cup {Main}

VARIABLES
    list,       \* g_ThreadList
    count,      \* g_ThreadListCount
    mainEntry,  \* the object symInitialize allocates for the main thread
    pc,         \* where each thread is
    op,         \* the call it is in
    idx,        \* its index into the list, in a walk or an insertion
    target,     \* the thread object it adds to the list, or takes from it
    stores,     \* the stores of the insertion it has still to make
    paused,     \* the threads symExit has paused
    closed,     \* those whose handle it has closed
    logMutex,   \* the holder of g_LogMutex
    logFn,      \* whether g_LogFunction is set
    fault,      \* how the process ended
    exits,      \* history: the calls of symExit
    overlapped, \* history: two threads were inserting at the same time
    slipped,    \* history: a thread was started that symExit would have
                \* paused a moment before, and had not closed yet
    stale       \* history: who had tested the log function, and not called
                \* it yet, when it was last set to NULL

listVars == <<list, count, mainEntry>>
threadVars == <<pc, op, idx, target, stores>>
stopVars == <<paused, closed>>
logVars == <<logMutex, logFn, stale>>
history == <<exits, overlapped, slipped>>
vars == <<listVars, threadVars, stopVars, logVars, fault, history>>

Running(t) == t \notin paused /\ fault = "none"
At(t, where) == Running(t) /\ pc[t] = where
Goto(t, where) == pc' = [pc EXCEPT ![t] = where]
Fault(kind) ==
    /\ fault' = kind
    /\ UNCHANGED <<listVars, threadVars, stopVars, logVars, history>>

Inserting == {t \in Threads \ paused : pc[t] \in {"full?", "read", "store"}}
-----------------------------------------------------------------------------
Init ==
    /\ list = [i \in 0 .. MaxThreads - 1 |-> NULL]
    /\ count = 0
    /\ mainEntry = "none"
    /\ pc = [t \in Threads |-> IF t = Main THEN "down" ELSE "none"]
    /\ op = [t \in Threads |-> "none"]
    /\ idx = [t \in Threads |-> 0]
    /\ target = [t \in Threads |-> NULL]
    /\ stores = [t \in Threads |-> {}]
    /\ paused = {}
    /\ closed = {}
    /\ logMutex = NULL
    /\ logFn = FALSE
    /\ fault = "none"
    /\ exits = 0
    /\ overlapped = FALSE
    /\ slipped = FALSE
    /\ stale = {}

(* The wrappers of what is not implemented (sockets, memory pages and      *)
(* others) only log that they were called, and abort.                      *)
Stubs == {"stub"}

(* A module calls a wrapper, which begins with the walk of the list. *)
Call(t) ==
    /\ At(t, "ready")
    /\ \E o \in Wrappers : op' = [op EXCEPT ![t] = o]
    /\ Goto(t, "find")
    /\ idx' = [idx EXCEPT ![t] = 0]
    /\ UNCHANGED <<listVars, target, stores, stopVars, logVars, fault, history>>

(* ldExit, after symExit: a fini function of a module calls a wrapper. *)
FiniCall ==
    /\ At(Main, "fini")
    /\ op' \in {[op EXCEPT ![Main] = o] : o \in {"fini"} \cup (Wrappers \cap Stubs)}
    /\ Goto(Main, "find")
    /\ idx' = [idx EXCEPT ![Main] = 0]
    /\ UNCHANGED <<listVars, target, stores, stopVars, logVars, fault, history>>

(* An access past the list is a fault of its own. *)
Entry(i) == IF i < MaxThreads THEN list[i] ELSE "past"

(* FindAllocatedThreadByHandle, one entry. *)
FindEntry(t) ==
    /\ At(t, "find")
    /\ idx[t] < count
    /\ LET e == Entry(idx[t])
       IN  \/ idx[t] >= MaxThreads /\ Fault("overrun")
           \/ e = NULL /\ Fault("null_entry")
           \/ e = Main /\ mainEntry = "freed" /\ Fault("freed_entry")
           \/ /\ e = t /\ ~(t = Main /\ mainEntry = "freed")
              /\ Goto(t, "lock")
              /\ UNCHANGED <<listVars, op, idx, target, stores, stopVars,
                             logVars, fault, history>>
           \/ /\ e \in Threads \ {t} /\ ~(e = Main /\ mainEntry = "freed")
              /\ idx' = [idx EXCEPT ![t] = @ + 1]
              /\ UNCHANGED <<listVars, pc, op, target, stores, stopVars,
                             logVars, fault, history>>

(* It is not there: the call logs that and aborts. *)
FindFails(t) ==
    /\ At(t, "find")
    /\ idx[t] >= count
    /\ op' = [op EXCEPT ![t] = "not_found"]
    /\ Goto(t, "lock")
    /\ UNCHANGED <<listVars, idx, target, stores, stopVars, logVars, fault,
                   history>>

(* extLogf: the mutex, the test of the function, its call. *)
LockLog(t) ==
    /\ At(t, "lock")
    /\ logMutex = NULL
    /\ logMutex' = t
    /\ Goto(t, "check")
    /\ UNCHANGED <<listVars, op, idx, target, stores, stopVars, logFn, stale,
                   fault, history>>

KeepLog == UNCHANGED logMutex
UnlockLog == logMutex' = NULL

(* There is no function, or no memory for the line. *)
SkipLog(t) ==
    /\ At(t, "check")
    /\ UnlockLog
    /\ Goto(t, "act")
    /\ UNCHANGED <<listVars, op, idx, target, stores, stopVars, logFn, stale,
                   fault, history>>

MayLogAlways == TRUE
MayLog == logFn

FormatLog(t) ==
    /\ At(t, "check")
    /\ MayLog
    /\ Goto(t, "call")
    /\ stale' = stale \ {t}
    /\ UNCHANGED <<listVars, op, idx, target, stores, stopVars, logMutex, logFn,
                   fault, history>>

CallLogFn(t) ==
    /\ At(t, "call")
    /\ \/ ~logFn /\ Fault("null_log")
       \/ /\ logFn
          /\ UnlockLog
          /\ Goto(t, "act")
          /\ UNCHANGED <<listVars, op, idx, target, stores, stopVars, logFn,
                         stale, fault, history>>

(* extSetLogFunction, by the program. *)
ExtSetLogFunction ==
    /\ At(Main, "ready") \/ At(Main, "down")
    /\ logFn' = ~logFn
    /\ stale' = IF logFn THEN {t \in Threads : pc[t] = "call"} ELSE stale
    /\ UNCHANGED <<listVars, threadVars, stopVars, logMutex, fault, history>>

(* What the wrapper does once it has logged. *)
Return(t) ==
    /\ At(t, "act")
    /\ \/ op[t] = "log" /\ Goto(t, "ready")
       \/ op[t] = "fini" /\ Goto(t, "fini")
    /\ op' = [op EXCEPT ![t] = "none"]
    /\ idx' = [idx EXCEPT ![t] = 0]
    /\ UNCHANGED <<listVars, target, stores, stopVars, logVars, fault, history>>

(* diagAbortWithResult: the thread is not found, the list is full, or the  *)
(* wrapper is a stub.                                                      *)
Abort(t) ==
    /\ At(t, "act")
    /\ op[t] \in {"not_found", "full"} \cup Stubs
    /\ Fault(op[t])

(* nn::os::StartThread, which may fail, and logs how it went.  A handle    *)
(* that is closed starts nothing.                                          *)
StartThread(t) ==
    /\ At(t, "act")
    /\ op[t] = "start"
    /\ \/ Goto(t, "find") /\ UNCHANGED slipped
       \/ \E w \in Workers \ closed :
             /\ pc[w] = "created"
             /\ pc' = [pc EXCEPT ![t] = "find", ![w] = "ready"]
             /\ slipped' = (slipped \/ (pc[Main] = "close" /\ target[Main] = w))
    /\ op' = [op EXCEPT ![t] = "log"]
    /\ idx' = [idx EXCEPT ![t] = 0]
    /\ UNCHANGED <<listVars, target, stores, stopVars, logVars, fault,
                   exits, overlapped>>

(* nn::os::CreateThread fails in threadCreate, or goes on to AllocateThread *)
(* with the new thread, which nobody can start before that is done.        *)
CreateFails(t) ==
    /\ At(t, "act")
    /\ op[t] = "create"
    /\ Goto(t, "ready")
    /\ op' = [op EXCEPT ![t] = "none"]
    /\ idx' = [idx EXCEPT ![t] = 0]
    /\ UNCHANGED <<listVars, target, stores, stopVars, logVars, fault, history>>

StartableEarly == "created"
WhileInserted == "creating"

CreateThread(t) ==
    /\ At(t, "act")
    /\ op[t] = "create"
    /\ \E w \in Workers :
          /\ pc[w] = "none"
          /\ pc' = [pc EXCEPT ![t] = "full?", ![w] = WhileInserted]
          /\ target' = [target EXCEPT ![t] = w]
    /\ overlapped' = (overlapped \/ Inserting # {})
    /\ UNCHANGED <<listVars, op, idx, stores, stopVars, logVars, fault, exits,
                   slipped>>

(* symInitialize allocates the entry of the main thread and adds it. *)
SymInitialize ==
    /\ At(Main, "down")
    /\ exits < MaxExits
    /\ mainEntry' = "live"
    /\ Goto(Main, "full?")
    /\ target' = [target EXCEPT ![Main] = Main]
    /\ overlapped' = (overlapped \/ Inserting # {})
    /\ UNCHANGED <<list, count, op, idx, stores, stopVars, logVars, fault, exits,
                   slipped>>

IsFullOffByOne == count > MaxThreads
IsFull == count >= MaxThreads

(* AllocateThread: the test, *)
TestFull(t) ==
    /\ At(t, "full?")
    /\ \/ /\ IsFull
          /\ op' = [op EXCEPT ![t] = "full"]
          /\ Goto(t, "lock")
       \/ ~IsFull /\ Goto(t, "read") /\ UNCHANGED op
    /\ UNCHANGED <<listVars, idx, target, stores, stopVars, logVars, fault,
                   history>>

(* the load of the count, *)
ReadCount(t) ==
    /\ At(t, "read")
    /\ idx' = [idx EXCEPT ![t] = count]
    /\ stores' = [stores EXCEPT ![t] = {"count", "entry"}]
    /\ Goto(t, "store")
    /\ UNCHANGED <<listVars, op, target, stopVars, logVars, fault, history>>

NextCount(t) == idx[t] + 1

(* and the two stores, *)
StoreCount(t) ==
    /\ At(t, "store")
    /\ "count" \in stores[t]
    /\ count' = NextCount(t)
    /\ stores' = [stores EXCEPT ![t] = @ \ {"count"}]
    /\ UNCHANGED <<list, mainEntry, pc, op, idx, target, stopVars, logVars,
                   fault, history>>

StoreEntry(t) ==
    /\ At(t, "store")
    /\ "entry" \in stores[t]
    /\ \/ idx[t] >= MaxThreads /\ Fault("overrun")
       \/ /\ idx[t] < MaxThreads
          /\ list' = [list EXCEPT ![idx[t]] = target[t]]
          /\ stores' = [stores EXCEPT ![t] = @ \ {"entry"}]
          /\ UNCHANGED <<count, mainEntry, pc, op, idx, target, stopVars,
                         logVars, fault, history>>

(* after which the thread can be started, and the caller goes on. *)
FinishAllocate(t) ==
    /\ At(t, "store")
    /\ stores[t] = {}
    /\ pc' = [pc EXCEPT ![target[t]] = "created", ![t] = "ready"]
    /\ op' = [op EXCEPT ![t] = "none"]
    /\ idx' = [idx EXCEPT ![t] = 0]
    /\ target' = [target EXCEPT ![t] = NULL]
    /\ UNCHANGED <<listVars, stores, stopVars, logVars, fault, history>>

(* The function of a thread returns: its entry stays. *)
EndThread(w) ==
    /\ w # Main
    /\ At(w, "ready")
    /\ Goto(w, "ended")
    /\ UNCHANGED <<listVars, op, idx, target, stores, stopVars, logVars, fault,
                   history>>

(* symExit frees the first entry, which should be that of the main thread, *)
(* (without a symInitialize before it the list is empty and nothing        *)
(* changes, which is not an action here)                                   *)
SymExit ==
    /\ At(Main, "ready")
    /\ exits' = exits + 1
    /\ \/ list[0] \in Workers /\ fault' = "bad_free" /\ UNCHANGED mainEntry
       \/ list[0] = NULL /\ UNCHANGED <<fault, mainEntry>>
       \/ list[0] = Main /\ mainEntry' = "freed" /\ UNCHANGED fault
    /\ Goto(Main, "exit")
    /\ UNCHANGED <<list, count, op, idx, target, stores, stopVars, logVars,
                   overlapped, slipped>>

Skipped(i) == i = 0
ExitLimitOffByOne == count - 1
ExitLimit == count

(* and then takes each of the others from its entry, *)
ExitEntry ==
    /\ At(Main, "exit")
    /\ idx[Main] < ExitLimit
    /\ LET i == idx[Main]
           e == Entry(i)
       IN  \/ ~Skipped(i) /\ i >= MaxThreads /\ Fault("overrun")
           \/ ~Skipped(i) /\ e = NULL /\ Fault("null_entry")
           \/ ~Skipped(i) /\ e = Main /\ Fault("self_close")
           \/ /\ \/ Skipped(i) /\ Goto(Main, "clear") /\ UNCHANGED target
                 \/ /\ ~Skipped(i) /\ i < MaxThreads /\ e \in Workers
                    /\ target' = [target EXCEPT ![Main] = e]
                    /\ Goto(Main, "pause")
              /\ UNCHANGED <<listVars, op, idx, stores, stopVars, logVars,
                             fault, history>>

(* A thread runs from its start until its function returns, or symExit     *)
(* pauses it.                                                              *)
Runs(w) == w \notin paused
           /\ pc[w] \notin {"none", "creating", "created", "ended"}

(* pauses it, unless it does not run, which is not noticed, *)
PauseThread ==
    /\ At(Main, "pause")
    /\ LET w == target[Main]
       IN  \/ Runs(w) /\ w \notin closed /\ paused' = paused \cup {w}
           \/ ~(Runs(w) /\ w \notin closed) /\ UNCHANGED paused
    /\ Goto(Main, "close")
    /\ UNCHANGED <<listVars, op, idx, target, stores, closed, logVars, fault,
                   history>>

(* closes its handle, *)
CloseThread ==
    /\ At(Main, "close")
    /\ closed' = closed \cup {target[Main]}
    /\ Goto(Main, "clear")
    /\ UNCHANGED <<listVars, op, idx, target, stores, paused, logVars, fault,
                   history>>

(* and clears the entry. *)
ClearEntry ==
    /\ At(Main, "clear")
    /\ list' = [list EXCEPT ![idx[Main]] = NULL]
    /\ idx' = [idx EXCEPT ![Main] = @ + 1]
    /\ target' = [target EXCEPT ![Main] = NULL]
    /\ Goto(Main, "exit")
    /\ UNCHANGED <<count, mainEntry, op, stores, stopVars, logVars, fault,
                   history>>

EndExit ==
    /\ At(Main, "exit")
    /\ idx[Main] >= ExitLimit
    /\ count' = 0
    /\ idx' = [idx EXCEPT ![Main] = 0]
    /\ Goto(Main, "fini")
    /\ UNCHANGED <<list, mainEntry, op, target, stores, stopVars, logVars,
                   fault, history>>

(* The rest of ossExit. *)
EndFini ==
    /\ At(Main, "fini")
    /\ Goto(Main, "down")
    /\ UNCHANGED <<listVars, op, idx, target, stores, stopVars, logVars, fault,
                   history>>

Crashed == fault # "none" /\ UNCHANGED vars

ThreadStep(t) ==
    \/ FindEntry(t) \/ FindFails(t)
    \/ LockLog(t) \/ SkipLog(t) \/ FormatLog(t) \/ CallLogFn(t)
    \/ Return(t) \/ Abort(t) \/ StartThread(t)
    \/ CreateFails(t) \/ CreateThread(t)
    \/ TestFull(t) \/ ReadCount(t) \/ StoreCount(t) \/ StoreEntry(t)
    \/ FinishAllocate(t)

Next ==
    \/ \E t \in Threads : Call(t) \/ ThreadStep(t) \/ EndThread(t)
    \/ ExtSetLogFunction
    \/ SymInitialize
    \/ SymExit \/ ExitEntry \/ PauseThread \/ CloseThread \/ ClearEntry
    \/ EndExit
    \/ FiniCall \/ EndFini
    \/ Crashed

Spec == Init /\ [][Next]_vars

(* A thread that is not paused keeps running in the library's own code. *)
FairSpec == Spec /\ \A t \in Threads : WF_vars(ThreadStep(t))
-----------------------------------------------------------------------------
(* Properties. *)

PCs == {"down", "none", "creating", "created", "ready", "find", "lock",
        "check", "call", "act", "full?", "read", "store", "exit", "pause",
        "close", "clear", "fini", "ended"}
Ops == {"none", "log", "create", "start", "fini", "not_found", "full"} \cup Stubs
Faults == {"none", "null_entry", "freed_entry", "bad_free", "self_close",
           "overrun", "not_found", "full", "null_log"} \cup Stubs

TypeOK ==
    /\ list \in [0 .. MaxThreads - 1 -> Threads \cup {NULL}]
    /\ count \in Nat
    /\ mainEntry \in {"none", "live", "freed"}
    /\ pc \in [Threads -> PCs]
    /\ op \in [Threads -> Ops]
    /\ idx \in [Threads -> Nat]
    /\ target \in [Threads -> Threads \cup {NULL}]
    /\ stores \in [Threads -> SUBSET {"count", "entry"}]
    /\ paused \subseteq Workers /\ closed \subseteq Workers
    /\ logMutex \in Threads \cup {NULL}
    /\ logFn \in BOOLEAN
    /\ fault \in Faults
    /\ exits \in 0 .. MaxExits
    /\ overlapped \in BOOLEAN /\ slipped \in BOOLEAN
    /\ stale \subseteq Threads

(* A thread that can run finds itself: as long as no two threads were      *)
(* inserting at the same time, and before symExit, no call of a wrapper    *)
(* meets a bad entry or misses its own thread (sym-impl.c, 46-51 and       *)
(* 78-87).                                                                 *)
LookupFaults == Faults \ ({"none", "full", "null_log"} \cup Stubs)
LookupFaultNeedsRace == fault \in LookupFaults => overlapped \/ exits > 0

(* symExit misses no thread, those that are created or started while it    *)
(* walks the list included: when it is done no thread of the modules runs, *)
(* and the modules can be unmapped.  There are two ways past it: the       *)
(* insertions that overlap, and a start between the pause that fails and   *)
(* the close (sym-impl.c, 757-770; oss.c, 173-177).                        *)
NoneRunsAfterExit ==
    pc[Main] \in {"fini", "down"} /\ fault = "none" =>
        overlapped \/ slipped \/ \A w \in Workers : ~Runs(w)

(* A log line calls NULL only in a thread that had tested the function and *)
(* not called it yet when somebody unset it: it is tested under the mutex  *)
(* that extSetLogFunction does not take (ext.c, 8-34).                     *)
NullLogNeedsReset == fault = "null_log" => logMutex \in stale

Exiting == {"exit", "pause", "close", "clear"}

(* A thread that can run has exactly one entry below the count: without    *)
(* it symExit would leave it running, and with two would pause it twice    *)
(* (sym-impl.c, 46-51 and 580-588).                                        *)
ListedOnce ==
    pc[Main] \notin Exiting \cup {"fini", "down"} /\ ~overlapped /\ ~slipped =>
        \A w \in Workers :
            Runs(w) /\ fault = "none" =>
                Cardinality({i \in 0 .. count - 1 : list[i] = w}) = 1

(* Every path of extLogf releases the mutex: a thread keeps it only when   *)
(* symExit has paused the thread inside (ext.c, 12-34; sym-impl.c, 764).   *)
LogMutexReleased ==
    \A t \in Threads :
        logMutex = t ~> logMutex # t \/ t \in paused \/ fault # "none"
=============================================================================
