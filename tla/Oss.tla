--------------------------------- MODULE Oss ---------------------------------
(***************************************************************************)
(* The loader of the browser modules (libnx-cruiser, oss.c, browserdll.c)  *)
(* and the symbol pointers taken from them (cruiser.cpp), on top of the    *)
(* module registry (Ld) and the thread list (SymThreads), of which only    *)
(* what a sequence of ossInitialize, cruiserInitialize and ossExit can     *)
(* tell is kept here.                                                      *)
(*                                                                         *)
(* All three are called by one thread.  A step is the code up to the next  *)
(* call that can fail.  The program may call again after a failure, and    *)
(* ossExit at any time, as the example program does.                       *)
(***************************************************************************)
EXTENDS Integers, Sequences

CONSTANTS
    Nros,        \* OssBrowserDllNro_Count, 5 in the code
    MaxModules,  \* what ossInitialize passes to ldInitialize, 10
    MaxThreads,  \* MAX_THREAD_COUNT, 10
    Home,        \* Home[k]: the NRO that defines the k-th symbol looked up
    MaxCalls     \* bound on the calls of ossInitialize

ASSUME SizesAssumption ==
    /\ Nros \in Nat \ {0} /\ MaxModules \in Nat \ {0}
    /\ MaxThreads \in Nat \ {0} /\ MaxCalls \in Nat
ASSUME HomeAssumption == Home \in Seq(1 .. Nros) /\ Home # <<>>

VARIABLES
    mounted,    \* browserdllIsMounted()
    lz4,        \* whether the firmware compresses the NROs
    ld,         \* the registry: up (g_Initialized), base (the entry of the
                \* main module), count (g_ModuleCount)
    mods,       \* the NROs in the list, in the order loaded
    entries,    \* how often the main thread is in g_ThreadList
    pc,         \* where the thread is
    at,         \* the NRO, or the symbol, it is at
    res,        \* what _ossLoadDecompressBrowserDllNro holds
    ptrs,       \* ptrs[k]: the lifetime the k-th pointer was taken in, or 0
    ready,      \* history: cruiserInitialize succeeded, ossExit not called
    life,       \* history: one more than the ldExit calls so far
    calls,      \* history: the calls of ossInitialize
    tries,      \* history: how often symInitialize was called since ossExit
    envFailed,  \* history: something failed under the last ossInitialize
    result,     \* what the last ossInitialize returned
    fault       \* how the process ended

setup == <<mounted, ld, mods, entries>>
pointers == <<ptrs, ready>>
history == <<life, calls, tries>>
outcome == <<envFailed, result>>
vars == <<setup, lz4, pc, at, res, pointers, history, outcome, fault>>

Nothing == [file |-> FALSE, nroBuf |-> FALSE, decBuf |-> FALSE]
Idle == pc = "idle" /\ fault = "none"
At(where) == pc = where /\ fault = "none"

Return(r) == pc' = "idle" /\ result' = r
Fault(kind) ==
    /\ fault' = kind
    /\ UNCHANGED <<setup, lz4, pc, at, res, pointers, outcome>>
-----------------------------------------------------------------------------
Init ==
    /\ mounted = FALSE
    /\ lz4 \in BOOLEAN
    /\ ld = [up |-> FALSE, base |-> 0, count |-> 0]
    /\ mods = <<>>
    /\ entries = 0
    /\ pc = "idle"
    /\ at = 1
    /\ res = Nothing
    /\ ptrs = [k \in 1 .. Len(Home) |-> 0]
    /\ ready = FALSE
    /\ life = 1
    /\ calls = 0
    /\ tries = 0
    /\ envFailed = FALSE
    /\ result = "none"
    /\ fault = "none"

(* ldInitialize: nothing if it is up.  Otherwise the main module is stored *)
(* at g_ModuleCount, which ldExit does not reset.                          *)
LdRestarted == [up |-> TRUE, base |-> ld.count, count |-> ld.count + 1]
LdStarted ==
    IF ld.up THEN ld
    ELSE [up |-> TRUE, base |-> ld.count, count |-> ld.count + 1]
NoRoomForMain == ~ld.up /\ ld.count >= MaxModules

(* ossInitialize up to its loop: browserdllMount, ldInitialize and         *)
(* symInitialize, which adds the main thread whatever is in the list.      *)
MountAndStart ==
    \/ /\ ~mounted \/ ~ld.up
       /\ mounted' \in {mounted, TRUE} /\ (ld.up => ~mounted')
       /\ Return("failed")
       /\ envFailed' = TRUE
       /\ UNCHANGED <<ld, mods, entries, lz4, at, res, pointers, tries, fault>>
    \/ NoRoomForMain /\ Fault("outOfBounds") /\ UNCHANGED tries
    \/ /\ ~NoRoomForMain /\ entries >= MaxThreads
       /\ Fault("threadListFull")
       /\ tries' = tries + 1
    \/ /\ ~NoRoomForMain /\ entries < MaxThreads
       /\ mounted' = TRUE
       /\ ld' = LdStarted
       /\ entries' = entries + 1
       /\ tries' = tries + 1
       /\ pc' = "open"
       /\ at' = 1
       /\ envFailed' = FALSE
       /\ result' = "none"
       /\ UNCHANGED <<mods, lz4, res, pointers, fault>>

OssInitialize ==
    /\ Idle
    /\ calls < MaxCalls
    /\ calls' = calls + 1
    /\ MountAndStart
    /\ UNCHANGED life
-----------------------------------------------------------------------------
(* One turn of the loop.  A failure gives back what the turn has taken and *)
(* returns; what earlier turns and the initializations did stays.          *)
Advance(where, held) ==
    /\ pc' = where
    /\ res' = held
    /\ UNCHANGED <<setup, lz4, at, pointers, history, outcome, fault>>
GiveUp(held) ==
    /\ Return("failed")
    /\ res' = held
    /\ envFailed' = TRUE
    /\ UNCHANGED <<setup, lz4, at, pointers, history, fault>>

OpenNro ==
    /\ At("open")
    /\ GiveUp(Nothing) \/ Advance("read", [Nothing EXCEPT !.file = TRUE])

(* The buffer for the file, and fread into it. *)
KeptFile == [Nothing EXCEPT !.file = TRUE]
AfterReadFailure == Nothing
ReadNro ==
    /\ At("read")
    /\ \/ GiveUp(AfterReadFailure)
       \/ Advance(IF lz4 THEN "decompress" ELSE "load",
                  [Nothing EXCEPT !.nroBuf = TRUE])

(* The buffer for the decompressed NRO, and LZ4_decompress_safe. *)
AfterLz4Failure == Nothing
Decompress ==
    /\ At("decompress")
    /\ GiveUp(AfterLz4Failure)
       \/ Advance("load", [Nothing EXCEPT !.decBuf = TRUE])

(* ldLoadModuleFromNro owns the buffer if it succeeds; otherwise it is     *)
(* freed, a mapping that is left over included (see Ld).                   *)
LastButOne == at = Nros - 1
LastNro == at = Nros
ListFull == ld.count >= MaxModules
LoadNro ==
    /\ At("load")
    /\ res' = Nothing
    /\ \/ /\ ~ListFull
          /\ mods' = Append(mods, at)
          /\ ld' = [ld EXCEPT !.count = @ + 1]
          /\ IF LastNro
             THEN Return("ok") /\ at' = 1
             ELSE pc' = "open" /\ at' = at + 1 /\ UNCHANGED result
          /\ UNCHANGED envFailed
       \/ /\ Return("failed")
          /\ envFailed' = ~ListFull
          /\ UNCHANGED <<ld, mods, at>>
    /\ UNCHANGED <<mounted, entries, lz4, pointers, history, fault>>
-----------------------------------------------------------------------------
(* cruiserInitialize: lookup after lookup, until one fails. *)
CruiserInitialize ==
    /\ Idle
    /\ pc' = "lookup"
    /\ at' = 1
    /\ UNCHANGED <<setup, lz4, res, pointers, history, outcome, fault>>

Range(s) == {s[i] : i \in DOMAIN s}

(* ldLookupGlobalSymbol reads every entry from the first: those below the  *)
(* main module are NULL, and after ldExit the list itself is.              *)
LookupMeetsNull == ld.count > 0 /\ (~ld.up \/ ld.base > 0)
AnyHome(k) == mods # <<>>
Found(k) == Home[k] \in Range(mods)

LookupSymbol ==
    /\ At("lookup")
    /\ \/ LookupMeetsNull /\ Fault("nullDeref")
       \/ /\ ~LookupMeetsNull /\ Found(at)
          /\ ptrs' = [ptrs EXCEPT ![at] = life]
          /\ IF at = Len(Home)
             THEN pc' = "idle" /\ at' = 1 /\ ready' = TRUE
             ELSE at' = at + 1 /\ UNCHANGED <<pc, ready>>
          /\ UNCHANGED <<setup, lz4, res, outcome, fault>>
       \/ (* it is not there, or a module cannot be resolved *)
          /\ ~LookupMeetsNull
          /\ pc' = "idle"
          /\ at' = 1
          /\ UNCHANGED <<setup, lz4, res, pointers, outcome, fault>>
    /\ UNCHANGED history
-----------------------------------------------------------------------------
(* ossExit: symExit, ldExit and browserdllUnmount.  symExit takes all but  *)
(* the first entry for threads of the modules, and pauses and closes them. *)
SecondMain == entries > 1
NoneCleared == entries
EntriesLeft == 0
OssExit ==
    /\ Idle
    /\ \/ SecondMain /\ Fault("selfPause") /\ UNCHANGED history
       \/ /\ ~SecondMain
          /\ mounted' = FALSE
          /\ ld' = [ld EXCEPT !.up = FALSE]
          /\ mods' = <<>>
          /\ entries' = EntriesLeft
          /\ life' = IF ld.up THEN life + 1 ELSE life
          /\ tries' = 0
          /\ ready' = FALSE
          /\ UNCHANGED <<lz4, pc, at, res, ptrs, calls, outcome, fault>>

Crashed == fault # "none" /\ UNCHANGED vars

Next ==
    \/ OssInitialize
    \/ OpenNro \/ ReadNro \/ Decompress \/ LoadNro
    \/ CruiserInitialize \/ LookupSymbol
    \/ OssExit
    \/ Crashed

Spec == Init /\ [][Next]_vars
-----------------------------------------------------------------------------
(* Properties. *)

TypeOK ==
    /\ mounted \in BOOLEAN /\ lz4 \in BOOLEAN
    /\ ld \in [up : BOOLEAN, base : Nat, count : Nat]
    /\ mods \in Seq(1 .. Nros)
    /\ entries \in 0 .. MaxThreads
    /\ pc \in {"idle", "open", "read", "decompress", "load", "lookup"}
    /\ at \in Nat \ {0}
    /\ res \in [file : BOOLEAN, nroBuf : BOOLEAN, decBuf : BOOLEAN]
    /\ ptrs \in [1 .. Len(Home) -> Nat] /\ ready \in BOOLEAN
    /\ life \in Nat \ {0} /\ calls \in 0 .. MaxCalls /\ tries \in Nat
    /\ envFailed \in BOOLEAN /\ result \in {"none", "ok", "failed"}
    /\ fault \in {"none", "outOfBounds", "threadListFull", "selfPause",
                  "nullDeref"}

(* Whatever fails in a turn, before or after decompression, ossInitialize  *)
(* returns with the file closed and both buffers freed, or owned by a      *)
(* module (oss.c, 96-150 and 161-168).                                     *)
BuffersReleased == pc \in {"idle", "lookup"} => res = Nothing

(* As long as the program may call through the pointers each of them leads *)
(* into a module that is mapped now: none was left over from before an     *)
(* ossExit, by a partial cruiserInitialize or by a partial ossInitialize   *)
(* (cruiser.cpp, 18-46; oss.c, 152-177).                                   *)
PointersAreLive ==
    ready => \A k \in 1 .. Len(Home) :
                /\ ptrs[k] = life
                /\ ld.up
                /\ Home[k] \in Range(mods)

(* ossInitialize reports success only with every NRO in the list, and      *)
(* loads them in the order the later ones need the earlier ones (oss.c,    *)
(* 157-168), also when it goes on after an attempt that failed.            *)
SuccessIsComplete ==
    /\ result = "ok" /\ ld.up => Range(mods) = 1 .. Nros
    /\ tries < 2 => \A i \in 1 .. Len(mods) : mods[i] = i

(* A registry or a pointer goes wrong only after an ldExit (ld.c, 687-697  *)
(* and 780-784): no failed or repeated ossInitialize alone leads there.    *)
MemoryFaultNeedsExit == fault \in {"nullDeref", "outOfBounds"} => life > 1

(* symExit closes the thread that calls it, or the list of threads fills,  *)
(* only if ossInitialize was tried again without ossExit (sym-impl.c,      *)
(* 742-755 and 757-770; oss.c, 155).                                       *)
SelfPauseNeedsRetry ==
    fault \in {"selfPause", "threadListFull"} => tries > 1

(* "Mounts shared data and loads all OSS/WKC NRO modules" (main.cpp, 467): *)
(* ossInitialize fails only if something it called failed.                 *)
FailsOnlyWithCause == result = "failed" => envFailed
=============================================================================
