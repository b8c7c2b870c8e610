-------------------------- MODULE SymThreadsProofs --------------------------
(***************************************************************************)
(* The safety of SymThreads for every number of workers, of entries of the *)
(* list and of lifetimes.  The invariants the runs check say nothing of    *)
(* the insertions under way, so none is inductive; SymInv adds where each  *)
(* insertion stands (InsertInv), where each thread is listed (PlaceInv),   *)
(* what symExit has walked past (ExitInv) and, before the first symExit,   *)
(* that the list has no hole (FirstInv).  All of these are lost once two   *)
(* insertions overlap, or a thread slips past symExit, so they are asked   *)
(* for only while neither has happened (Good).                             *)
(***************************************************************************)
EXTENDS SymThreads, FiniteSetTheorems, TLAPS

Busy == {"find", "lock", "check", "call", "act"}
Adding(t) == pc[t] \in {"full?", "read", "store"}

(***************************************************************************)
(* Types.  The layer is only up in a lifetime that symInitialize began.    *)
(***************************************************************************)
UpInv ==
    (\/ pc[Main] = "ready" \/ Adding(Main)
     \/ pc[Main] \in Busy /\ op[Main] \in {"log", "create", "start"})
    => exits < MaxExits
(* The log function a thread has tested is there, unless it was unset.     *)
NullInv == \A t \in Threads : pc[t] = "call" /\ t \notin stale => logFn
NullFault == fault = "null_log" => \E t \in stale : pc[t] = "call"
(* Only symExit pauses and closes, and what it takes are workers.          *)
StopsLate ==
    /\ pc[Main] \in Exiting \/ slipped => exits > 0
    /\ pc[Main] \in {"pause", "close"} => target[Main] \in Workers

BasicInv == TypeOK /\ UpInv /\ NullInv /\ NullFault /\ StopsLate
-----------------------------------------------------------------------------
(* The main thread is no worker, and NULL is no thread. *)
LEMMA MainIsAThread == Main \in Threads /\ Main # NULL /\ Main \notin Workers
BY ThreadsAssumption DEF Threads

(* The types, to begin with. *)
LEMMA BasicInvInit == Init => BasicInv
<1> SUFFICES ASSUME Init PROVE BasicInv
  OBVIOUS
<1> USE SizesAssumption, MainIsAThread DEF Init
<1>1. TypeOK
  <2>1. list \in [0 .. MaxThreads - 1 -> Threads \cup {NULL}] /\ count \in Nat
    OBVIOUS
  <2>2. pc \in [Threads -> PCs]
    BY DEF PCs
  <2>3. op \in [Threads -> Ops] /\ fault \in Faults
    BY DEF Ops, Faults
  <2>4. idx \in [Threads -> Nat] /\ target \in [Threads -> Threads \cup {NULL}]
    OBVIOUS
  <2>5. stores \in [Threads -> SUBSET {"count", "entry"}]
    OBVIOUS
  <2>6. mainEntry \in {"none", "live", "freed"} /\ paused \subseteq Workers
        /\ closed \subseteq Workers /\ logMutex \in Threads \cup {NULL}
    OBVIOUS
  <2>7. /\ logFn \in BOOLEAN /\ overlapped \in BOOLEAN /\ slipped \in BOOLEAN
        /\ stale \subseteq Threads
    OBVIOUS
  <2>8. exits \in 0 .. MaxExits
    OBVIOUS
  <2>9. QED
    BY <2>1, <2>2, <2>3, <2>4, <2>5, <2>6, <2>7, <2>8 DEF TypeOK
<1>2. UpInv /\ NullInv /\ NullFault /\ StopsLate
  BY DEF UpInv, NullInv, NullFault, StopsLate, Adding, Busy, Exiting, Threads
<1>3. QED
  BY <1>1, <1>2 DEF BasicInv

(* The wrappers of the instance are operations of the model. *)
LEMMA OpsAreOps == Wrappers \subseteq Ops
BY WrappersAssumption DEF Ops, Stubs

(* The steps of the threads keep the types, *)
LEMMA TypeOKThread ==
    ASSUME TypeOK, NEW t \in Threads, Call(t) \/ ThreadStep(t) \/ EndThread(t)
    PROVE  TypeOK'
<1> USE SizesAssumption, MainIsAThread DEF TypeOK, history, stopVars, listVars, logVars,
    threadVars, At, Goto, Running, Fault, Stubs
<1>1. CASE Call(t)
  BY <1>1, OpsAreOps DEF Call, PCs
<1>2. CASE FindEntry(t)
  <2>1. \/ fault' \in {"overrun", "null_entry", "freed_entry"} /\ UNCHANGED
             <<listVars, threadVars, stopVars, logVars, history>>
        \/ pc' = [pc EXCEPT ![t] = "lock"] /\ UNCHANGED
             <<listVars, op, idx, target, stores, stopVars, logVars, fault,
               history>>
        \/ idx' = [idx EXCEPT ![t] = @ + 1] /\ UNCHANGED
             <<listVars, pc, op, target, stores, stopVars, logVars, fault,
               history>>
    BY <1>2 DEF FindEntry
  <2>2. QED
    <3>1. CASE fault' \in {"overrun", "null_entry", "freed_entry"} /\ UNCHANGED
                 <<listVars, threadVars, stopVars, logVars, history>>
      BY <3>1 DEF Faults
    <3>2. CASE pc' = [pc EXCEPT ![t] = "lock"] /\ UNCHANGED
                 <<listVars, op, idx, target, stores, stopVars, logVars, fault,
                   history>>
      BY <3>2 DEF PCs
    <3>3. CASE idx' = [idx EXCEPT ![t] = @ + 1] /\ UNCHANGED
                 <<listVars, pc, op, target, stores, stopVars, logVars, fault,
                   history>>
      BY <3>3
    <3>4. QED
      BY <2>1, <3>1, <3>2, <3>3
<1>3. CASE FindFails(t)
  BY <1>3 DEF FindFails, PCs, Ops
<1>4. CASE LockLog(t) \/ SkipLog(t) \/ FormatLog(t)
  BY <1>4 DEF LockLog, SkipLog, FormatLog, UnlockLog, PCs
<1>5. CASE CallLogFn(t)
  BY <1>5 DEF CallLogFn, UnlockLog, PCs, Faults
<1>6. CASE Return(t) \/ CreateFails(t) \/ EndThread(t)
  <2>1. CASE Return(t)
    BY <2>1 DEF Return, PCs, Ops
  <2>2. CASE CreateFails(t)
    BY <2>2 DEF CreateFails, PCs, Ops
  <2>3. CASE EndThread(t)
    BY <2>3 DEF EndThread, PCs
  <2>4. QED
    BY <1>6, <2>1, <2>2, <2>3
<1>7. CASE Abort(t)
  BY <1>7 DEF Abort, Faults
<1>8. CASE StartThread(t)
  <2>1. pc' \in [Threads -> PCs]
    BY <1>8 DEF StartThread, PCs, Threads
  <2>2. op' \in [Threads -> Ops] /\ idx' \in [Threads -> Nat]
    BY <1>8 DEF StartThread, Ops
  <2>3. /\ UNCHANGED <<listVars, target, stores, stopVars, logVars, fault, exits,
                       overlapped>>
        /\ slipped' \in BOOLEAN
    BY <1>8 DEF StartThread
  <2>4. QED
    BY <2>1, <2>2, <2>3
<1>9. CASE CreateThread(t)
  BY <1>9 DEF CreateThread, WhileInserted, PCs, Threads
<1>10. CASE TestFull(t)
  BY <1>10 DEF TestFull, PCs, Ops
<1>11. CASE ReadCount(t)
  BY <1>11 DEF ReadCount, PCs
<1>12. CASE StoreCount(t)
  BY <1>12 DEF StoreCount, NextCount
<1>13. CASE StoreEntry(t)
  <2>1. CASE Fault("overrun")
    BY <2>1 DEF Faults
  <2>2. CASE idx[t] < MaxThreads
             /\ list' = [list EXCEPT ![idx[t]] = target[t]]
             /\ stores' = [stores EXCEPT ![t] = @ \ {"entry"}]
             /\ UNCHANGED <<count, mainEntry, pc, op, idx, target, paused, closed,
                           logVars, fault, history>>
    BY <2>2
  <2>3. QED
    BY <1>13, <2>1, <2>2 DEF StoreEntry
<1>14. CASE FinishAllocate(t)
  BY <1>14 DEF FinishAllocate, PCs, Ops
<1>15. QED
  BY <1>1, <1>2, <1>3, <1>4, <1>5, <1>6, <1>7, <1>8, <1>9, <1>10, <1>11,
     <1>12, <1>13, <1>14 DEF ThreadStep

(* and so do those of the main thread alone. *)
LEMMA TypeOKMain ==
    ASSUME TypeOK, UpInv, StopsLate,
           ExtSetLogFunction \/ SymInitialize \/ SymExit \/ ExitEntry
           \/ PauseThread \/ CloseThread \/ ClearEntry
           \/ EndExit \/ FiniCall \/ EndFini
    PROVE  TypeOK'
<1> USE SizesAssumption, MainIsAThread DEF TypeOK, history, stopVars, listVars, logVars,
    threadVars, At, Goto, Running, Fault, Stubs
<1>1. CASE ExtSetLogFunction
  BY <1>1 DEF ExtSetLogFunction
<1>2. CASE SymInitialize
  BY <1>2 DEF SymInitialize, PCs
<1>3. CASE SymExit
  BY <1>3 DEF SymExit, UpInv, PCs, Faults
<1>4. CASE ExitEntry
  <2>1. CASE \E kind \in {"overrun", "null_entry", "self_close"} : Fault(kind)
    BY <2>1 DEF Faults
  <2>2. CASE Skipped(idx[Main]) /\ Goto(Main, "clear") /\ UNCHANGED <<listVars,
             op, idx, target, stores, stopVars, logVars, fault, history>>
    BY <2>2 DEF PCs
  <2>3. CASE \E e \in Workers :
               /\ target' = [target EXCEPT ![Main] = e] /\ Goto(Main, "pause")
               /\ UNCHANGED <<listVars, op, idx, stores, stopVars, logVars,
                             fault, history>>
    BY <2>3 DEF PCs, Threads
  <2>4. QED
    BY <1>4, <2>1, <2>2, <2>3 DEF ExitEntry
<1>8. CASE PauseThread
  BY <1>8 DEF PauseThread, StopsLate, PCs
<1>9. CASE CloseThread
  BY <1>9 DEF CloseThread, StopsLate, PCs
<1>10. CASE ClearEntry
  <2>1. list' \in [0 .. MaxThreads - 1 -> Threads \cup {NULL}]
    BY <1>10 DEF ClearEntry
  <2>2. idx' \in [Threads -> Nat] /\ target' \in [Threads -> Threads \cup {NULL}]
    BY <1>10 DEF ClearEntry
  <2>3. pc' \in [Threads -> PCs]
    BY <1>10 DEF ClearEntry, PCs
  <2>4. UNCHANGED <<count, mainEntry, op, stores, paused, closed, logVars, fault,
                    history>>
    BY <1>10 DEF ClearEntry
  <2>5. QED
    BY <2>1, <2>2, <2>3, <2>4
<1>5. CASE EndExit \/ EndFini
  <2>1. CASE EndExit
    BY <2>1 DEF EndExit, PCs
  <2>2. CASE EndFini
    BY <2>2 DEF EndFini, PCs
  <2>3. QED
    BY <1>5, <2>1, <2>2
<1>6. CASE FiniCall
  BY <1>6, OpsAreOps DEF FiniCall, PCs, Ops
<1>11. QED
  BY <1>1, <1>2, <1>3, <1>4, <1>5, <1>6, <1>8, <1>9, <1>10

(* The steps of the threads that neither come from nor lead into a state   *)
(* in which Main is up that was not up before.                             *)
LEMMA BasicInvThread ==
    ASSUME BasicInv, NEW t \in Threads,
           Call(t) \/ ThreadStep(t) \/ EndThread(t)
    PROVE  BasicInv'
<1>1. TypeOK'
  BY TypeOKThread DEF BasicInv
<1> USE MainIsAThread DEF BasicInv, TypeOK, history, stopVars, listVars, logVars,
    threadVars, At, Goto, Running, Fault, Stubs, UpInv, NullInv, Adding, Busy,
    NullFault, StopsLate, Exiting
<1>2. (\/ Call(t) \/ FindEntry(t) \/ FindFails(t) \/ LockLog(t) \/ SkipLog(t)
       \/ FormatLog(t) \/ CallLogFn(t))
      => UpInv' /\ NullInv' /\ NullFault' /\ StopsLate'
  <2>1. CASE Call(t)
    BY <2>1 DEF Call
  <2>2. CASE FindEntry(t)
    BY <2>2 DEF FindEntry
  <2>3. CASE FindFails(t)
    BY <2>3 DEF FindFails
  <2>4. CASE LockLog(t) \/ SkipLog(t) \/ FormatLog(t)
    BY <2>4 DEF LockLog, SkipLog, FormatLog, MayLog
  <2>5. CASE CallLogFn(t)
    BY <2>5 DEF CallLogFn
  <2>6. QED
    BY <2>1, <2>2, <2>3, <2>4, <2>5
<1>3. (\/ Return(t) \/ Abort(t) \/ StartThread(t) \/ CreateFails(t)
       \/ CreateThread(t))
      => UpInv' /\ NullInv' /\ NullFault' /\ StopsLate'
  <2>1. CASE Return(t)
    BY <2>1 DEF Return
  <2>2. CASE Abort(t)
    BY <2>2 DEF Abort
  <2>3. CASE StartThread(t)
    BY <2>3 DEF StartThread
  <2>4. CASE CreateFails(t)
    BY <2>4 DEF CreateFails
  <2>5. CASE CreateThread(t)
    BY <2>5 DEF CreateThread, WhileInserted
  <2>6. QED
    BY <2>1, <2>2, <2>3, <2>4, <2>5
<1>4. (\/ TestFull(t) \/ ReadCount(t) \/ StoreCount(t) \/ StoreEntry(t)
       \/ FinishAllocate(t) \/ EndThread(t))
      => UpInv' /\ NullInv' /\ NullFault' /\ StopsLate'
  <2>1. CASE TestFull(t)
    BY <2>1 DEF TestFull
  <2>2. CASE ReadCount(t)
    BY <2>2 DEF ReadCount
  <2>3. CASE StoreCount(t) \/ StoreEntry(t)
    BY <2>3 DEF StoreCount, StoreEntry
  <2>4. CASE FinishAllocate(t)
    BY <2>4 DEF FinishAllocate
  <2>5. CASE EndThread(t)
    BY <2>5 DEF EndThread
  <2>6. QED
    BY <2>1, <2>2, <2>3, <2>4, <2>5
<1>5. QED
  BY <1>1, <1>2, <1>3, <1>4 DEF ThreadStep

(* The steps of the main thread alone. *)
LEMMA BasicInvMain ==
    ASSUME BasicInv,
           ExtSetLogFunction \/ SymInitialize \/ SymExit \/ ExitEntry
           \/ PauseThread \/ CloseThread \/ ClearEntry
           \/ EndExit \/ FiniCall \/ EndFini
    PROVE  BasicInv'
<1>1. TypeOK'
  BY TypeOKMain DEF BasicInv
<1> USE MainIsAThread DEF BasicInv, TypeOK, history, stopVars, listVars, logVars,
    threadVars, At, Goto, Running, Fault, Stubs, UpInv, NullInv, Adding, Busy,
    NullFault, StopsLate, Exiting
<1>2. CASE ExtSetLogFunction
  BY <1>1, <1>2 DEF ExtSetLogFunction
<1>3. CASE SymInitialize
  BY <1>1, <1>3 DEF SymInitialize
<1>4. CASE SymExit
  BY <1>1, <1>4 DEF SymExit
<1>5. CASE ExitEntry
  BY <1>1, <1>5 DEF ExitEntry
<1>9. CASE PauseThread \/ CloseThread \/ ClearEntry
  BY <1>1, <1>9 DEF PauseThread, CloseThread, ClearEntry
<1>6. CASE EndExit \/ EndFini
  BY <1>1, <1>6 DEF EndExit, EndFini
<1>7. CASE FiniCall
  BY <1>1, <1>7 DEF FiniCall
<1>10. QED
  BY <1>2, <1>3, <1>4, <1>5, <1>6, <1>7, <1>9
-----------------------------------------------------------------------------
(***************************************************************************)
(* While no two insertions have overlapped.  An insertion in progress has  *)
(* the place right above the list or, once it has stored the count, the    *)
(* last; the worker it adds is nowhere else and cannot run yet.            *)
(***************************************************************************)
InsertInv ==
    /\ \A t, u \in Inserting : t = u
    /\ \A t \in Threads : Adding(t) =>
        \/ t = Main /\ target[t] = Main
        \/ target[t] \in Workers /\ pc[target[t]] = "creating"
    /\ \A t, u \in Threads :
        Adding(t) /\ Adding(u) /\ target[t] = target[u] => t = u
    /\ count <= MaxThreads
    /\ \A t \in Inserting : pc[t] = "read" => count < MaxThreads
    /\ \A t \in Inserting : pc[t] = "store" =>
        /\ idx[t] < MaxThreads
        /\ "count" \in stores[t] => count = idx[t]
        /\ "count" \notin stores[t] => count = idx[t] + 1
        /\ "entry" \notin stores[t] => list[idx[t]] = target[t]

(***************************************************************************)
(* A worker has one place at most, above the count or below it; one that   *)
(* runs, or may be started, has a place below the count that symExit has   *)
(* not yet walked past and nobody is about to write to.                    *)
(***************************************************************************)
Places == 0 .. MaxThreads - 1
Registered(w) ==
    /\ w \notin paused /\ pc[w] \notin {"none", "creating", "ended"}
    /\ pc[w] = "created" => w \notin closed
OnePlace ==
    \A i, j \in Places, w \in Workers : list[i] = w /\ list[j] = w => i = j
CreatedFirst ==
    \A i \in Places, w \in Workers : list[i] = w =>
        /\ pc[w] # "none"
        /\ pc[w] = "creating" =>
            \A t \in Threads : Adding(t) /\ target[t] = w =>
                pc[t] = "store" /\ "entry" \notin stores[t] /\ idx[t] = i
HasPlace ==
    \A w \in Workers : Registered(w) =>
        \E i \in 0 .. count - 1 :
            /\ list[i] = w
            /\ pc[Main] \in Exiting => i >= idx[Main]
            /\ \A t \in Inserting : pc[t] = "store" => i # idx[t]
PlaceInv == OnePlace /\ CreatedFirst /\ HasPlace

(* After symExit the list is empty, and its walk begins with the first.    *)
ExitInv ==
    /\ pc[Main] \in Exiting => list[0] \notin Workers
    /\ pc[Main] \in {"fini", "down"} => count = 0
    /\ op[Main] = "fini" => count = 0 /\ pc[Main] \in Busy
    /\ pc[Main] = "ready" => idx[Main] = 0
    /\ \A w \in Workers :
        pc[w] \notin Exiting \cup {"down", "fini"} /\ op[w] # "fini"

(***************************************************************************)
(* Before the first symExit there is no hole in the list but where an      *)
(* insertion is under way, Main has the first place, and a walk has not    *)
(* gone past the place of the thread that walks.                           *)
(***************************************************************************)
MainAdded == pc[Main] # "down" /\ ~(Adding(Main) /\ target[Main] = Main)
NoHoles ==
    \A i \in 0 .. count - 1 :
        \/ list[i] \in Threads
        \/ \E t \in Threads :
             pc[t] = "store" /\ idx[t] = i /\ "entry" \in stores[t]
MainFirst ==
    /\ MainAdded => /\ count > 0 /\ list[0] = Main
                    /\ \A t \in Threads : pc[t] = "store" => idx[t] > 0
                    /\ pc[Main] = "find" => idx[Main] = 0
    /\ ~MainAdded /\ pc[Main] = "store" => idx[Main] = 0
    /\ ~MainAdded /\ pc[Main] # "store" => count = 0
WalkInv ==
    \A t \in Workers, j \in 0 .. count - 1 :
        pc[t] = "find" /\ list[j] = t => idx[t] <= j
FirstInv ==
    /\ paused = {} /\ mainEntry # "freed" /\ pc[Main] \notin Exiting \cup {"fini"}
    /\ \A t \in Threads : op[t] \notin {"not_found", "fini"}
    /\ NoHoles /\ MainFirst /\ WalkInv

(***************************************************************************)
(* What symExit does to an entry.  A thread whose handle it closes does    *)
(* not run, or it was paused, and nobody can start it from then on, so the *)
(* entry that is cleared is not the place of a thread that runs.           *)
(***************************************************************************)
StopInv ==
    /\ \A w \in closed : ~Runs(w)
    /\ pc[Main] \in Exiting \ {"exit"} => idx[Main] < count
    /\ pc[Main] \in {"pause", "close"} => list[idx[Main]] = target[Main]
    /\ pc[Main] = "close" => ~Runs(target[Main])
    /\ pc[Main] = "clear" =>
        (list[idx[Main]] \in Workers => list[idx[Main]] \in closed)

Good == ~overlapped /\ ~slipped /\ fault = "none"
ListInv == InsertInv /\ PlaceInv /\ ExitInv /\ (exits = 0 => FirstInv)
SymInv == BasicInv /\ (Good => ListInv /\ StopInv) /\ LookupFaultNeedsRace
-----------------------------------------------------------------------------
(* The list, to begin with. *)
LEMMA ListInvInit == Init => ListInv
<1> SUFFICES ASSUME Init PROVE ListInv
  OBVIOUS
<1> USE SizesAssumption, MainIsAThread DEF Init
<1>1. /\ \A t \in Threads : ~Adding(t)
      /\ \A w \in Workers : ~Registered(w)
      /\ Inserting = {}
      /\ \A i \in Places : list[i] = NULL
  BY DEF Adding, Registered, Inserting, Places, Threads
<1>2. InsertInv
  BY <1>1 DEF InsertInv
<1>3. PlaceInv
  <2>1. NULL \notin Workers
    BY ThreadsAssumption
  <2>2. QED
    BY <1>1, <2>1 DEF PlaceInv, OnePlace, CreatedFirst, HasPlace
<1>4. ExitInv
  <2>1. NULL \notin Workers /\ 0 \in Places
    BY ThreadsAssumption DEF Places
  <2>2. QED
    BY <1>1, <2>1 DEF ExitInv, Threads, Exiting
<1>5. FirstInv
  BY DEF FirstInv, NoHoles, MainFirst, MainAdded, WalkInv, Exiting
<1>6. QED
  BY <1>2, <1>3, <1>4, <1>5 DEF ListInv

(* The steps that write to none of what the insertions use.                *)
LEMMA Calm ==
    ASSUME TypeOK, TypeOK', InsertInv, PlaceInv,
           UNCHANGED <<list, count, target, stores, paused, closed>>,
           \A t \in Threads : Adding(t)' <=> Adding(t),
           \A t \in Threads : Adding(t) => pc'[t] = pc[t] /\ idx'[t] = idx[t],
           \A w \in Workers : pc'[w] = "none" <=> pc[w] = "none",
           \A w \in Workers : pc'[w] = "creating" <=> pc[w] = "creating",
           pc'[Main] \in Exiting =>
               idx'[Main] <= IF pc[Main] \in Exiting THEN idx[Main] ELSE 0,
           \A w \in Workers : Registered(w)' => Registered(w)
    PROVE  InsertInv' /\ PlaceInv'
<1> USE MainIsAThread
<1>1. Inserting' = Inserting
  BY DEF Inserting, Adding
<1>2. \A t \in Threads : (pc'[t] = "store" <=> pc[t] = "store")
                         /\ (pc'[t] = "read" <=> pc[t] = "read")
  BY DEF Adding
<1>3. Inserting \subseteq {t \in Threads : Adding(t)}
  BY DEF Inserting, Adding
<1>4. InsertInv'
  BY <1>1, <1>2, <1>3 DEF InsertInv, Threads
<1>6. OnePlace'
  BY DEF PlaceInv, OnePlace
<1>7. CreatedFirst'
  BY <1>2 DEF PlaceInv, CreatedFirst
<1>8. HasPlace'
  <2> SUFFICES ASSUME NEW w \in Workers, Registered(w)
               PROVE  \E i \in 0 .. count - 1 :
                        /\ list[i] = w
                        /\ pc'[Main] \in Exiting => i >= idx'[Main]
                        /\ \A t \in Inserting : pc'[t] = "store" => i # idx'[t]
    BY <1>1 DEF HasPlace
  <2>1. PICK i \in 0 .. count - 1 :
            /\ list[i] = w
            /\ pc[Main] \in Exiting => i >= idx[Main]
            /\ \A t \in Inserting : pc[t] = "store" => i # idx[t]
    BY DEF PlaceInv, HasPlace
  <2>2. count \in Nat /\ idx[Main] \in Nat /\ idx'[Main] \in Nat
    BY DEF TypeOK
  <2>3. pc'[Main] \in Exiting => i >= idx'[Main]
    BY <2>1, <2>2
  <2>4. \A t \in Inserting : pc'[t] = "store" => i # idx'[t]
    BY <1>2, <1>3, <2>1
  <2>5. QED
    BY <2>1, <2>3, <2>4
<1>9. QED
  BY <1>4, <1>6, <1>7, <1>8 DEF PlaceInv

(* A step of one thread outside of an insertion, in its own variables.     *)
Calms == Busy \cup {"ready", "ended"}
LEMMA OwnStep ==
    ASSUME TypeOK, TypeOK', ListInv, NEW t \in Threads,
           UNCHANGED <<list, count, target, stores, paused, closed, mainEntry, exits>>,
           pc[t] \in Busy \cup {"ready", "fini"},
           NEW p \in Calms \cup {"fini", "down"},
           pc' = [pc EXCEPT ![t] = p],
           p \in {"fini", "down"} => t = Main /\ count = 0 /\ exits # 0,
           p = "ready" => idx'[t] = 0,
           p = "find" /\ exits = 0 =>
               /\ t = Main => idx'[t] = 0
               /\ \A j \in 0 .. count - 1 : list[j] = t => idx'[t] <= j,
           op'[t] = "fini" => t = Main /\ count = 0 /\ p \in Busy,
           exits = 0 => op'[t] \notin {"not_found", "fini"},
           \A u \in Threads \ {t} : idx'[u] = idx[u] /\ op'[u] = op[u]
    PROVE  ListInv'
<1> USE MainIsAThread DEF ListInv, Calms
<1>1. pc'[t] = p /\ \A u \in Threads \ {t} : pc'[u] = pc[u]
  BY DEF TypeOK
<1>2. /\ \A u \in Threads : Adding(u)' <=> Adding(u)
      /\ \A u \in Threads : Adding(u) => pc'[u] = pc[u] /\ idx'[u] = idx[u]
      /\ \A u \in Threads : pc'[u] = "store" <=> pc[u] = "store"
      /\ ~Adding(t) /\ ~Adding(t)'
  BY <1>1 DEF Adding, Busy
<1>3. /\ \A w \in Workers : pc'[w] = "none" <=> pc[w] = "none"
      /\ \A w \in Workers : pc'[w] = "creating" <=> pc[w] = "creating"
  BY <1>1 DEF Busy, Threads
<1>4. pc'[Main] \in Exiting => pc[Main] = pc'[Main] /\ idx'[Main] = idx[Main]
  BY <1>1 DEF Busy, Exiting
<1>5. idx[Main] \in Nat
  BY DEF TypeOK
<1>10. \A w \in Workers : Registered(w)' => Registered(w)
  BY <1>1 DEF Registered, Busy, Threads
<1>6. InsertInv' /\ PlaceInv'
  BY <1>2, <1>3, <1>4, <1>5, <1>10, Calm
<1>7. ExitInv'
  BY <1>1, <1>4 DEF ExitInv, Threads, Busy, Exiting
<1>8. exits = 0 => FirstInv'
  <2> SUFFICES ASSUME exits = 0 PROVE FirstInv'
    OBVIOUS
  <2> USE DEF FirstInv
  <2>1. /\ paused' = {} /\ mainEntry' # "freed"
        /\ pc'[Main] \notin Exiting \cup {"fini"}
        /\ \A u \in Threads : op'[u] \notin {"not_found", "fini"}
    BY <1>1, <1>4
  <2>2. NoHoles'
    BY <1>2 DEF NoHoles, Adding
  <2>3. (MainAdded' <=> MainAdded) /\ (t = Main => MainAdded)
    BY <1>1, <1>2 DEF MainAdded, Busy
  <2>4. MainFirst'
    BY <1>1, <1>2, <2>3 DEF MainFirst, Adding
  <2>5. WalkInv'
    <3> SUFFICES ASSUME NEW u \in Workers, NEW j \in 0 .. count - 1,
                        pc'[u] = "find", list[j] = u
                 PROVE  idx'[u] <= j
      BY DEF WalkInv
    <3>1. CASE u = t
      BY <1>1, <3>1
    <3>2. CASE u # t
      BY <1>1, <3>2 DEF WalkInv, Threads
    <3>3. QED
      BY <3>1, <3>2
  <2>6. QED
    BY <2>1, <2>2, <2>4, <2>5
<1>9. QED
  BY <1>6, <1>7, <1>8

(* Where a worker is that runs. *)
LEMMA PlaceOfRunner ==
    ASSUME TypeOK, ListInv, NEW t \in Workers, t \notin paused,
           pc[t] \notin {"none", "creating", "created", "ended"}
    PROVE  \E i \in 0 .. count - 1 :
              /\ i \in Places /\ list[i] = t
              /\ pc[Main] \in Exiting => i >= idx[Main]
              /\ \A u \in Inserting : pc[u] = "store" => i # idx[u]
<1>1. PICK i \in 0 .. count - 1 :
          /\ list[i] = t
          /\ pc[Main] \in Exiting => i >= idx[Main]
          /\ \A u \in Inserting : pc[u] = "store" => i # idx[u]
  BY DEF ListInv, PlaceInv, HasPlace, Registered
<1>2. i \in Places
  BY SizesAssumption DEF ListInv, InsertInv, TypeOK, Places
<1>3. QED
  BY <1>1, <1>2

(* The calls that leave the list alone, and their log lines. *)
LEMMA ListInvLog ==
    ASSUME TypeOK, TypeOK', ListInv, NEW t \in Threads,
           \/ Call(t) \/ EndThread(t) \/ Return(t) \/ CreateFails(t)
           \/ LockLog(t) \/ SkipLog(t) \/ FormatLog(t) \/ CallLogFn(t),
           fault' = "none"
    PROVE  ListInv'
<1> USE MainIsAThread
    DEF ListInv, At, Goto, listVars, stopVars, history, logVars, threadVars, Calms, Busy
<1>1. CASE Call(t)
  <2>1. /\ pc[t] = "ready" /\ pc' = [pc EXCEPT ![t] = "find"]
        /\ UNCHANGED <<list, count, target, stores, paused, closed, mainEntry, exits>>
    BY <1>1 DEF Call
  <2>2. /\ idx'[t] = 0 /\ op'[t] \notin {"fini", "not_found"}
        /\ \A u \in Threads \ {t} : idx'[u] = idx[u] /\ op'[u] = op[u]
    BY <1>1, WrappersAssumption DEF Call, TypeOK
  <2>3. \A j \in 0 .. count - 1 : idx'[t] <= j
    BY <2>2 DEF TypeOK
  <2>4. QED
    BY <2>1, <2>2, <2>3, OwnStep
<1>2. CASE EndThread(t)
  <2>1. /\ pc[t] = "ready" /\ pc' = [pc EXCEPT ![t] = "ended"]
        /\ UNCHANGED <<list, count, target, stores, paused, closed, mainEntry, exits,
                       idx, op>>
        /\ t \in Workers
    BY <1>2 DEF EndThread, Threads
  <2>2. op[t] # "fini" /\ (exits = 0 => op[t] # "not_found")
    BY <2>1 DEF ExitInv, FirstInv
  <2>3. QED
    BY <2>1, <2>2, OwnStep
<1>3. CASE Return(t)
  <2>1. \E p \in {"ready", "fini"} :
           /\ pc[t] = "act" /\ pc' = [pc EXCEPT ![t] = p]
           /\ p = "fini" => op[t] = "fini"
           /\ UNCHANGED <<list, count, target, stores, paused, closed, mainEntry, exits>>
    BY <1>3 DEF Return
  <2>2. /\ idx'[t] = 0 /\ op'[t] = "none"
        /\ \A u \in Threads \ {t} : idx'[u] = idx[u] /\ op'[u] = op[u]
    BY <1>3 DEF Return, TypeOK
  <2>3. op[t] = "fini" => t = Main /\ count = 0 /\ exits # 0
    BY DEF ExitInv, FirstInv, Threads
  <2>4. QED
    BY <2>1, <2>2, <2>3, OwnStep
<1>4. CASE CreateFails(t)
  <2>1. /\ pc[t] = "act" /\ pc' = [pc EXCEPT ![t] = "ready"]
        /\ UNCHANGED <<list, count, target, stores, paused, closed, mainEntry, exits>>
    BY <1>4 DEF CreateFails
  <2>2. /\ idx'[t] = 0 /\ op'[t] = "none"
        /\ \A u \in Threads \ {t} : idx'[u] = idx[u] /\ op'[u] = op[u]
    BY <1>4 DEF CreateFails, TypeOK
  <2>3. QED
    BY <2>1, <2>2, OwnStep
<1>5. CASE LockLog(t) \/ SkipLog(t) \/ FormatLog(t) \/ CallLogFn(t)
  <2>1. \E p \in {"check", "act", "call"} :
           /\ pc[t] \in {"lock", "check", "call"} /\ pc' = [pc EXCEPT ![t] = p]
           /\ UNCHANGED <<list, count, target, stores, paused, closed, mainEntry, exits,
                          idx, op>>
    BY <1>5 DEF LockLog, SkipLog, FormatLog, CallLogFn, Fault
  <2>2. op[t] = "fini" => t = Main /\ count = 0
    BY DEF ExitInv, Threads, Exiting
  <2>3. exits = 0 => op[t] \notin {"not_found", "fini"}
    BY DEF FirstInv
  <2>4. QED
    BY <2>1, <2>2, <2>3, OwnStep
<1>6. QED
  BY <1>1, <1>2, <1>3, <1>4, <1>5

(* The walk: before the first symExit it meets threads up to the place of  *)
(* the thread that walks, and so never fails.                              *)
LEMMA WalkStaysInList ==
    ASSUME TypeOK, ListInv, NEW t \in Threads, t \notin paused,
           pc[t] = "find", exits = 0
    PROVE  \E j \in 0 .. count - 1 :
              /\ list[j] = t /\ idx[t] <= j
              /\ \A i \in 0 .. j : i \in Places /\ list[i] \in Threads
<1> USE MainIsAThread DEF ListInv
<1>1. /\ count \in Nat /\ count <= MaxThreads
      /\ idx[t] \in Nat /\ MaxThreads \in Nat
  BY SizesAssumption DEF TypeOK, InsertInv
<1>2. FirstInv
  BY DEF ListInv
<1>3. CASE t = Main
  <2>1. MainAdded
    BY <1>3 DEF MainAdded, Adding
  <2>2. count > 0 /\ list[0] = Main /\ idx[Main] = 0
    BY <1>2, <1>3, <2>1 DEF FirstInv, MainFirst
  <2>3. 0 \in 0 .. count - 1 /\ 0 .. 0 = {0} /\ 0 \in Places
    BY <1>1, <2>2 DEF Places
  <2>4. QED
    BY <1>3, <2>2, <2>3
<1>4. CASE t \in Workers
  <2>1. PICK j \in 0 .. count - 1 :
            /\ list[j] = t
            /\ \A u \in Inserting : pc[u] = "store" => j # idx[u]
    BY <1>4, PlaceOfRunner
  <2>2. idx[t] <= j
    BY <1>2, <1>4, <2>1 DEF FirstInv, WalkInv
  <2>3. ASSUME NEW i \in 0 .. j
        PROVE  i \in Places /\ list[i] \in Threads
    <3>1. i \in 0 .. count - 1 /\ i \in Places
      BY <1>1 DEF Places
    <3>2. CASE list[i] \notin Threads
      <4>1. PICK u \in Threads : pc[u] = "store" /\ idx[u] = i
        BY <1>2, <3>1, <3>2 DEF FirstInv, NoHoles
      <4>2. u \in Inserting
        BY <1>2, <4>1 DEF FirstInv, Inserting
      <4>3. count = idx[u] \/ count = idx[u] + 1
        BY <4>1, <4>2 DEF InsertInv
      <4>4. idx[u] # j
        BY <2>1, <4>1, <4>2
      <4>5. QED
        BY <1>1, <3>1, <4>1, <4>3, <4>4
    <3>3. QED
      BY <3>1, <3>2
  <2>4. QED
    BY <2>1, <2>2, <2>3
<1>5. QED
  BY <1>3, <1>4 DEF Threads

(* A step of the walk: it meets another thread, its own, or the end. *)
LEMMA ListInvFind ==
    ASSUME TypeOK, TypeOK', ListInv, NEW t \in Threads,
           FindEntry(t) \/ FindFails(t), fault' = "none"
    PROVE  ListInv'
<1> USE MainIsAThread
    DEF At, Running, Goto, listVars, stopVars, history, logVars, threadVars, Calms, Busy
<1>1. /\ pc[t] = "find" /\ t \notin paused /\ idx[t] \in Nat
      /\ UNCHANGED <<list, count, target, stores, paused, closed, mainEntry, exits>>
  BY DEF FindEntry, FindFails, Fault, TypeOK
<1>2. op[t] = "fini" => t = Main /\ count = 0
  BY DEF ListInv, ExitInv, Threads
<1>3. exits = 0 => op[t] \notin {"not_found", "fini"}
  BY DEF ListInv, FirstInv
<1>4. CASE FindFails(t)
  <2>1. exits # 0
    <3> SUFFICES ASSUME exits = 0 PROVE FALSE
      OBVIOUS
    <3>1. PICK j \in 0 .. count - 1 : idx[t] <= j
      BY <1>1, WalkStaysInList
    <3>2. idx[t] >= count /\ count \in Nat
      BY <1>4 DEF FindFails, TypeOK
    <3>3. QED
      BY <1>1, <3>1, <3>2
  <2>2. /\ pc' = [pc EXCEPT ![t] = "lock"] /\ op'[t] = "not_found"
        /\ \A u \in Threads \ {t} : idx'[u] = idx[u] /\ op'[u] = op[u]
    BY <1>4 DEF FindFails, TypeOK
  <2>3. QED
    BY <1>1, <2>1, <2>2, OwnStep
<1>5. CASE pc' = [pc EXCEPT ![t] = "lock"] /\ UNCHANGED <<op, idx>>
  BY <1>1, <1>2, <1>3, <1>5, OwnStep
<1>6. CASE /\ list[idx[t]] # t
           /\ idx' = [idx EXCEPT ![t] = @ + 1] /\ UNCHANGED <<pc, op>>
  <2>1. pc' = [pc EXCEPT ![t] = "find"]
    BY <1>1, <1>6 DEF TypeOK
  <2>2. idx'[t] = idx[t] + 1 /\ \A u \in Threads \ {t} : idx'[u] = idx[u]
    BY <1>6 DEF TypeOK
  <2>3. ASSUME exits = 0
        PROVE  /\ t # Main
               /\ \A j \in 0 .. count - 1 : list[j] = t => idx'[t] <= j
    <3>1. t # Main
      BY <1>1, <1>6, <2>3
         DEF ListInv, FirstInv, MainFirst, MainAdded, Adding
    <3>2. ASSUME NEW j \in 0 .. count - 1, list[j] = t PROVE idx'[t] <= j
      <4>1. idx[t] <= j
        BY <1>1, <2>3, <3>1, <3>2 DEF ListInv, FirstInv, WalkInv, Threads
      <4>2. QED
        BY <1>1, <1>6, <2>2, <3>2, <4>1
    <3>3. QED
      BY <3>1, <3>2
  <2>4. QED
    <3>1. /\ pc[t] \in Busy \cup {"ready", "fini"}
          /\ "find" \in Calms \cup {"fini", "down"}
          /\ "find" \notin {"fini", "down", "ready"} /\ "find" \in Busy
      BY <1>1
    <3>2. /\ op'[t] = "fini" => t = Main /\ count = 0
          /\ exits = 0 => op'[t] \notin {"not_found", "fini"}
          /\ \A u \in Threads \ {t} : idx'[u] = idx[u] /\ op'[u] = op[u]
      BY <1>2, <1>3, <1>6, <2>2
    <3>3. exits = 0 =>
              /\ t = Main => idx'[t] = 0
              /\ \A j \in 0 .. count - 1 : list[j] = t => idx'[t] <= j
      BY <2>3
    <3> HIDE DEF Calms, Busy
    <3>4. QED
      BY <1>1, <2>1, <3>1, <3>2, <3>3, OwnStep
<1>7. CASE FindEntry(t)
  <2>1. idx[t] < MaxThreads
    <3>1. idx[t] < count
      BY <1>7 DEF FindEntry
    <3>2. count <= MaxThreads /\ count \in Nat /\ MaxThreads \in Nat
      BY SizesAssumption DEF ListInv, InsertInv, TypeOK
    <3>3. QED
      BY <1>1, <3>1, <3>2
  <2>2. Entry(idx[t]) = list[idx[t]]
    BY <2>1 DEF Entry
  <2>3. QED
    BY <1>5, <1>6, <1>7, <2>2 DEF FindEntry, Fault
<1>8. QED
  BY <1>4, <1>7

(* So a bad entry is met only after the first symExit. *)
LEMMA FindFaults ==
    ASSUME TypeOK, ListInv, NEW t \in Threads, FindEntry(t), fault' # "none"
    PROVE  exits > 0
<1> USE MainIsAThread DEF At, Running, Goto, listVars, stopVars, history
<1>1. /\ pc[t] = "find" /\ t \notin paused /\ idx[t] \in Nat /\ exits \in Nat
      /\ fault = "none"
  BY SizesAssumption DEF FindEntry, TypeOK
<1>2. SUFFICES ASSUME exits = 0 PROVE FALSE
  BY <1>1
<1>3. PICK j \in 0 .. count - 1 :
          /\ list[j] = t /\ idx[t] <= j
          /\ \A i \in 0 .. j : i \in Places /\ list[i] \in Threads
  BY <1>1, <1>2, WalkStaysInList
<1>4. idx[t] \in Places /\ list[idx[t]] \in Threads
  BY <1>1, <1>3
<1>5. idx[t] < MaxThreads /\ Entry(idx[t]) = list[idx[t]]
  BY <1>1, <1>4, SizesAssumption DEF Places, Entry
<1>6. mainEntry # "freed"
  BY <1>2 DEF ListInv, FirstInv
<1>7. list[idx[t]] # NULL
  BY <1>4, ThreadsAssumption DEF Threads
<1>8. ~(idx[t] >= MaxThreads)
  BY <1>1, <1>5, SizesAssumption
<1>9. fault' = fault
  BY <1>5, <1>6, <1>7, <1>8 DEF FindEntry
<1>10. QED
  BY <1>1, <1>9

(* nn::os::StartThread runs a thread that has its place already. *)
LEMMA ListInvStart ==
    ASSUME TypeOK, TypeOK', ListInv, NEW t \in Threads, StartThread(t)
    PROVE  ListInv'
<1> USE MainIsAThread DEF ListInv, At, Goto, listVars, stopVars, history, logVars
<1>1. /\ pc[t] = "act"
      /\ UNCHANGED <<list, count, target, stores, paused, closed, mainEntry, exits>>
      /\ idx'[t] = 0 /\ op'[t] = "log"
      /\ \A u \in Threads \ {t} : idx'[u] = idx[u] /\ op'[u] = op[u]
  BY DEF StartThread, TypeOK
<1>2. /\ pc'[t] = "find"
      /\ \A u \in Threads \ {t} :
            \/ pc'[u] = pc[u]
            \/ u \in Workers \ closed /\ pc[u] = "created" /\ pc'[u] = "ready"
  BY <1>1 DEF StartThread, TypeOK, Threads
<1>3. /\ \A u \in Threads : Adding(u)' <=> Adding(u)
      /\ \A u \in Threads : Adding(u) => pc'[u] = pc[u] /\ idx'[u] = idx[u]
      /\ \A u \in Threads : pc'[u] = "store" <=> pc[u] = "store"
  BY <1>1, <1>2 DEF Adding
<1>4. /\ \A w \in Workers : pc'[w] = "none" <=> pc[w] = "none"
      /\ \A w \in Workers : pc'[w] = "creating" <=> pc[w] = "creating"
  BY <1>1, <1>2 DEF Threads
<1>5. pc'[Main] \in Exiting => pc[Main] = pc'[Main] /\ idx'[Main] = idx[Main]
  BY <1>1, <1>2 DEF Exiting
<1>6. idx[Main] \in Nat
  BY DEF TypeOK
<1>11. \A w \in Workers : Registered(w)' => Registered(w)
  BY <1>1, <1>2 DEF Registered, Threads
<1>7. InsertInv' /\ PlaceInv'
  BY <1>1, <1>3, <1>4, <1>5, <1>6, <1>11, Calm
<1>8. ExitInv'
  BY <1>1, <1>2 DEF ExitInv, Threads, Busy, Exiting
<1>9. exits = 0 => FirstInv'
  <2> SUFFICES ASSUME exits = 0 PROVE FirstInv'
    OBVIOUS
  <2> USE <1>1, <1>2 DEF FirstInv
  <2>1. /\ paused' = {} /\ mainEntry' # "freed"
        /\ pc'[Main] \notin Exiting \cup {"fini"}
        /\ \A u \in Threads : op'[u] \notin {"not_found", "fini"}
    BY DEF Exiting
  <2>2. NoHoles'
    BY <1>3 DEF NoHoles, Adding
  <2>3. (MainAdded' <=> MainAdded) /\ (t = Main => MainAdded)
    BY <1>3 DEF MainAdded, Adding
  <2>4. MainFirst'
    BY <1>3, <2>3 DEF MainFirst, Adding
  <2>5. WalkInv'
    <3> SUFFICES ASSUME NEW u \in Workers, NEW j \in 0 .. count - 1,
                        pc'[u] = "find", list[j] = u
                 PROVE  idx'[u] <= j
      BY DEF WalkInv
    <3>1. CASE u = t
      BY <3>1
    <3>2. CASE u # t
      BY <3>2 DEF WalkInv, Threads
    <3>3. QED
      BY <3>1, <3>2
  <2>6. QED
    BY <2>1, <2>2, <2>4, <2>5
<1>10. QED
  BY <1>1, <1>7, <1>8, <1>9

(* The main thread outside of symInitialize and symExit. *)
LEMMA ListInvFini ==
    ASSUME TypeOK, TypeOK', ListInv, FiniCall \/ EndFini \/ ExtSetLogFunction
    PROVE  ListInv'
<1> USE MainIsAThread
    DEF At, Goto, listVars, stopVars, history, logVars, threadVars, Calms, Busy
<1>1. CASE FiniCall \/ EndFini
  <2>1. /\ pc[Main] = "fini"
        /\ UNCHANGED <<list, count, target, stores, paused, closed, mainEntry, exits>>
    BY <1>1 DEF FiniCall, EndFini
  <2>2. count = 0 /\ exits # 0 /\ op[Main] # "fini"
    BY <2>1 DEF ListInv, ExitInv, FirstInv
  <2>3. CASE FiniCall
    <3>1. /\ pc' = [pc EXCEPT ![Main] = "find"]
          /\ \A u \in Threads \ {Main} : idx'[u] = idx[u] /\ op'[u] = op[u]
      BY <2>3 DEF FiniCall, TypeOK
    <3>2. QED
      BY <2>1, <2>2, <3>1, OwnStep
  <2>4. CASE EndFini
    <3>1. pc' = [pc EXCEPT ![Main] = "down"] /\ UNCHANGED <<idx, op>>
      BY <2>4 DEF EndFini
    <3>2. QED
      BY <2>1, <2>2, <3>1, OwnStep
  <2>5. QED
    BY <1>1, <2>3, <2>4
<1>2. CASE ExtSetLogFunction
  <2> USE <1>2 DEF ExtSetLogFunction
  <2>1. UNCHANGED <<list, count, mainEntry, pc, op, idx, target, stores, paused, closed,
                    exits>>
    OBVIOUS
  <2>2. InsertInv' /\ PlaceInv'
    BY <2>1 DEF ListInv, InsertInv, PlaceInv, OnePlace, CreatedFirst, HasPlace,
                Registered, Inserting, Adding
  <2>3. ExitInv' /\ (FirstInv => FirstInv')
    BY <2>1 DEF ListInv, ExitInv, FirstInv, NoHoles, MainFirst, MainAdded,
                WalkInv, Adding
  <2>4. QED
    BY <2>1, <2>2, <2>3 DEF ListInv
<1>3. QED
  BY <1>1, <1>2

(***************************************************************************)
(* An insertion begins, of a worker or, by symInitialize, of Main.         *)
(***************************************************************************)
LEMMA ListInvCreate ==
    ASSUME TypeOK, TypeOK', ListInv, NEW t \in Threads, CreateThread(t),
           ~overlapped'
    PROVE  ListInv'
<1> USE MainIsAThread DEF ListInv
<1>1. PICK w \in Workers :
          /\ pc[w] = "none"
          /\ pc' = [pc EXCEPT ![t] = "full?", ![w] = "creating"]
          /\ target' = [target EXCEPT ![t] = w]
  BY DEF CreateThread, WhileInserted
<1>2. /\ pc[t] = "act" /\ op[t] = "create" /\ t \notin paused
      /\ Inserting = {}
      /\ UNCHANGED <<list, count, idx, op, stores, paused, closed, mainEntry, exits>>
  BY DEF CreateThread, At, Running, listVars, stopVars
<1>3. /\ t # w /\ pc'[t] = "full?" /\ pc'[w] = "creating" /\ target'[t] = w
      /\ \A u \in Threads \ {t, w} : pc'[u] = pc[u]
      /\ \A u \in Threads \ {t} : target'[u] = target[u]
  BY <1>1, <1>2 DEF TypeOK, Threads
<1>4. /\ ~Adding(t) /\ ~Adding(w) /\ Adding(t)' /\ ~Adding(w)'
      /\ \A u \in Threads \ {t} : Adding(u)' <=> Adding(u)
  BY <1>1, <1>2, <1>3 DEF Adding
<1>5. Inserting' = {t}
  BY <1>2, <1>3 DEF Inserting, Threads
<1>6. \A u \in Threads : Adding(u) => target[u] # w
  BY <1>1 DEF InsertInv
<1>7. \A i \in Places : list[i] # w
  BY <1>1 DEF PlaceInv, CreatedFirst
<1>8. InsertInv'
  <2>1. \A u \in Threads : Adding(u)' =>
          \/ u = Main /\ target'[u] = Main
          \/ target'[u] \in Workers /\ pc'[target'[u]] = "creating"
    <3> SUFFICES ASSUME NEW u \in Threads, Adding(u)'
                 PROVE  \/ u = Main /\ target'[u] = Main
                        \/ target'[u] \in Workers /\ pc'[target'[u]] = "creating"
      OBVIOUS
    <3>1. CASE u = t
      BY <1>3, <3>1
    <3>2. CASE u # t
      <4>1. Adding(u) /\ target'[u] = target[u]
        BY <1>3, <1>4, <3>2
      <4>2. CASE target[u] \in Workers /\ pc[target[u]] = "creating"
        <5>1. target[u] # t /\ target[u] # w
          BY <1>1, <1>2, <4>2
        <5>2. QED
          BY <1>3, <4>1, <4>2, <5>1 DEF Threads
      <4>3. QED
        BY <4>1, <4>2 DEF InsertInv
    <3>3. QED
      BY <3>1, <3>2
  <2>2. \A u, v \in Threads :
          Adding(u)' /\ Adding(v)' /\ target'[u] = target'[v] => u = v
    BY <1>3, <1>4, <1>6 DEF InsertInv
  <2>3. QED
    BY <1>2, <1>3, <1>5, <2>1, <2>2 DEF InsertInv
<1>9. PlaceInv'
  <2>1. OnePlace'
    BY <1>2 DEF PlaceInv, OnePlace
  <2>2. CreatedFirst'
    <3> SUFFICES ASSUME NEW i \in Places, NEW v \in Workers, list[i] = v
                 PROVE  /\ pc'[v] # "none"
                        /\ pc'[v] = "creating" =>
                            \A u \in Threads : Adding(u)' /\ target'[u] = v =>
                                /\ pc'[u] = "store" /\ "entry" \notin stores[u]
                                /\ idx[u] = i
      BY <1>2 DEF CreatedFirst
    <3>1. v # w
      BY <1>7
    <3>2. pc[v] # "none" /\ pc'[v] # "none"
      BY <1>3, <3>1 DEF PlaceInv, CreatedFirst, Threads
    <3>3. ASSUME pc'[v] = "creating", NEW u \in Threads, Adding(u)',
                 target'[u] = v
          PROVE  pc'[u] = "store" /\ "entry" \notin stores[u] /\ idx[u] = i
      <4>1. u # t /\ u # w
        BY <1>3, <1>4, <3>1, <3>3
      <4>2. Adding(u) /\ target[u] = v /\ pc'[u] = pc[u]
        BY <1>3, <1>4, <3>3, <4>1
      <4>3. pc[v] = "creating"
        BY <1>3, <3>1, <3>3 DEF Threads
      <4>4. QED
        BY <4>2, <4>3 DEF PlaceInv, CreatedFirst
    <3>4. QED
      BY <3>2, <3>3
  <2>3. HasPlace'
    BY <1>2, <1>3, <1>5 DEF PlaceInv, HasPlace, Registered, Threads, Exiting
  <2>4. QED
    BY <2>1, <2>2, <2>3 DEF PlaceInv
<1>10. ExitInv'
  BY <1>2, <1>3 DEF ExitInv, Threads, Busy, Exiting
<1>11. exits = 0 => FirstInv'
  <2> SUFFICES ASSUME exits = 0 PROVE FirstInv'
    OBVIOUS
  <2> USE <1>2, <1>3 DEF FirstInv
  <2>1. /\ paused' = {} /\ mainEntry' # "freed"
        /\ pc'[Main] \notin Exiting \cup {"fini"}
        /\ \A u \in Threads : op'[u] \notin {"not_found", "fini"}
    BY DEF Exiting
  <2>2. \A u \in Threads : pc'[u] = "store" <=> pc[u] = "store"
    BY <1>1
  <2>3. NoHoles'
    BY <2>2 DEF NoHoles
  <2>4. MainAdded' <=> MainAdded
    BY <1>4 DEF MainAdded, Adding
  <2>5. MainFirst'
    BY <2>2, <2>4 DEF MainFirst
  <2>6. WalkInv'
    BY DEF WalkInv, Threads
  <2>7. QED
    BY <2>1, <2>3, <2>5, <2>6
<1>12. QED
  BY <1>2, <1>8, <1>9, <1>10, <1>11

(* symInitialize inserts the main thread into an empty list. *)
LEMMA ListInvInitialize ==
    ASSUME TypeOK, TypeOK', ListInv, SymInitialize, ~overlapped'
    PROVE  ListInv'
<1> USE MainIsAThread DEF ListInv
<1>1. /\ pc[Main] = "down" /\ Inserting = {} /\ mainEntry' = "live"
      /\ pc' = [pc EXCEPT ![Main] = "full?"]
      /\ target' = [target EXCEPT ![Main] = Main]
      /\ UNCHANGED <<list, count, idx, op, stores, paused, closed, exits>>
  BY DEF SymInitialize, At, Goto, stopVars
<1>2. /\ pc'[Main] = "full?" /\ target'[Main] = Main
      /\ \A u \in Threads \ {Main} : pc'[u] = pc[u] /\ target'[u] = target[u]
      /\ \A u \in Workers : pc'[u] = pc[u] /\ u # Main
  BY <1>1 DEF TypeOK, Threads
<1>3. /\ \A u \in Threads \ {Main} : Adding(u)' <=> Adding(u)
      /\ ~Adding(Main) /\ Inserting' = {Main}
  BY <1>1, <1>2 DEF Adding, Inserting, TypeOK
<1>4. count = 0 /\ op[Main] # "fini"
  BY <1>1 DEF ExitInv, Busy, Exiting
<1>5. InsertInv'
  BY <1>1, <1>2, <1>3 DEF InsertInv
<1>6. PlaceInv'
  <2>1. OnePlace'
    BY <1>1 DEF PlaceInv, OnePlace
  <2>2. CreatedFirst'
    BY <1>1, <1>2, <1>3 DEF PlaceInv, CreatedFirst
  <2>3. HasPlace'
    BY <1>1, <1>2, <1>3 DEF PlaceInv, HasPlace, Registered, Exiting
  <2>4. QED
    BY <2>1, <2>2, <2>3 DEF PlaceInv
<1>7. ExitInv'
  BY <1>1, <1>2, <1>4 DEF ExitInv, Busy, Exiting
<1>8. exits = 0 => FirstInv'
  <2> SUFFICES ASSUME exits = 0 PROVE FirstInv'
    OBVIOUS
  <2> USE <1>1, <1>2, <1>4 DEF FirstInv
  <2>1. /\ paused' = {} /\ mainEntry' # "freed"
        /\ pc'[Main] \notin Exiting \cup {"fini"}
        /\ \A u \in Threads : op'[u] \notin {"not_found", "fini"}
    BY DEF Exiting
  <2>2. NoHoles' /\ WalkInv'
    BY DEF NoHoles, WalkInv
  <2>3. ~MainAdded'
    BY DEF MainAdded, Adding
  <2>4. MainFirst'
    BY <2>3 DEF MainFirst
  <2>5. QED
    BY <2>1, <2>2, <2>4
<1>9. QED
  BY <1>1, <1>5, <1>6, <1>7, <1>8

(* The test, and the load of the count.                                    *)
LEMMA ListInvTest ==
    ASSUME TypeOK, TypeOK', ListInv, NEW t \in Threads, TestFull(t)
    PROVE  ListInv'
<1> USE MainIsAThread DEF ListInv
<1>1. /\ pc[t] = "full?" /\ t \notin paused /\ t \in Inserting /\ Adding(t)
      /\ UNCHANGED <<list, count, idx, target, stores, paused, closed, mainEntry, exits>>
      /\ \A u \in Threads \ {t} : pc'[u] = pc[u] /\ op'[u] = op[u]
      /\ \/ pc'[t] = "lock" /\ op'[t] = "full" /\ IsFull
         \/ pc'[t] = "read" /\ op'[t] = op[t] /\ ~IsFull
  BY DEF TestFull, At, Running, Goto, listVars, stopVars, history, Inserting, Adding,
         TypeOK
<1>2. /\ \A u \in Threads \ {t} : Adding(u)' <=> Adding(u)
      /\ \A u \in Threads : Adding(u)' => Adding(u)
      /\ Inserting' \subseteq Inserting
      /\ \A u \in Threads : pc'[u] = "store" <=> pc[u] = "store"
  BY <1>1 DEF Adding, Inserting
<1>3. /\ \A w \in Workers : pc'[w] = "none" <=> pc[w] = "none"
      /\ \A w \in Workers : pc'[w] = "creating" <=> pc[w] = "creating"
      /\ pc'[Main] \in Exiting <=> pc[Main] \in Exiting
  BY <1>1 DEF Threads, Exiting
<1>4. count \in Nat /\ MaxThreads \in Nat \ {0}
  BY SizesAssumption DEF TypeOK
<1>5. pc'[t] = "read" => count < MaxThreads
  BY <1>1, <1>4 DEF IsFull
<1>6. InsertInv'
  <2>1. \A u \in Inserting' : pc'[u] = "read" => count < MaxThreads
    BY <1>1, <1>2, <1>5 DEF InsertInv, Inserting
  <2>2. QED
    BY <1>1, <1>2, <1>3, <2>1 DEF InsertInv, Inserting
<1>7. PlaceInv'
  <2>1. OnePlace'
    BY <1>1 DEF PlaceInv, OnePlace
  <2>2. CreatedFirst'
    BY <1>1, <1>2, <1>3 DEF PlaceInv, CreatedFirst
  <2>3. HasPlace'
    <3>1. \A w \in Workers : Registered(w)' <=> Registered(w)
      BY <1>1, <1>3 DEF Registered, Threads
    <3>2. \A u \in Inserting' : u \in Inserting /\ u \in Threads
      BY <1>2 DEF Inserting
    <3>3. QED
      BY <1>1, <1>2, <1>3, <3>1, <3>2 DEF PlaceInv, HasPlace
  <2>4. QED
    BY <2>1, <2>2, <2>3 DEF PlaceInv
<1>8. ExitInv'
  BY <1>1 DEF ExitInv, Busy, Threads, Exiting
<1>9. exits = 0 => FirstInv'
  <2> SUFFICES ASSUME exits = 0 PROVE FirstInv'
    OBVIOUS
  <2> USE <1>1 DEF FirstInv
  <2>1. /\ paused' = {} /\ mainEntry' # "freed"
        /\ pc'[Main] \notin Exiting \cup {"fini"}
        /\ \A u \in Threads : op'[u] \notin {"not_found", "fini"}
    BY DEF Exiting
  <2>2. NoHoles'
    BY <1>2 DEF NoHoles
  <2>3. WalkInv'
    BY DEF WalkInv, Threads
  <2>4. MainAdded' <=> MainAdded
    <3>1. CASE t = Main /\ target[Main] = Main
      <4>1. count = 0
        BY <3>1 DEF MainFirst, MainAdded
      <4>2. pc'[t] = "read"
        BY <1>4, <4>1 DEF IsFull
      <4>3. QED
        BY <3>1, <4>2 DEF MainAdded, Adding
    <3>2. CASE ~(t = Main /\ target[Main] = Main)
      BY <1>2, <3>2 DEF MainAdded, Adding
    <3>3. QED
      BY <3>1, <3>2
  <2>5. MainFirst'
    BY <1>2, <2>4 DEF MainFirst
  <2>6. QED
    BY <2>1, <2>2, <2>3, <2>5
<1>10. QED
  BY <1>1, <1>6, <1>7, <1>8, <1>9

(* The load of the count takes the place above the list. *)
LEMMA ListInvRead ==
    ASSUME TypeOK, TypeOK', ListInv, NEW t \in Threads, ReadCount(t)
    PROVE  ListInv'
<1> USE MainIsAThread DEF ListInv
<1>1. /\ pc[t] = "read" /\ t \notin paused /\ t \in Inserting
      /\ UNCHANGED <<list, count, op, target, paused, closed, mainEntry, exits>>
      /\ pc'[t] = "store" /\ idx'[t] = count
      /\ stores'[t] = {"count", "entry"}
      /\ \A u \in Threads \ {t} :
            pc'[u] = pc[u] /\ idx'[u] = idx[u] /\ stores'[u] = stores[u]
  BY DEF ReadCount, At, Running, Goto, listVars, stopVars, history, Inserting, TypeOK
<1>2. /\ \A u \in Threads : Adding(u)' <=> Adding(u)
      /\ Inserting' = Inserting /\ Adding(t)
  BY <1>1 DEF Adding, Inserting
<1>3. /\ \A w \in Workers : pc'[w] = "none" <=> pc[w] = "none"
      /\ \A w \in Workers : pc'[w] = "creating" <=> pc[w] = "creating"
      /\ pc'[Main] \in Exiting => pc[Main] = pc'[Main] /\ t # Main
  BY <1>1 DEF Threads, Exiting
<1>4. count \in Nat /\ MaxThreads \in Nat \ {0} /\ count < MaxThreads
  BY <1>1, SizesAssumption DEF TypeOK, InsertInv
<1>5. \A u \in Inserting : u = t
  BY <1>1 DEF InsertInv
<1>6. InsertInv'
  BY <1>1, <1>2, <1>3, <1>4, <1>5 DEF InsertInv
<1>7. PlaceInv'
  <2>1. OnePlace'
    BY <1>1 DEF PlaceInv, OnePlace
  <2>2. CreatedFirst'
    BY <1>1, <1>2, <1>3 DEF PlaceInv, CreatedFirst
  <2>5. \A w \in Workers : Registered(w)' => Registered(w)
    BY <1>1 DEF Registered, Threads
  <2>3. HasPlace'
    <3> SUFFICES ASSUME NEW w \in Workers, Registered(w)
                 PROVE  \E i \in 0 .. count - 1 :
                          /\ list[i] = w
                          /\ pc'[Main] \in Exiting => i >= idx'[Main]
                          /\ i # idx'[t]
      BY <1>1, <1>2, <1>5, <2>5 DEF HasPlace
    <3>1. PICK i \in 0 .. count - 1 :
              list[i] = w /\ (pc[Main] \in Exiting => i >= idx[Main])
      BY DEF PlaceInv, HasPlace
    <3>2. i # count
      BY <1>4
    <3>3. QED
      BY <1>1, <1>3, <3>1, <3>2
  <2>4. QED
    BY <2>1, <2>2, <2>3 DEF PlaceInv
<1>8. ExitInv'
  BY <1>1 DEF ExitInv, Busy, Threads, Exiting
<1>9. exits = 0 => FirstInv'
  <2> SUFFICES ASSUME exits = 0 PROVE FirstInv'
    OBVIOUS
  <2> USE <1>1 DEF FirstInv
  <2>1. /\ paused' = {} /\ mainEntry' # "freed"
        /\ pc'[Main] \notin Exiting \cup {"fini"}
        /\ \A u \in Threads : op'[u] \notin {"not_found", "fini"}
    BY DEF Exiting
  <2>2. NoHoles'
    BY DEF NoHoles
  <2>3. WalkInv'
    BY DEF WalkInv, Threads
  <2>4. MainAdded' <=> MainAdded
    BY <1>2 DEF MainAdded
  <2>5. MainFirst'
    BY <1>4, <2>4 DEF MainFirst, MainAdded, Adding
  <2>6. QED
    BY <2>1, <2>2, <2>3, <2>5
<1>10. QED
  BY <1>1, <1>6, <1>7, <1>8, <1>9

(***************************************************************************)
(* The stores.  The thread that makes them is the only one that inserts,   *)
(* and if it is a worker, its own place is below the one it writes to.     *)
(***************************************************************************)
LEMMA StorerFacts ==
    ASSUME TypeOK, ListInv, NEW t \in Threads, pc[t] = "store", t \notin paused
    PROVE  /\ t \in Inserting /\ \A u \in Inserting : u = t
           /\ idx[t] \in Places /\ count \in Nat
           /\ "count" \in stores[t] => count = idx[t]
           /\ "count" \notin stores[t] => count = idx[t] + 1
           /\ "entry" \notin stores[t] => list[idx[t]] = target[t]
           /\ \/ t = Main /\ target[t] = Main
              \/ target[t] \in Workers /\ pc[target[t]] = "creating"
           /\ t \in Workers =>
                \E i \in 0 .. count - 1 :
                    /\ i \in Places /\ list[i] = t /\ i < idx[t]
                    /\ pc[Main] \in Exiting => i >= idx[Main]
<1> USE MainIsAThread
<1>1. t \in Inserting /\ Adding(t)
  BY DEF Inserting, Adding
<1>2. idx[t] \in Nat /\ idx[t] < MaxThreads /\ MaxThreads \in Nat \ {0}
  BY <1>1, SizesAssumption DEF ListInv, InsertInv, TypeOK
<1>3. idx[t] \in Places /\ count \in Nat
  BY <1>2 DEF Places, TypeOK
<1>4. /\ "count" \in stores[t] => count = idx[t]
      /\ "count" \notin stores[t] => count = idx[t] + 1
      /\ "entry" \notin stores[t] => list[idx[t]] = target[t]
      /\ \/ t = Main /\ target[t] = Main
         \/ target[t] \in Workers /\ pc[target[t]] = "creating"
      /\ \A u \in Inserting : u = t
  BY <1>1 DEF ListInv, InsertInv
<1>5. ASSUME t \in Workers
      PROVE  \E i \in 0 .. count - 1 :
                /\ i \in Places /\ list[i] = t /\ i < idx[t]
                /\ pc[Main] \in Exiting => i >= idx[Main]
  <2>1. PICK i \in 0 .. count - 1 :
            /\ i \in Places /\ list[i] = t
            /\ pc[Main] \in Exiting => i >= idx[Main]
            /\ \A u \in Inserting : pc[u] = "store" => i # idx[u]
    BY <1>5, PlaceOfRunner
  <2>2. i # idx[t]
    BY <1>1, <2>1
  <2>3. count = idx[t] \/ count = idx[t] + 1
    BY <1>4
  <2>4. i < idx[t]
    BY <1>2, <1>3, <2>1, <2>2, <2>3
  <2>5. QED
    BY <2>1, <2>4
<1>6. QED
  BY <1>1, <1>3, <1>4, <1>5

(* The count may be stored before the entry, *)
LEMMA ListInvStoreCount ==
    ASSUME TypeOK, TypeOK', ListInv, NEW t \in Threads, StoreCount(t)
    PROVE  ListInv'
<1> USE MainIsAThread DEF ListInv
<1>1. /\ pc[t] = "store" /\ t \notin paused /\ "count" \in stores[t]
      /\ count' = idx[t] + 1
      /\ stores'[t] = stores[t] \ {"count"}
      /\ \A u \in Threads \ {t} : stores'[u] = stores[u]
      /\ UNCHANGED <<list, pc, idx, op, target, paused, closed, mainEntry, exits>>
  BY DEF StoreCount, NextCount, At, Running, history, TypeOK, stopVars
<1>2. /\ t \in Inserting /\ \A u \in Inserting : u = t
      /\ idx[t] \in Places /\ count \in Nat /\ count = idx[t]
      /\ "entry" \notin stores[t] => list[idx[t]] = target[t]
      /\ target[t] \in Threads
      /\ target[t] \in Workers => pc[target[t]] = "creating"
  BY <1>1, StorerFacts DEF Threads
<1>3. count' = count + 1 /\ count' <= MaxThreads /\ count' > 0
  BY <1>1, <1>2, SizesAssumption DEF Places
<1>4. t \in Workers => count > 0
  <2> SUFFICES ASSUME t \in Workers PROVE count > 0
    OBVIOUS
  <2>1. PICK i \in 0 .. count - 1 : list[i] = t
    BY <1>1, StorerFacts
  <2>2. QED
    BY <1>2, <2>1
<1>5. Inserting' = Inserting /\ \A u \in Threads : Adding(u)' <=> Adding(u)
  BY <1>1 DEF Inserting, Adding
<1>6. InsertInv'
  BY <1>1, <1>2, <1>3, <1>5 DEF InsertInv
<1>7. PlaceInv'
  <2>1. OnePlace'
    BY <1>1 DEF PlaceInv, OnePlace
  <2>2. CreatedFirst'
    <3>1. \A u \in Threads :
              "entry" \notin stores[u] => "entry" \notin stores'[u]
      BY <1>1
    <3>2. QED
      BY <1>1, <1>5, <3>1 DEF PlaceInv, CreatedFirst
  <2>3. HasPlace'
    <3> SUFFICES ASSUME NEW w \in Workers, Registered(w)
                 PROVE  \E i \in 0 .. count' - 1 :
                          /\ list[i] = w
                          /\ pc[Main] \in Exiting => i >= idx[Main]
                          /\ \A u \in Inserting : pc[u] = "store" => i # idx[u]
      BY <1>1, <1>5 DEF HasPlace, Registered
    <3>1. PICK i \in 0 .. count - 1 :
              /\ list[i] = w
              /\ pc[Main] \in Exiting => i >= idx[Main]
              /\ \A u \in Inserting : pc[u] = "store" => i # idx[u]
      BY DEF PlaceInv, HasPlace
    <3>2. i \in 0 .. count' - 1
      BY <1>2, <1>3
    <3>3. QED
      BY <3>1, <3>2
  <2>4. QED
    BY <2>1, <2>2, <2>3 DEF PlaceInv
<1>8. ExitInv'
  <2>1. pc[Main] \notin {"fini", "down"} /\ op[Main] # "fini"
    BY <1>1, <1>4 DEF ExitInv, Busy, Threads, Exiting
  <2>2. QED
    BY <1>1, <2>1 DEF ExitInv
<1>9. exits = 0 => FirstInv'
  <2> SUFFICES ASSUME exits = 0 PROVE FirstInv'
    OBVIOUS
  <2> USE <1>1 DEF FirstInv
  <2>1. NoHoles'
    <3> SUFFICES ASSUME NEW i \in 0 .. count' - 1, list[i] \notin Threads
                 PROVE  \E u \in Threads :
                          /\ pc[u] = "store" /\ idx[u] = i
                          /\ "entry" \in stores'[u]
      BY DEF NoHoles
    <3>1. CASE i = idx[t]
      BY <1>2, <3>1
    <3>2. CASE i \in 0 .. count - 1
      <4>1. PICK u \in Threads :
                pc[u] = "store" /\ idx[u] = i /\ "entry" \in stores[u]
        BY <3>2 DEF NoHoles
      <4>2. "entry" \in stores'[u]
        BY <4>1
      <4>3. QED
        BY <4>1, <4>2
    <3>3. QED
      BY <1>2, <1>3, <3>1, <3>2
  <2>2. WalkInv'
    <3> SUFFICES ASSUME NEW u \in Workers, NEW j \in 0 .. count' - 1,
                        pc[u] = "find", list[j] = u
                 PROVE  idx[u] <= j
      BY DEF WalkInv
    <3>1. PICK i \in 0 .. count - 1 : i \in Places /\ list[i] = u
      BY PlaceOfRunner
    <3>2. j \in Places
      BY <1>1, <1>2, <1>3, SizesAssumption DEF Places
    <3>3. i = j
      BY <3>1, <3>2 DEF PlaceInv, OnePlace
    <3>4. QED
      BY <3>1, <3>3 DEF WalkInv
  <2>3. MainAdded' <=> MainAdded
    BY <1>5 DEF MainAdded
  <2>4. MainFirst'
    BY <1>3, <1>4, <2>3 DEF MainFirst, Threads, MainAdded
  <2>5. QED
    BY <2>1, <2>2, <2>4
<1>10. QED
  BY <1>1, <1>6, <1>7, <1>8, <1>9

(* or after it. *)
LEMMA ListInvStoreEntry ==
    ASSUME TypeOK, TypeOK', ListInv, NEW t \in Threads, StoreEntry(t),
           fault' = "none"
    PROVE  ListInv'
<1> USE MainIsAThread DEF ListInv
<1>1. /\ pc[t] = "store" /\ t \notin paused /\ "entry" \in stores[t]
      /\ list' = [list EXCEPT ![idx[t]] = target[t]]
      /\ stores'[t] = stores[t] \ {"entry"}
      /\ \A u \in Threads \ {t} : stores'[u] = stores[u]
      /\ UNCHANGED <<count, pc, idx, op, target, paused, closed, mainEntry, exits>>
  BY DEF StoreEntry, At, Running, history, TypeOK, Fault, stopVars
<1>2. /\ t \in Inserting /\ \A u \in Inserting : u = t
      /\ idx[t] \in Places /\ count \in Nat
      /\ "count" \in stores[t] => count = idx[t]
      /\ "count" \notin stores[t] => count = idx[t] + 1
      /\ target[t] \in Threads
      /\ target[t] \in Workers => pc[target[t]] = "creating"
  BY <1>1, StorerFacts DEF Threads
<1>3. /\ list'[idx[t]] = target[t]
      /\ \A i \in Places \ {idx[t]} : list'[i] = list[i]
  BY <1>1, <1>2 DEF TypeOK, Places
<1>4. target[t] \in Workers => \A i \in Places : list[i] # target[t]
  BY <1>1, <1>2 DEF PlaceInv, CreatedFirst, Adding
<1>5. Inserting' = Inserting /\ \A u \in Threads : Adding(u)' <=> Adding(u)
  BY <1>1 DEF Inserting, Adding
<1>6. count <= MaxThreads /\ \A i \in 0 .. count - 1 : i \in Places
  BY <1>2, SizesAssumption DEF InsertInv, Places
<1>7. InsertInv'
  BY <1>1, <1>2, <1>3, <1>5 DEF InsertInv
<1>8. PlaceInv'
  <2>1. OnePlace'
    BY <1>2, <1>3, <1>4 DEF PlaceInv, OnePlace
  <2>2. CreatedFirst'
    <3> SUFFICES ASSUME NEW i \in Places, NEW v \in Workers, list'[i] = v
                 PROVE  /\ pc[v] # "none"
                        /\ pc[v] = "creating" =>
                            \A u \in Threads : Adding(u) /\ target[u] = v =>
                                /\ pc[u] = "store" /\ "entry" \notin stores'[u]
                                /\ idx[u] = i
      BY <1>1, <1>5 DEF CreatedFirst
    <3>1. CASE i = idx[t]
      <4>1. v = target[t] /\ pc[v] = "creating" /\ Adding(t)
        BY <1>1, <1>2, <1>3, <3>1 DEF Adding
      <4>2. \A u \in Threads : Adding(u) /\ target[u] = v => u = t
        BY <4>1 DEF InsertInv
      <4>3. QED
        BY <1>1, <3>1, <4>1, <4>2
    <3>2. CASE i # idx[t]
      <4>1. list[i] = v
        BY <1>3, <3>2
      <4>2. v # target[t]
        BY <1>4, <4>1
      <4>3. \A u \in Threads : target[u] = v => stores'[u] = stores[u]
        BY <1>1, <4>2
      <4>4. QED
        BY <4>1, <4>3 DEF PlaceInv, CreatedFirst
    <3>3. QED
      BY <3>1, <3>2
  <2>3. HasPlace'
    <3> SUFFICES ASSUME NEW w \in Workers, Registered(w)
                 PROVE  \E i \in 0 .. count - 1 :
                          /\ list'[i] = w
                          /\ pc[Main] \in Exiting => i >= idx[Main]
                          /\ \A u \in Inserting : pc[u] = "store" => i # idx[u]
      BY <1>1, <1>5 DEF HasPlace, Registered
    <3>1. PICK i \in 0 .. count - 1 :
              /\ list[i] = w
              /\ pc[Main] \in Exiting => i >= idx[Main]
              /\ \A u \in Inserting : pc[u] = "store" => i # idx[u]
      BY DEF PlaceInv, HasPlace
    <3>2. list'[i] = w
      BY <1>1, <1>2, <1>3, <1>6, <3>1
    <3>3. QED
      BY <3>1, <3>2
  <2>4. QED
    BY <2>1, <2>2, <2>3 DEF PlaceInv
<1>9. ExitInv'
  <2>1. pc[Main] \in Exiting => list'[0] \notin Workers
    <3> SUFFICES ASSUME pc[Main] \in Exiting PROVE list'[0] \notin Workers
      OBVIOUS
    <3>1. t \in Workers
      BY <1>1 DEF Threads, Exiting
    <3>2. PICK i \in 0 .. count - 1 : i < idx[t]
      BY <1>1, <3>1, StorerFacts
    <3>3. 0 # idx[t] /\ 0 \in Places
      BY <1>2, <3>2, SizesAssumption DEF Places
    <3>4. list'[0] = list[0]
      BY <1>3, <3>3
    <3>5. QED
      BY <3>4 DEF ExitInv
  <2>2. QED
    BY <1>1, <2>1 DEF ExitInv
<1>10. exits = 0 => FirstInv'
  <2> SUFFICES ASSUME exits = 0 PROVE FirstInv'
    OBVIOUS
  <2> USE <1>1 DEF FirstInv
  <2>1. NoHoles'
    <3> SUFFICES ASSUME NEW i \in 0 .. count - 1, list'[i] \notin Threads
                 PROVE  \E u \in Threads :
                          /\ pc[u] = "store" /\ idx[u] = i
                          /\ "entry" \in stores'[u]
      BY DEF NoHoles
    <3>1. i # idx[t] /\ list'[i] = list[i]
      BY <1>2, <1>3, <1>6
    <3>2. PICK u \in Threads :
              pc[u] = "store" /\ idx[u] = i /\ "entry" \in stores[u]
      BY <3>1 DEF NoHoles
    <3>3. u # t
      BY <3>1, <3>2
    <3>4. QED
      BY <3>2, <3>3
  <2>2. WalkInv'
    <3> SUFFICES ASSUME NEW u \in Workers, NEW j \in 0 .. count - 1,
                        pc[u] = "find", list'[j] = u
                 PROVE  idx[u] <= j
      BY DEF WalkInv
    <3>1. j # idx[t]
      BY <1>2, <1>3
    <3>2. list[j] = u
      BY <1>3, <1>6, <3>1
    <3>3. QED
      BY <3>2 DEF WalkInv
  <2>3. MainAdded' <=> MainAdded
    BY <1>5 DEF MainAdded
  <2>4. MainAdded => list'[0] = list[0]
    BY <1>2, <1>3, SizesAssumption DEF MainFirst, Places
  <2>5. MainFirst'
    BY <2>3, <2>4 DEF MainFirst
  <2>6. QED
    BY <2>1, <2>2, <2>5
<1>11. QED
  BY <1>1, <1>7, <1>8, <1>9, <1>10

(* The insertion is done: the new thread has the last place. *)
LEMMA ListInvFinish ==
    ASSUME TypeOK, TypeOK', ListInv, NEW t \in Threads, FinishAllocate(t)
    PROVE  ListInv'
<1> USE MainIsAThread DEF ListInv
<1>1. /\ pc[t] = "store" /\ t \notin paused /\ stores[t] = {}
      /\ UNCHANGED <<list, count, stores, paused, closed, mainEntry, exits>>
      /\ idx' = [idx EXCEPT ![t] = 0] /\ op' = [op EXCEPT ![t] = "none"]
      /\ target' = [target EXCEPT ![t] = NULL]
      /\ pc' = [pc EXCEPT ![target[t]] = "created", ![t] = "ready"]
  BY DEF FinishAllocate, At, Running, listVars, stopVars, history
<1>2. /\ t \in Inserting /\ \A u \in Inserting : u = t
      /\ idx[t] \in Places /\ count = idx[t] + 1 /\ list[idx[t]] = target[t]
      /\ \/ t = Main /\ target[t] = Main
         \/ target[t] \in Workers /\ pc[target[t]] = "creating"
  BY <1>1, StorerFacts
<1>3. /\ idx'[t] = 0 /\ op'[t] = "none" /\ pc'[t] = "ready"
      /\ \A u \in Threads \ {t} :
            /\ idx'[u] = idx[u] /\ op'[u] = op[u] /\ target'[u] = target[u]
            /\ \/ pc'[u] = pc[u] /\ u # target[t]
               \/ /\ u \in Workers /\ u = target[t] /\ pc[u] = "creating"
                  /\ pc'[u] = "created"
  BY <1>1, <1>2 DEF TypeOK, Threads
<1>4. /\ \A u \in Threads : Adding(u)' <=> u # t /\ Adding(u)
      /\ \A u \in Threads : pc'[u] = "store" <=> u # t /\ pc[u] = "store"
      /\ Inserting' = {}
  <2>1. \A u \in Threads : Adding(u)' <=> u # t /\ Adding(u)
    BY <1>1, <1>3 DEF Adding
  <2>2. \A u \in Threads : pc'[u] = "store" <=> u # t /\ pc[u] = "store"
    BY <1>3
  <2>3. Inserting' = {}
    BY <1>1, <1>2, <2>1 DEF Adding, Inserting
  <2>4. QED
    BY <2>1, <2>2, <2>3
<1>5. \A u \in Threads \ {t} : Adding(u) => target[u] # target[t]
  BY <1>1 DEF InsertInv, Adding
<1>6. InsertInv'
  <2>1. \A u \in Threads : Adding(u)' =>
            /\ Adding(u) /\ target'[u] = target[u] /\ u # t
            /\ \A w \in Workers :
                w = target[u] /\ pc[w] = "creating" => pc'[w] = "creating"
    <3> SUFFICES ASSUME NEW u \in Threads, Adding(u), u # t,
                        NEW w \in Workers, w = target[u], pc[w] = "creating"
                 PROVE  pc'[w] = "creating"
      BY <1>3, <1>4
    <3>1. w # target[t] /\ w # t
      BY <1>1, <1>5
    <3>2. QED
      BY <1>3, <3>1 DEF Threads
  <2>2. \A u \in Threads : Adding(u)' =>
          \/ u = Main /\ target'[u] = Main
          \/ target'[u] \in Workers /\ pc'[target'[u]] = "creating"
    BY <2>1 DEF InsertInv
  <2>3. \A u, v \in Threads :
          Adding(u)' /\ Adding(v)' /\ target'[u] = target'[v] => u = v
    BY <2>1 DEF InsertInv
  <2>4. QED
    BY <1>1, <1>4, <2>2, <2>3 DEF InsertInv
<1>7. PlaceInv'
  <2>1. OnePlace'
    BY <1>1 DEF PlaceInv, OnePlace
  <2>2. CreatedFirst'
    <3> HIDE DEF ListInv
    <3>0. list' = list /\ stores' = stores
      BY <1>1
    <3> SUFFICES ASSUME NEW i \in Places, NEW v \in Workers, list[i] = v
                 PROVE  /\ pc'[v] # "none"
                        /\ pc'[v] = "creating" =>
                            \A u \in Threads :
                               Adding(u)' /\ target'[u] = v =>
                                /\ pc'[u] = "store" /\ "entry" \notin stores[u]
                                /\ idx'[u] = i
      BY <3>0 DEF CreatedFirst
    <3>1. /\ pc[v] # "none"
          /\ pc[v] = "creating" =>
              \A u \in Threads : Adding(u) /\ target[u] = v =>
                  pc[u] = "store" /\ "entry" \notin stores[u] /\ idx[u] = i
      BY DEF ListInv, PlaceInv, CreatedFirst
    <3>2. QED
      BY <1>3, <1>4, <3>1 DEF Threads
  <2>3. HasPlace'
    <3> SUFFICES ASSUME NEW w \in Workers, Registered(w)'
                 PROVE  \E i \in 0 .. count - 1 :
                          /\ list[i] = w
                          /\ pc'[Main] \in Exiting => i >= idx'[Main]
      BY <1>1, <1>4 DEF HasPlace
    <3>1. CASE w = target[t]
      <4>1. t = Main => pc'[Main] \notin Exiting
        BY <1>3 DEF Exiting
      <4>2. ASSUME t \in Workers, pc[Main] \in Exiting PROVE idx[t] >= idx[Main]
        <5>1. PICK i \in 0 .. count - 1 :
                  i \in Places /\ i < idx[t] /\ i >= idx[Main]
          BY <1>1, <4>2, StorerFacts
        <5>2. idx[t] \in Nat /\ idx[Main] \in Nat
          BY DEF TypeOK
        <5>3. QED
          BY <5>1, <5>2
      <4>3. idx[t] \in 0 .. count - 1
        BY <1>2, SizesAssumption DEF Places
      <4>4. t \in Workers => pc'[Main] = pc[Main] /\ idx'[Main] = idx[Main]
        BY <1>2, <1>3
      <4>5. QED
        BY <1>2, <3>1, <4>1, <4>2, <4>3, <4>4 DEF Threads
    <3>2. CASE w # target[t]
      <4>1. Registered(w)
        BY <1>1, <1>3, <3>2 DEF Registered, Threads
      <4>2. PICK i \in 0 .. count - 1 :
                list[i] = w /\ (pc[Main] \in Exiting => i >= idx[Main])
        BY <4>1 DEF PlaceInv, HasPlace
      <4>3. pc'[Main] \in Exiting => pc[Main] = pc'[Main] /\ idx'[Main] = idx[Main]
        BY <1>2, <1>3 DEF Exiting
      <4>4. QED
        BY <4>2, <4>3
    <3>3. QED
      BY <3>1, <3>2
  <2>4. QED
    BY <2>1, <2>2, <2>3 DEF PlaceInv
<1>8. ExitInv'
  <2>1. pc'[Main] \in Exiting \cup {"fini", "down", "ready"} \cup Busy /\ t # Main
        => pc'[Main] = pc[Main] /\ idx'[Main] = idx[Main]
    BY <1>2, <1>3
  <2>2. op'[Main] = "fini" => op[Main] = "fini" /\ t # Main
    BY <1>3
  <2>3. op[Main] = "fini" => pc[Main] \in Busy /\ pc'[Main] = pc[Main]
    <3> SUFFICES ASSUME op[Main] = "fini"
                 PROVE  pc[Main] \in Busy /\ pc'[Main] = pc[Main]
      OBVIOUS
    <3>1. pc[Main] \in Busy /\ t # Main
      BY <1>1 DEF ExitInv, Busy, Exiting
    <3>2. QED
      BY <1>3, <3>1
  <2>4. \A w \in Workers :
            pc'[w] \notin Exiting \cup {"down", "fini"} /\ op'[w] # "fini"
    BY <1>3 DEF ExitInv, Threads, Exiting
  <2>5. QED
    BY <1>1, <1>3, <2>1, <2>2, <2>3, <2>4 DEF ExitInv, Exiting
<1>9. exits = 0 => FirstInv'
  <2> SUFFICES ASSUME exits = 0 PROVE FirstInv'
    OBVIOUS
  <2> USE <1>1 DEF FirstInv
  <2>1. /\ paused' = {} /\ mainEntry' # "freed"
        /\ pc'[Main] \notin Exiting \cup {"fini"}
        /\ \A u \in Threads : op'[u] \notin {"not_found", "fini"}
    <3>1. pc'[Main] \notin Exiting \cup {"fini"}
      BY <1>3 DEF Exiting
    <3>2. \A u \in Threads : op'[u] \notin {"not_found", "fini"}
      BY <1>3
    <3>3. QED
      BY <3>1, <3>2
  <2>2. NoHoles'
    <3> SUFFICES ASSUME NEW i \in 0 .. count - 1, list[i] \notin Threads
                 PROVE  \E u \in Threads :
                          /\ pc'[u] = "store" /\ idx'[u] = i
                          /\ "entry" \in stores[u]
      BY DEF NoHoles
    <3>1. PICK u \in Threads :
              pc[u] = "store" /\ idx[u] = i /\ "entry" \in stores[u]
      BY DEF NoHoles
    <3>2. u # t
      BY <3>1
    <3>3. QED
      BY <1>3, <1>4, <3>1, <3>2
  <2>3. \A u \in Threads : pc[u] = "store" => u = t
    BY <1>2 DEF Inserting
  <2>4. MainFirst'
    <3>1. CASE t = Main
      <4>1. MainAdded'
        BY <1>3, <1>4, <3>1 DEF MainAdded
      <4>2. count > 0 /\ list[0] = Main
        <5>1. CASE target[Main] = Main
          BY <1>1, <1>2, <3>1, <5>1 DEF MainFirst, MainAdded, Adding
        <5>2. CASE target[Main] # Main
          BY <1>1, <3>1, <5>2 DEF MainFirst, MainAdded, Adding
        <5>3. QED
          BY <5>1, <5>2
      <4>3. \A u \in Threads : pc'[u] # "store"
        BY <1>4, <2>3
      <4>4. QED
        BY <1>3, <3>1, <4>1, <4>2, <4>3 DEF MainFirst
    <3>2. CASE t # Main
      <4>1. /\ pc'[Main] = pc[Main] /\ idx'[Main] = idx[Main]
            /\ target'[Main] = target[Main]
        BY <1>3, <3>2
      <4>2. (MainAdded' <=> MainAdded) /\ \A u \in Threads : pc'[u] # "store"
        BY <1>4, <2>3, <4>1 DEF MainAdded, Adding
      <4>3. QED
        BY <4>1, <4>2 DEF MainFirst
    <3>3. QED
      BY <3>1, <3>2
  <2>5. WalkInv'
    <3> SUFFICES ASSUME NEW u \in Workers, NEW j \in 0 .. count - 1,
                        pc'[u] = "find", list[j] = u
                 PROVE  idx'[u] <= j
      BY DEF WalkInv
    <3>1. u \in Threads \ {t} /\ pc'[u] = "find"
      BY <1>3 DEF Threads
    <3>2. pc[u] = "find" /\ idx'[u] = idx[u]
      BY ONLY <1>3, <3>1
    <3>3. QED
      BY <3>2 DEF WalkInv
  <2>6. QED
    BY <2>1, <2>2, <2>4, <2>5
<1>10. QED
  BY <1>1, <1>6, <1>7, <1>8, <1>9

(***************************************************************************)
(* symExit.  Its walk leaves behind no thread that is not paused; at the   *)
(* end of it nobody runs who could add another.                            *)
(***************************************************************************)
LEMMA ListInvSymExit ==
    ASSUME TypeOK, TypeOK', ListInv, SymExit, fault' = "none"
    PROVE  ListInv'
<1> USE MainIsAThread DEF ListInv
<1>1. /\ pc[Main] = "ready" /\ pc' = [pc EXCEPT ![Main] = "exit"]
      /\ exits' = exits + 1 /\ list[0] \notin Workers
      /\ UNCHANGED <<list, count, op, idx, target, stores, paused, closed>>
  BY ThreadsAssumption DEF SymExit, At, Goto, stopVars
<1>2. exits' # 0
  BY <1>1, SizesAssumption DEF TypeOK
<1>3. pc'[Main] = "exit" /\ \A u \in Threads \ {Main} : pc'[u] = pc[u]
  BY <1>1 DEF TypeOK
<1>4. \A t \in Threads : Adding(t)' <=> Adding(t)
  BY <1>1, <1>3 DEF Adding
<1>5. \A t \in Threads : Adding(t) => pc'[t] = pc[t] /\ idx'[t] = idx[t]
  BY <1>1, <1>3 DEF Adding
<1>6. \A w \in Workers : pc'[w] = pc[w]
  BY <1>3 DEF Threads
<1>7. idx'[Main] = 0 /\ idx[Main] = 0
  BY <1>1 DEF ExitInv
<1>11. \A w \in Workers : Registered(w)' => Registered(w)
  BY <1>1, <1>6 DEF Registered
<1>8. InsertInv' /\ PlaceInv'
  BY <1>1, <1>4, <1>5, <1>6, <1>7, <1>11, Calm DEF Exiting
<1>9. ExitInv'
  <2>1. op[Main] # "fini"
    BY <1>1 DEF ExitInv, Busy, Exiting
  <2>2. QED
    BY <1>1, <1>3, <1>6, <2>1 DEF ExitInv
<1>10. QED
  BY <1>2, <1>8, <1>9

(* The steps of symExit at an entry that leave the list alone: from one of *)
(* them to the next fewer threads can run, and none begins to insert.      *)
LEMMA ListInvTake ==
    ASSUME TypeOK, TypeOK', ListInv, pc[Main] \in Exiting,
           UNCHANGED <<list, count, op, idx, stores, exits>>,
           NEW p \in Exiting, pc' = [pc EXCEPT ![Main] = p],
           \A u \in Threads \ {Main} : target'[u] = target[u],
           paused \subseteq paused', closed \subseteq closed'
    PROVE  ListInv'
<1> USE MainIsAThread DEF ListInv
<1>1. pc'[Main] = p /\ \A u \in Threads \ {Main} : pc'[u] = pc[u]
  BY DEF TypeOK
<1>2. \A w \in Workers : w \in Threads \ {Main}
  BY DEF Threads
<1>3. /\ \A u \in Threads : Adding(u)' <=> Adding(u)
      /\ \A u \in Threads : Adding(u) => u # Main
      /\ Inserting' \subseteq Inserting /\ Main \notin Inserting'
      /\ \A u \in Inserting' : u \in Threads
  BY <1>1 DEF Adding, Inserting, Exiting
<1>4. exits' # 0
  BY DEF FirstInv
<1>5. InsertInv'
  BY <1>1, <1>2, <1>3 DEF InsertInv
<1>6. PlaceInv'
  <2>1. \A w \in Workers : Registered(w)' => Registered(w)
    BY <1>1, <1>2 DEF Registered
  <2>2. OnePlace'
    BY DEF PlaceInv, OnePlace
  <2>3. CreatedFirst'
    BY <1>1, <1>2, <1>3 DEF PlaceInv, CreatedFirst
  <2>4. HasPlace'
    BY <1>1, <1>3, <2>1 DEF PlaceInv, HasPlace
  <2>5. QED
    BY <2>2, <2>3, <2>4 DEF PlaceInv
<1>7. ExitInv'
  BY <1>1, <1>2 DEF ExitInv, Busy, Exiting
<1>8. QED
  BY <1>4, <1>5, <1>6, <1>7

(* The load, the pause and the close are such steps. *)
LEMMA ListInvExitEntry ==
    ASSUME TypeOK, TypeOK', ListInv, StopsLate,
           ExitEntry \/ PauseThread \/ CloseThread, fault' = "none"
    PROVE  ListInv'
<1> USE DEF At, Goto, listVars, stopVars, history
<1>1. CASE ExitEntry
  <2>1. /\ pc[Main] = "exit" /\ UNCHANGED <<list, count, op, idx, stores,
                                            paused, closed, exits>>
        /\ \E p \in {"pause", "clear"} : pc' = [pc EXCEPT ![Main] = p]
        /\ \/ UNCHANGED target
           \/ \E e \in Workers : target' = [target EXCEPT ![Main] = e]
    BY <1>1 DEF ExitEntry, Fault
  <2>2. \A u \in Threads \ {Main} : target'[u] = target[u]
    BY <2>1 DEF TypeOK
  <2>3. QED
    BY <2>1, <2>2, ListInvTake DEF Exiting
<1>2. CASE PauseThread
  <2>1. /\ pc[Main] = "pause" /\ pc' = [pc EXCEPT ![Main] = "close"]
        /\ UNCHANGED <<list, count, op, idx, target, stores, closed, exits>>
        /\ paused \subseteq paused'
    BY <1>2 DEF PauseThread
  <2>2. QED
    BY <2>1, ListInvTake DEF Exiting
<1>3. CASE CloseThread
  <2>1. /\ pc[Main] = "close" /\ pc' = [pc EXCEPT ![Main] = "clear"]
        /\ UNCHANGED <<list, count, op, idx, target, stores, paused, exits>>
        /\ closed \subseteq closed'
    BY <1>3 DEF CloseThread
  <2>2. QED
    BY <2>1, ListInvTake DEF Exiting
<1>4. QED
  BY <1>1, <1>2, <1>3

(* The entry that is cleared is not the place of a thread that runs.       *)
LEMMA ListInvClear ==
    ASSUME TypeOK, TypeOK', ListInv, StopInv, ClearEntry
    PROVE  ListInv'
<1> DEFINE i == idx[Main]
<1> USE MainIsAThread DEF ListInv
<1>1. /\ pc[Main] = "clear" /\ i < count
      /\ UNCHANGED <<count, op, stores, paused, closed, exits>>
      /\ pc' = [pc EXCEPT ![Main] = "exit"]
      /\ target' = [target EXCEPT ![Main] = NULL]
  BY DEF ClearEntry, At, Goto, stopVars, history, StopInv, Exiting
<1>2. i \in Places /\ i \in Nat /\ count \in Nat /\ i < MaxThreads
  BY <1>1, SizesAssumption DEF TypeOK, InsertInv, Places
<1>3. /\ list' = [list EXCEPT ![i] = NULL]
      /\ idx' = [idx EXCEPT ![Main] = i + 1]
  BY <1>1 DEF ClearEntry, TypeOK
<1>12. /\ pc'[Main] = "exit"
       /\ \A u \in Threads \ {Main} : pc'[u] = pc[u] /\ target'[u] = target[u]
       /\ \A w \in Workers : w \in Threads \ {Main} /\ pc'[w] = pc[w]
  BY <1>1 DEF TypeOK, Threads
<1>4. /\ list'[i] = NULL /\ NULL \notin Workers
      /\ \A j \in Places \ {i} : list'[j] = list[j]
      /\ idx'[Main] = i + 1 /\ \A u \in Threads \ {Main} : idx'[u] = idx[u]
  BY <1>2, <1>3, ThreadsAssumption DEF TypeOK, Places
<1>5. exits' # 0
  BY <1>1 DEF FirstInv, Exiting
<1>6. /\ Inserting' = Inserting /\ Main \notin Inserting
      /\ \A u \in Threads :
            (Adding(u)' <=> Adding(u)) /\ (Adding(u) => u # Main)
      /\ \A u \in Inserting : u \in Threads \ {Main}
  BY <1>1, <1>12 DEF Inserting, Adding
<1>7. ASSUME NEW t \in Inserting', pc[t] = "store"
      PROVE  idx[t] \in Places /\ i < idx[t] /\ t \in Workers
  <2>1. t \in Threads /\ t \in Workers /\ t \notin paused
    BY <1>6 DEF Inserting, Threads
  <2>2. PICK j \in 0 .. count - 1 : j < idx[t] /\ j >= i
    BY <1>1, <1>7, <2>1, StorerFacts DEF Exiting
  <2>3. idx[t] \in Places /\ idx[t] \in Nat
    BY <1>7, <2>1, StorerFacts DEF TypeOK
  <2>4. QED
    BY <1>2, <2>1, <2>2, <2>3
<1>8. InsertInv'
  <2>1. \A t \in Inserting' : pc[t] = "store" =>
          list'[idx[t]] = list[idx[t]] /\ idx'[t] = idx[t]
    <3> SUFFICES ASSUME NEW t \in Inserting', pc[t] = "store"
                 PROVE  list'[idx[t]] = list[idx[t]] /\ idx'[t] = idx[t]
      OBVIOUS
    <3>1. idx[t] \in Places /\ i < idx[t] /\ t \in Workers
      BY <1>7
    <3>2. idx[t] # i
      BY <1>2, <3>1
    <3>3. QED
      BY <1>4, <3>1, <3>2 DEF Threads
  <2>2. \A t \in Threads : Adding(t)' =>
          \/ t = Main /\ target'[t] = Main
          \/ target'[t] \in Workers /\ pc'[target'[t]] = "creating"
    BY <1>1, <1>6, <1>12 DEF InsertInv
  <2>3. \A t, u \in Threads :
          Adding(t)' /\ Adding(u)' /\ target'[t] = target'[u] => t = u
    BY <1>1, <1>6, <1>12 DEF InsertInv
  <2>4. \A t \in Inserting' : pc'[t] = "store" =>
          /\ idx'[t] < MaxThreads
          /\ "count" \in stores'[t] => count' = idx'[t]
          /\ "count" \notin stores'[t] => count' = idx'[t] + 1
          /\ "entry" \notin stores'[t] => list'[idx'[t]] = target'[t]
    BY <1>1, <1>6, <1>12, <2>1 DEF InsertInv
  <2>5. QED
    BY <1>1, <1>6, <1>12, <2>2, <2>3, <2>4 DEF InsertInv
<1>9. PlaceInv'
  <2>1. \A j \in Places, w \in Workers : list'[j] = w => list[j] = w
    BY <1>4
  <2>2. OnePlace'
    BY <2>1 DEF PlaceInv, OnePlace
  <2>3. CreatedFirst'
    <3> SUFFICES ASSUME NEW j \in Places, NEW w \in Workers, list'[j] = w
                 PROVE  /\ pc[w] # "none"
                        /\ pc[w] = "creating" =>
                            \A t \in Threads :
                                Adding(t)' /\ target[t] = w =>
                                    /\ pc[t] = "store"
                                    /\ "entry" \notin stores[t] /\ idx'[t] = j
      BY <1>1, <1>6, <1>12 DEF CreatedFirst
    <3>1. list[j] = w
      BY <2>1
    <3>2. \A t \in Threads : Adding(t)' => Adding(t) /\ idx'[t] = idx[t]
      BY <1>4, <1>6
    <3>3. QED
      BY <3>1, <3>2 DEF PlaceInv, CreatedFirst
  <2>4. HasPlace'
    <3> SUFFICES ASSUME NEW w \in Workers, Registered(w)
                 PROVE  \E j \in 0 .. count - 1 :
                          /\ list'[j] = w /\ j >= i + 1
                          /\ \A t \in Inserting :
                                pc[t] = "store" => j # idx'[t]
      BY <1>1, <1>4, <1>6, <1>12 DEF HasPlace, Registered
    <3>1. list[i] # w
      BY <1>1 DEF StopInv, Registered, Runs
    <3>2. PICK j \in 0 .. count - 1 :
              /\ list[j] = w /\ j >= i
              /\ \A t \in Inserting : pc[t] = "store" => j # idx[t]
      BY <1>1 DEF PlaceInv, HasPlace, Exiting
    <3>7. j \in Places
      BY <1>2, SizesAssumption DEF Places, InsertInv
    <3>3. j # i
      BY <3>1, <3>2
    <3>4. list'[j] = w /\ j >= i + 1
      BY <1>2, <1>4, <3>2, <3>3, <3>7
    <3>5. \A t \in Inserting : idx'[t] = idx[t]
      BY <1>4, <1>6
    <3>6. QED
      BY <1>6, <3>2, <3>4, <3>5
  <2>5. QED
    BY <2>2, <2>3, <2>4 DEF PlaceInv
<1>10. ExitInv'
  <2>1. list'[0] \notin Workers
    <3>1. 0 \in Places
      BY SizesAssumption DEF Places
    <3>2. QED
      BY <1>1, <1>4, <3>1 DEF ExitInv, Exiting
  <2>2. op[Main] # "fini"
    BY <1>1 DEF ExitInv, Busy, Exiting
  <2>3. QED
    BY <1>1, <1>12, <2>1, <2>2 DEF ExitInv
<1>11. QED
  BY <1>5, <1>8, <1>9, <1>10

(* The end of the walk: the list is empty, and nobody inserts. *)
LEMMA ListInvEndExit ==
    ASSUME TypeOK, TypeOK', ListInv, EndExit
    PROVE  ListInv'
<1> USE MainIsAThread DEF ListInv
<1>1. /\ pc[Main] = "exit" /\ idx[Main] >= count /\ count' = 0
      /\ pc' = [pc EXCEPT ![Main] = "fini"]
      /\ UNCHANGED <<list, op, target, stores, paused, closed, exits>>
      /\ idx' = [idx EXCEPT ![Main] = 0]
  BY DEF EndExit, At, Goto, ExitLimit, history, stopVars
<1>2. pc'[Main] = "fini" /\ \A u \in Threads \ {Main} :
          pc'[u] = pc[u] /\ idx'[u] = idx[u]
  BY <1>1 DEF TypeOK
<1>3. exits' # 0
  BY <1>1 DEF FirstInv, Exiting
<1>4. \A w \in Workers : ~Registered(w)
  <2> SUFFICES ASSUME NEW w \in Workers, Registered(w) PROVE FALSE
    OBVIOUS
  <2>1. PICK j \in 0 .. count - 1 : j >= idx[Main]
    BY <1>1 DEF PlaceInv, HasPlace, Exiting
  <2>2. count \in Nat /\ idx[Main] \in Nat
    BY DEF TypeOK
  <2>3. QED
    BY <1>1, <2>1, <2>2
<1>5. Inserting' = {}
  BY <1>1, <1>2, <1>4 DEF Inserting, Registered, Threads
<1>6. \A u \in Threads : Adding(u)' <=> Adding(u)
  BY <1>1, <1>2 DEF Adding
<1>7. \A u \in Threads : Adding(u) => pc'[u] = pc[u] /\ idx'[u] = idx[u]
  BY <1>1, <1>2 DEF Adding
<1>8. \A w \in Workers : pc'[w] = pc[w]
  BY <1>2 DEF Threads
<1>9. InsertInv'
  BY <1>1, <1>5, <1>6, <1>8, SizesAssumption DEF InsertInv
<1>10. PlaceInv'
  <2>1. OnePlace'
    BY <1>1 DEF PlaceInv, OnePlace
  <2>2. CreatedFirst'
    BY <1>1, <1>6, <1>7, <1>8 DEF PlaceInv, CreatedFirst
  <2>3. HasPlace'
    BY <1>1, <1>4, <1>8 DEF HasPlace, Registered
  <2>4. QED
    BY <2>1, <2>2, <2>3 DEF PlaceInv
<1>11. ExitInv'
  <2>1. op[Main] # "fini"
    BY <1>1 DEF ExitInv, Busy, Exiting
  <2>2. QED
    BY <1>1, <1>2, <1>8, <2>1 DEF ExitInv, Exiting
<1>12. QED
  BY <1>3, <1>9, <1>10, <1>11
-----------------------------------------------------------------------------
(***************************************************************************)
(* The entry symExit is at stays as it is while the other threads go on:   *)
(* an insertion writes above it, and a thread that is started between its  *)
(* pause and its close has slipped.                                        *)
(***************************************************************************)
LEMMA StopKept ==
    ASSUME TypeOK, TypeOK', StopsLate, StopInv, closed' = closed,
           \A w \in Workers : Runs(w)' =>
               Runs(w) \/ (w \notin closed
                           /\ ~(pc[Main] = "close" /\ target[Main] = w)),
           pc'[Main] \in Exiting \ {"exit"} =>
               /\ pc'[Main] = pc[Main] /\ idx'[Main] = idx[Main]
               /\ target'[Main] = target[Main] /\ count' >= count
               /\ list'[idx[Main]] = list[idx[Main]]
    PROVE  StopInv'
<1> USE MainIsAThread
<1>1. \A w \in closed : w \in Workers /\ ~Runs(w)'
  BY DEF TypeOK, StopInv
<1>2. pc'[Main] \in Exiting \ {"exit"} => idx'[Main] < count'
  BY DEF TypeOK, StopInv
<1>3. pc'[Main] \in {"pause", "close"} => list'[idx'[Main]] = target'[Main]
  BY DEF StopInv, Exiting
<1>4. pc'[Main] = "close" => ~Runs(target[Main])' /\ target'[Main] = target[Main]
  <2> SUFFICES ASSUME pc'[Main] = "close" PROVE ~Runs(target[Main])'
    BY DEF Exiting
  <2>1. pc[Main] = "close" /\ target'[Main] = target[Main]
    BY DEF Exiting
  <2>2. target[Main] \in Workers /\ ~Runs(target[Main])
    BY <2>1 DEF StopsLate, StopInv
  <2>3. QED
    BY <2>1, <2>2
<1>5. pc'[Main] = "clear" =>
          (list'[idx'[Main]] \in Workers => list'[idx'[Main]] \in closed')
  BY DEF StopInv, Exiting
<1>6. QED
  BY <1>1, <1>2, <1>3, <1>4, <1>5 DEF StopInv, Runs

(* A step of a thread that runs, in its own variables. *)
LEMMA StopInvOwn ==
    ASSUME TypeOK, TypeOK', StopsLate, StopInv, NEW t \in Threads, NEW p,
           pc' = [pc EXCEPT ![t] = p], p \notin Exiting,
           pc[t] \notin {"none", "creating", "created", "ended"},
           t \notin paused, \A u \in Threads \ {t} : idx'[u] = idx[u],
           UNCHANGED <<list, count, target, paused, closed>>
    PROVE  StopInv'
<1> USE MainIsAThread
<1>1. pc'[t] = p /\ \A u \in Threads \ {t} : pc'[u] = pc[u]
  BY DEF TypeOK
<1>2. \A w \in Workers : Runs(w)' => Runs(w)
  BY <1>1 DEF Runs, Threads
<1>3. count' >= count
  BY DEF TypeOK
<1>4. pc'[Main] \in Exiting \ {"exit"} =>
          pc'[Main] = pc[Main] /\ idx'[Main] = idx[Main]
  BY <1>1
<1>5. QED
  BY <1>2, <1>3, <1>4, StopKept

(* The stores of an insertion are above the entry. *)
LEMMA StopInvStore ==
    ASSUME TypeOK, TypeOK', StopsLate, ListInv, StopInv, NEW t \in Threads,
           StoreCount(t) \/ StoreEntry(t)
    PROVE  StopInv'
<1> USE MainIsAThread DEF listVars, threadVars, stopVars
<1>1. /\ pc[t] = "store" /\ t \notin paused
      /\ UNCHANGED <<pc, idx, target, paused, closed>>
  BY DEF StoreCount, StoreEntry, At, Running, Fault
<1>2. \A w \in Workers : Runs(w)' => Runs(w)
  BY <1>1 DEF Runs
<1>3. count' >= count
  <2>1. CASE StoreCount(t)
    <3>1. count' = idx[t] + 1 /\ "count" \in stores[t]
      BY <2>1 DEF StoreCount, NextCount
    <3>2. QED
      BY <1>1, <3>1, StorerFacts
  <2>2. CASE StoreEntry(t)
    BY <2>2 DEF StoreEntry, Fault, TypeOK
  <2>3. QED
    BY <2>1, <2>2
<1>4. pc[Main] \in Exiting => list'[idx[Main]] = list[idx[Main]]
  <2> SUFFICES ASSUME pc[Main] \in Exiting
               PROVE  list'[idx[Main]] = list[idx[Main]]
    OBVIOUS
  <2>1. t \in Workers
    BY <1>1 DEF Threads, Exiting
  <2>2. PICK i \in 0 .. count - 1 : i < idx[t] /\ i >= idx[Main]
    BY <1>1, <2>1, StorerFacts
  <2>3. idx[t] # idx[Main]
    BY <2>2 DEF TypeOK
  <2>4. list' = list \/ list' = [list EXCEPT ![idx[t]] = target[t]]
    BY DEF StoreCount, StoreEntry, Fault
  <2>5. idx[Main] \in 0 .. MaxThreads - 1
    BY <2>2, SizesAssumption DEF TypeOK, ListInv, InsertInv
  <2>6. QED
    BY <2>3, <2>4, <2>5 DEF TypeOK
<1>5. QED
  BY <1>1, <1>2, <1>3, <1>4, StopKept

(* The steps of one thread that change where another one is. *)
LEMMA StopInvOther ==
    ASSUME TypeOK, TypeOK', StopsLate, ListInv, StopInv, NEW t \in Threads,
           StartThread(t) \/ CreateThread(t) \/ FinishAllocate(t), ~slipped'
    PROVE  StopInv'
<1> USE MainIsAThread DEF At, Running, Goto, listVars, stopVars
<1>1. CASE StartThread(t)
  <2>1. /\ pc[t] = "act" /\ t \notin paused
        /\ UNCHANGED <<list, count, target, paused, closed>>
        /\ \A u \in Threads \ {t} : idx'[u] = idx[u]
    BY <1>1 DEF StartThread, TypeOK
  <2>2. CASE pc' = [pc EXCEPT ![t] = "find"]
    BY <2>1, <2>2, StopInvOwn DEF Exiting
  <2>3. CASE \E w \in Workers \ closed :
               /\ pc[w] = "created"
               /\ pc' = [pc EXCEPT ![t] = "find", ![w] = "ready"]
               /\ slipped' = (slipped \/ (pc[Main] = "close" /\ target[Main] = w))
    <3>1. PICK w \in Workers \ closed :
             /\ pc[w] = "created"
             /\ pc' = [pc EXCEPT ![t] = "find", ![w] = "ready"]
             /\ ~(pc[Main] = "close" /\ target[Main] = w)
      BY <2>3
    <3>2. \A u \in Threads :
             pc'[u] = IF u = w THEN "ready" ELSE IF u = t THEN "find" ELSE pc[u]
      BY <2>1, <3>1 DEF TypeOK
    <3>3. \A v \in Workers : Runs(v)' => Runs(v) \/ v = w
      BY <2>1, <3>2 DEF Runs, Threads
    <3>4. pc'[Main] \in Exiting =>
              pc'[Main] = pc[Main] /\ idx'[Main] = idx[Main] /\ count' >= count
      BY <2>1, <3>2 DEF Exiting, TypeOK
    <3>5. QED
      BY <2>1, <3>1, <3>3, <3>4, StopKept
  <2>4. QED
    BY <1>1, <2>2, <2>3 DEF StartThread
<1>2. CASE CreateThread(t)
  <2>1. PICK w \in Workers :
           /\ pc[w] = "none"
           /\ pc' = [pc EXCEPT ![t] = "full?", ![w] = "creating"]
           /\ target' = [target EXCEPT ![t] = w]
    BY <1>2 DEF CreateThread, WhileInserted
  <2>2. /\ pc[t] = "act" /\ t \notin paused
        /\ UNCHANGED <<list, count, idx, paused, closed>>
    BY <1>2 DEF CreateThread
  <2>3. \A u \in Threads :
           pc'[u] = IF u = w THEN "creating" ELSE IF u = t THEN "full?" ELSE pc[u]
    BY <2>1, <2>2 DEF TypeOK, Threads
  <2>4. \A v \in Workers : Runs(v)' => Runs(v)
    BY <2>2, <2>3 DEF Runs, Threads
  <2>5. pc'[Main] \in Exiting =>
            /\ pc'[Main] = pc[Main] /\ target'[Main] = target[Main]
            /\ count' >= count
    BY <2>1, <2>2, <2>3 DEF Exiting, TypeOK
  <2>6. QED
    BY <2>2, <2>4, <2>5, StopKept
<1>3. CASE FinishAllocate(t)
  <2>1. /\ pc[t] = "store" /\ t \notin paused
        /\ UNCHANGED <<list, count, paused, closed>>
        /\ pc' = [pc EXCEPT ![target[t]] = "created", ![t] = "ready"]
        /\ \A u \in Threads \ {t} : idx'[u] = idx[u] /\ target'[u] = target[u]
    BY <1>3 DEF FinishAllocate, TypeOK
  <2>2. \/ t = Main /\ target[t] = Main
        \/ target[t] \in Workers /\ pc[target[t]] = "creating"
    BY <2>1, StorerFacts
  <2>3. \A u \in Threads :
           pc'[u] = IF u = t THEN "ready" ELSE IF u = target[t] THEN "created"
                    ELSE pc[u]
    BY <2>1, <2>2 DEF TypeOK, Threads
  <2>4. \A v \in Workers : Runs(v)' => Runs(v)
    BY <2>1, <2>3 DEF Runs, Threads
  <2>5. pc'[Main] \in Exiting =>
            /\ pc'[Main] = pc[Main] /\ target'[Main] = target[Main]
            /\ idx'[Main] = idx[Main] /\ count' >= count
    BY <2>1, <2>2, <2>3 DEF Exiting, TypeOK
  <2>6. QED
    BY <2>1, <2>4, <2>5, StopKept
<1>4. QED
  BY <1>1, <1>2, <1>3

(* So the steps of the threads keep it, *)
LEMMA StopInvThread ==
    ASSUME TypeOK, TypeOK', StopsLate, ListInv, StopInv, NEW t \in Threads,
           Call(t) \/ ThreadStep(t) \/ EndThread(t), ~slipped'
    PROVE  StopInv'
<1> USE DEF At, Running, Goto, listVars, threadVars, stopVars
<1> DEFINE Own(p) ==
        /\ pc' = [pc EXCEPT ![t] = p] /\ p \notin Exiting
        /\ pc[t] \notin {"none", "creating", "created", "ended"}
        /\ t \notin paused /\ \A u \in Threads \ {t} : idx'[u] = idx[u]
        /\ UNCHANGED <<list, count, target, paused, closed>>
<1>1. CASE Call(t) \/ EndThread(t) \/ FindFails(t) \/ CreateFails(t)
  <2>1. Own("find") \/ Own("ended") \/ Own("lock") \/ Own("ready")
    BY <1>1 DEF Call, EndThread, FindFails, CreateFails, Exiting, TypeOK
  <2>2. QED
    BY <2>1, StopInvOwn
<1>2. CASE LockLog(t) \/ SkipLog(t) \/ FormatLog(t) \/ Return(t)
  <2>1. Own("check") \/ Own("act") \/ Own("call") \/ Own("ready") \/ Own("fini")
    BY <1>2 DEF LockLog, SkipLog, FormatLog, Return, Exiting, TypeOK
  <2>2. QED
    BY <2>1, StopInvOwn
<1>3. CASE FindEntry(t) \/ CallLogFn(t) \/ Abort(t)
  <2>1. Own("find") \/ Own("lock") \/ Own("call") \/ Own("act")
    <3>1. CASE FindEntry(t)
      BY <3>1 DEF FindEntry, Fault, Exiting, TypeOK
    <3>2. CASE CallLogFn(t)
      BY <3>2 DEF CallLogFn, Fault, Exiting, TypeOK
    <3>3. CASE Abort(t)
      BY <3>3 DEF Abort, Fault, Exiting, TypeOK
    <3>4. QED
      BY <1>3, <3>1, <3>2, <3>3
  <2>2. QED
    BY <2>1, StopInvOwn
<1>4. CASE TestFull(t) \/ ReadCount(t)
  <2>1. Own("lock") \/ Own("read") \/ Own("store")
    BY <1>4 DEF TestFull, ReadCount, Exiting, TypeOK
  <2>2. QED
    BY <2>1, StopInvOwn
<1>5. CASE StoreCount(t) \/ StoreEntry(t)
  BY <1>5, StopInvStore
<1>6. CASE StartThread(t) \/ CreateThread(t) \/ FinishAllocate(t)
  BY <1>6, StopInvOther
<1>7. QED
  BY <1>1, <1>2, <1>3, <1>4, <1>5, <1>6 DEF ThreadStep

(* and so do those of symExit and the others of the main thread. *)
LEMMA StopInvMain ==
    ASSUME TypeOK, TypeOK', StopsLate, ListInv, StopInv, fault' = "none",
           ExtSetLogFunction \/ SymInitialize \/ SymExit \/ ExitEntry
           \/ PauseThread \/ CloseThread \/ ClearEntry
           \/ EndExit \/ FiniCall \/ EndFini
    PROVE  StopInv'
<1> USE MainIsAThread
    DEF At, Running, Goto, listVars, threadVars, stopVars, history
<1>1. CASE ExtSetLogFunction
  BY <1>1 DEF ExtSetLogFunction, StopInv, Runs
<1>2. CASE SymInitialize \/ SymExit \/ FiniCall \/ EndFini \/ EndExit \/ ClearEntry
  <2>1. /\ closed' = closed /\ paused' = paused
        /\ \E p \in PCs \ {"pause", "close", "clear"} :
               pc' = [pc EXCEPT ![Main] = p]
    BY <1>2 DEF SymInitialize, SymExit, FiniCall, EndFini, EndExit, ClearEntry,
               PCs
  <2>2. /\ \A w \in Workers : Runs(w)' => Runs(w)
        /\ pc'[Main] \notin {"pause", "close", "clear"}
    BY <2>1 DEF Runs, TypeOK, Threads
  <2>3. QED
    BY <2>1, <2>2, StopKept DEF Exiting
<1>3. CASE ExitEntry
  <2>1. /\ pc[Main] = "exit" /\ idx[Main] < count
        /\ UNCHANGED <<list, count, idx, paused, closed>>
        /\ \/ idx[Main] = 0 /\ pc' = [pc EXCEPT ![Main] = "clear"]
              /\ UNCHANGED target
           \/ /\ pc' = [pc EXCEPT ![Main] = "pause"]
              /\ target' = [target EXCEPT ![Main] = list[idx[Main]]]
    BY <1>3 DEF ExitEntry, ExitLimit, Skipped, Entry, Fault
  <2>2. /\ \/ pc'[Main] = "clear" /\ idx[Main] = 0
           \/ pc'[Main] = "pause" /\ target'[Main] = list[idx[Main]]
        /\ \A w \in Workers : pc'[w] = pc[w]
    BY <2>1 DEF TypeOK, Threads
  <2>3. \A w \in closed : ~Runs(w)'
    BY <2>1, <2>2 DEF StopInv, Runs, TypeOK
  <2>4. list[0] \notin Workers
    BY <2>1 DEF ListInv, ExitInv, Exiting
  <2>5. QED
    BY <2>1, <2>2, <2>3, <2>4 DEF StopInv
<1>4. CASE PauseThread
  <2>1. /\ pc[Main] = "pause" /\ pc' = [pc EXCEPT ![Main] = "close"]
        /\ UNCHANGED <<list, count, idx, target, closed>>
        /\ \/ paused' = paused \cup {target[Main]}
           \/ paused' = paused /\ ~(Runs(target[Main]) /\ target[Main] \notin closed)
    BY <1>4 DEF PauseThread
  <2>2. /\ pc'[Main] = "close" /\ target[Main] \in Workers
        /\ \A w \in Workers : pc'[w] = pc[w]
    BY <2>1 DEF TypeOK, Threads, StopsLate
  <2>3. ~Runs(target[Main])'
    BY <2>1, <2>2 DEF StopInv, Runs
  <2>4. \A w \in closed : ~Runs(w)'
    BY <2>1, <2>2 DEF StopInv, Runs, TypeOK
  <2>5. idx[Main] < count /\ list[idx[Main]] = target[Main]
    BY <2>1 DEF StopInv, Exiting
  <2>6. QED
    BY <2>1, <2>2, <2>3, <2>4, <2>5 DEF StopInv, Runs
<1>5. CASE CloseThread
  <2>1. /\ pc[Main] = "close" /\ pc' = [pc EXCEPT ![Main] = "clear"]
        /\ UNCHANGED <<list, count, idx, target, paused>>
        /\ closed' = closed \cup {target[Main]}
    BY <1>5 DEF CloseThread
  <2>2. /\ pc'[Main] = "clear" /\ target[Main] \in Workers
        /\ \A w \in Workers : pc'[w] = pc[w]
    BY <2>1 DEF TypeOK, Threads, StopsLate
  <2>3. \A w \in closed' : ~Runs(w)'
    BY <2>1, <2>2 DEF StopInv, Runs, TypeOK
  <2>4. idx[Main] < count /\ list[idx[Main]] = target[Main]
    BY <2>1 DEF StopInv, Exiting
  <2>5. QED
    BY <2>1, <2>2, <2>3, <2>4 DEF StopInv
<1>6. QED
  BY <1>1, <1>2, <1>3, <1>4, <1>5
-----------------------------------------------------------------------------
(* What ends the process is either no fault of the list, or comes late.    *)
LEMMA FaultsOfThreads ==
    ASSUME TypeOK, ListInv, fault = "none", NEW t \in Threads,
           Call(t) \/ ThreadStep(t) \/ EndThread(t),
           fault' \in LookupFaults
    PROVE  exits > 0
<1> USE MainIsAThread
<1>1. exits \in Nat
  BY SizesAssumption DEF TypeOK
<1>2. fault' # fault /\ fault' \notin {"full", "null_log", "stub"}
  BY DEF LookupFaults, Stubs
<1>3. FindEntry(t) \/ CallLogFn(t) \/ Abort(t) \/ StoreEntry(t)
  BY <1>2 DEF Call, EndThread, ThreadStep, FindFails, LockLog, SkipLog,
     FormatLog, Return, StartThread, CreateFails, CreateThread, TestFull,
     ReadCount, StoreCount, FinishAllocate
<1>4. CASE FindEntry(t)
  BY <1>2, <1>4, FindFaults
<1>5. CASE CallLogFn(t)
  BY <1>2, <1>5 DEF CallLogFn, Fault
<1>6. CASE Abort(t)
  <2>1. op[t] = "not_found"
    BY <1>2, <1>6 DEF Abort, Fault, Stubs
  <2>2. QED
    BY <1>1, <2>1 DEF ListInv, FirstInv
<1>7. CASE StoreEntry(t)
  <2>1. pc[t] = "store" /\ t \notin paused /\ idx[t] >= MaxThreads
    BY <1>2, <1>7 DEF StoreEntry, At, Running, history
  <2>2. idx[t] \in Places
    BY <2>1, StorerFacts
  <2>3. QED
    BY <2>1, <2>2, SizesAssumption DEF Places
<1>8. QED
  BY <1>3, <1>4, <1>5, <1>6, <1>7

(* Every step of a thread keeps the invariant, *)
LEMMA SymInvThread ==
    ASSUME SymInv, NEW t \in Threads,
           Call(t) \/ ThreadStep(t) \/ EndThread(t)
    PROVE  SymInv'
<1>1. BasicInv' /\ TypeOK /\ TypeOK' /\ StopsLate
  BY BasicInvThread DEF SymInv, BasicInv
<1>2. fault = "none"
  BY DEF ThreadStep, Call, EndThread, FindEntry, FindFails, LockLog, SkipLog,
     FormatLog, CallLogFn, Return, Abort, StartThread, CreateFails,
     CreateThread, TestFull, ReadCount, StoreCount, StoreEntry, FinishAllocate,
     At, Running
<1>3. exits' = exits /\ (overlapped => overlapped') /\ (slipped => slipped')
  <2>1. CASE CreateThread(t)
    <3>1. exits' = exits /\ slipped' = slipped
      BY <2>1 DEF CreateThread
    <3>2. overlapped' = (overlapped \/ Inserting # {})
      BY <2>1 DEF CreateThread
    <3>3. overlapped => overlapped'
      BY <3>2, Zenon
    <3>4. QED
      BY <3>1, <3>3
  <2>2. CASE StartThread(t)
    <3>1. exits' = exits /\ overlapped' = overlapped
      BY <2>2 DEF StartThread
    <3>2. \/ slipped' = slipped
          \/ \E w \in Workers :
               slipped' = (slipped \/ (pc[Main] = "close" /\ target[Main] = w))
      BY <2>2 DEF StartThread
    <3>3. slipped => slipped'
      BY <3>2, Zenon
    <3>4. QED
      BY <3>1, <3>3
  <2>3. CASE ~CreateThread(t) /\ ~StartThread(t)
    <3>1. UNCHANGED history
      BY <2>3 DEF ThreadStep, Call, EndThread, FindEntry, FindFails, LockLog,
         SkipLog, FormatLog, CallLogFn, Return, Abort, CreateFails, TestFull,
         ReadCount, StoreCount, StoreEntry, FinishAllocate, Fault
    <3>2. QED
      BY <3>1 DEF history
  <2>4. QED
    BY <2>1, <2>2, <2>3
<1>7. Good' => StopInv'
  BY <1>1, <1>2, <1>3, StopInvThread DEF SymInv, Good
<1>4. Good' => ListInv'
  <2> SUFFICES ASSUME ~overlapped', ~slipped', fault' = "none" PROVE ListInv'
    BY DEF Good
  <2>1. ListInv
    BY <1>2, <1>3 DEF SymInv, Good
  <2>2. CASE \/ Call(t) \/ EndThread(t) \/ Return(t) \/ CreateFails(t)
             \/ LockLog(t) \/ SkipLog(t) \/ FormatLog(t) \/ CallLogFn(t)
    BY <1>1, <2>1, <2>2, ListInvLog
  <2>3. CASE FindEntry(t) \/ FindFails(t)
    BY <1>1, <2>1, <2>3, ListInvFind
  <2>4. CASE StartThread(t)
    BY <1>1, <2>1, <2>4, ListInvStart
  <2>5. CASE CreateThread(t)
    BY <1>1, <2>1, <2>5, ListInvCreate
  <2>6. CASE TestFull(t)
    BY <1>1, <2>1, <2>6, ListInvTest
  <2>7. CASE ReadCount(t)
    BY <1>1, <2>1, <2>7, ListInvRead
  <2>8. CASE StoreCount(t)
    BY <1>1, <2>1, <2>8, ListInvStoreCount
  <2>9. CASE StoreEntry(t)
    BY <1>1, <2>1, <2>9, ListInvStoreEntry
  <2>10. CASE FinishAllocate(t)
    BY <1>1, <2>1, <2>10, ListInvFinish
  <2>11. CASE Abort(t)
    BY <1>2, <1>1, <2>11 DEF Abort, Fault, TypeOK, Ops, Stubs
  <2>12. QED
    BY <2>2, <2>3, <2>4, <2>5, <2>6, <2>7, <2>8, <2>9, <2>10, <2>11
       DEF ThreadStep
<1>5. LookupFaultNeedsRace'
  <2> SUFFICES ASSUME fault' \in LookupFaults, ~overlapped', ~slipped
               PROVE  exits > 0
    BY <1>1, <1>3 DEF LookupFaultNeedsRace, StopsLate
  <2>1. ListInv
    BY <1>2, <1>3 DEF SymInv, Good
  <2>2. QED
    BY <1>1, <1>2, <2>1, FaultsOfThreads
<1>6. QED
  BY <1>1, <1>4, <1>5, <1>7 DEF SymInv

(* every step of the main thread alone as well, *)
LEMMA SymInvMain ==
    ASSUME SymInv,
           ExtSetLogFunction \/ SymInitialize \/ SymExit \/ ExitEntry
           \/ PauseThread \/ CloseThread \/ ClearEntry
           \/ EndExit \/ FiniCall \/ EndFini
    PROVE  SymInv'
<1>1. BasicInv' /\ TypeOK /\ TypeOK' /\ StopsLate
  BY BasicInvMain DEF SymInv, BasicInv
<1>2. fault = "none"
  BY DEF ExtSetLogFunction, SymInitialize, SymExit, ExitEntry, PauseThread,
     CloseThread, ClearEntry, EndExit, FiniCall, EndFini, At, Running
<1>3. (overlapped => overlapped') /\ slipped' = slipped
  <2>1. CASE SymInitialize
    <3>1. slipped' = slipped /\ overlapped' = (overlapped \/ Inserting # {})
      BY <2>1 DEF SymInitialize
    <3>2. QED
      BY <3>1, Zenon
  <2>2. CASE ~SymInitialize
    <3>1. UNCHANGED <<overlapped, slipped>>
      BY <2>2 DEF ExtSetLogFunction, SymExit, ExitEntry, PauseThread,
         CloseThread, ClearEntry, EndExit, FiniCall, EndFini, Fault, history
    <3>2. QED
      BY <3>1
  <2>3. QED
    BY <2>1, <2>2
<1>7. Good' => ListInv /\ StopInv
  BY <1>2, <1>3 DEF SymInv, Good
<1>8. Good' => StopInv'
  BY <1>1, <1>7, StopInvMain DEF Good
<1>4. Good' => ListInv'
  <2> SUFFICES ASSUME ~overlapped', ~slipped', fault' = "none" PROVE ListInv'
    BY DEF Good
  <2>1. ListInv /\ StopInv
    BY <1>7 DEF Good
  <2>2. CASE FiniCall \/ EndFini \/ ExtSetLogFunction
    BY <1>1, <2>1, <2>2, ListInvFini
  <2>3. CASE SymInitialize
    BY <1>1, <2>1, <2>3, ListInvInitialize
  <2>4. CASE SymExit
    BY <1>1, <2>1, <2>4, ListInvSymExit
  <2>5. CASE ExitEntry \/ PauseThread \/ CloseThread
    BY <1>1, <2>1, <2>5, ListInvExitEntry
  <2>9. CASE ClearEntry
    BY <1>1, <2>1, <2>9, ListInvClear
  <2>6. CASE EndExit
    BY <1>1, <2>1, <2>6, ListInvEndExit
  <2>7. QED
    BY <2>2, <2>3, <2>4, <2>5, <2>6, <2>9
<1>5. LookupFaultNeedsRace'
  <2> SUFFICES ASSUME fault' \in LookupFaults, ~overlapped', ~slipped
               PROVE  exits' > 0
    BY <1>1, <1>3 DEF LookupFaultNeedsRace, BasicInv, StopsLate
  <2>1. ListInv
    BY <1>2, <1>3 DEF SymInv, Good
  <2>2. fault' # fault
    BY <1>2 DEF LookupFaults
  <2>3. SymExit \/ ExitEntry
    BY <2>2 DEF ExtSetLogFunction, SymInitialize, PauseThread, CloseThread,
       ClearEntry, EndExit, FiniCall, EndFini
  <2>4. exits \in Nat
    BY <1>1, SizesAssumption DEF TypeOK
  <2>5. CASE SymExit
    BY <2>4, <2>5 DEF SymExit
  <2>6. CASE ExitEntry
    <3>1. pc[Main] = "exit" /\ exits' = exits
      BY <2>6 DEF ExitEntry, At, Fault, history
    <3>2. QED
      BY <2>1, <2>4, <3>1 DEF ListInv, FirstInv, Exiting
  <2>7. QED
    BY <2>3, <2>5, <2>6
<1>6. QED
  BY <1>1, <1>4, <1>5, <1>8 DEF SymInv

(* and so it always holds. *)
LEMMA SymInvInductive == Spec => []SymInv
<1>1. Init => SymInv
  <2>1. Init => StopInv
    BY MainIsAThread DEF Init, StopInv, Exiting
  <2>2. QED
    BY <2>1, BasicInvInit, ListInvInit DEF SymInv, Init, LookupFaultNeedsRace,
       LookupFaults
<1>2. SymInv /\ [Next]_vars => SymInv'
  <2> SUFFICES ASSUME SymInv, [Next]_vars PROVE SymInv'
    OBVIOUS
  <2>1. CASE \E t \in Threads : Call(t) \/ ThreadStep(t) \/ EndThread(t)
    BY <2>1, SymInvThread
  <2>2. CASE ExtSetLogFunction \/ SymInitialize \/ SymExit \/ ExitEntry
             \/ PauseThread \/ CloseThread \/ ClearEntry
             \/ EndExit \/ FiniCall \/ EndFini
    BY <2>2, SymInvMain
  <2>3. CASE UNCHANGED vars
    <3> USE <2>3 DEF vars, listVars, threadVars, stopVars, logVars, history
    <3>1. TypeOK'
      BY DEF SymInv, BasicInv, TypeOK
    <3>2. UpInv' /\ NullInv' /\ NullFault' /\ StopsLate' /\ LookupFaultNeedsRace'
      BY DEF SymInv, BasicInv, UpInv, NullInv, NullFault, StopsLate, Adding,
         LookupFaultNeedsRace
    <3>9. StopInv => StopInv'
      BY DEF StopInv, Runs
    <3>3. InsertInv => InsertInv'
      BY DEF InsertInv, Inserting, Adding
    <3>4. PlaceInv => PlaceInv'
      BY DEF PlaceInv, OnePlace, CreatedFirst, HasPlace, Inserting, Adding,
         Registered
    <3>5. ExitInv => ExitInv'
      BY DEF ExitInv
    <3>6. FirstInv => FirstInv'
      BY DEF FirstInv, NoHoles, MainFirst, MainAdded, WalkInv, Adding
    <3>7. (Good => ListInv /\ StopInv) => (Good' => ListInv' /\ StopInv')
      BY <3>3, <3>4, <3>5, <3>6, <3>9 DEF Good, ListInv
    <3>8. QED
      BY <3>1, <3>2, <3>7 DEF SymInv, BasicInv
  <2>4. QED
    BY <2>1, <2>2, <2>3 DEF Next, Crashed
<1>3. QED
  BY <1>1, <1>2, PTL DEF Spec
-----------------------------------------------------------------------------
(* The state of the layer and of its threads stays in its types, that of   *)
(* the list included (sym-impl.c, 29-105 and 580-600).                     *)
THEOREM ThreadsTypeCorrect == Spec => []TypeOK
<1>1. SymInv => TypeOK
  BY DEF SymInv, BasicInv
<1>2. QED
  BY <1>1, SymInvInductive, PTL

(* While no two threads insert at once and symExit has not run, no lookup  *)
(* of the calling thread meets a bad entry or fails (sym-impl.c, 46-87).   *)
THEOREM ThreadsLookupFaultNeedsRace == Spec => []LookupFaultNeedsRace
<1>1. SymInv => LookupFaultNeedsRace
  BY DEF SymInv
<1>2. QED
  BY <1>1, SymInvInductive, PTL

(* A thread that can run has exactly one entry of the list, whatever the   *)
(* order of the two stores of an insertion, until symExit begins, and      *)
(* unless it slipped past an earlier one (sym-impl.c, 46-51).              *)
THEOREM ThreadsListedOnce == Spec => []ListedOnce
<1>1. SymInv => ListedOnce
  <2> SUFFICES ASSUME SymInv, ~overlapped, ~slipped, NEW w \in Workers, Runs(w),
                      fault = "none"
               PROVE  Cardinality({i \in 0 .. count - 1 : list[i] = w}) = 1
    BY DEF ListedOnce
  <2>1. TypeOK /\ ListInv
    BY DEF SymInv, BasicInv, Good
  <2>2. w \notin paused /\ pc[w] \notin {"none", "creating", "created", "ended"}
    BY DEF Runs
  <2>3. PICK i \in 0 .. count - 1 : i \in Places /\ list[i] = w
    BY <2>1, <2>2, PlaceOfRunner
  <2>4. \A j \in 0 .. count - 1 : j \in Places
    BY <2>1, SizesAssumption DEF TypeOK, ListInv, InsertInv, Places
  <2>5. {j \in 0 .. count - 1 : list[j] = w} = {i}
    BY <2>1, <2>3, <2>4 DEF ListInv, PlaceInv, OnePlace
  <2>6. QED
    BY <2>5, FS_Singleton
<1>2. QED
  BY <1>1, SymInvInductive, PTL

(* When symExit is done no thread of the modules runs, though they may     *)
(* have created and started threads while it walked: unless insertions     *)
(* overlapped, or a thread was started between the pause symExit tried on  *)
(* it and the close of its handle (sym-impl.c, 757-770).                   *)
THEOREM ThreadsNoneRunsAfterExit == Spec => []NoneRunsAfterExit
<1>1. SymInv => NoneRunsAfterExit
  <2> SUFFICES ASSUME SymInv, pc[Main] \in {"fini", "down"}, fault = "none",
                      ~overlapped, ~slipped, NEW w \in Workers, Runs(w)
               PROVE  FALSE
    BY DEF NoneRunsAfterExit
  <2>1. TypeOK /\ ListInv
    BY DEF SymInv, BasicInv, Good
  <2>2. w \notin paused /\ pc[w] \notin {"none", "creating", "created", "ended"}
    BY DEF Runs
  <2>3. PICK i \in 0 .. count - 1 : list[i] = w
    BY <2>1, <2>2, PlaceOfRunner
  <2>4. count = 0
    BY <2>1 DEF ListInv, ExitInv
  <2>5. QED
    BY <2>3, <2>4
<1>2. QED
  BY <1>1, SymInvInductive, PTL
-----------------------------------------------------------------------------
(***************************************************************************)
(* The log mutex: who holds it is inside extLogf, and on the way out.  The *)
(* only threads whose place somebody else changes are those being created, *)
(* each by the one thread that adds it to the list.                        *)
(***************************************************************************)
InLog == {"check", "call"}
HolderIsInside == \A t \in Threads : pc[t] \in InLog <=> logMutex = t
OneCreator ==
    /\ \A t \in Threads : Adding(t) =>
          target[t] \in Threads /\ (pc[target[t]] = "creating" \/ target[t] = t)
    /\ \A t, u \in Threads :
          Adding(t) /\ Adding(u) /\ target[t] = target[u] => t = u
LogInv == TypeOK /\ HolderIsInside /\ OneCreator

(* A step outside extLogf: one thread goes on, the holder stays.           *)
Outside ==
    /\ logMutex' = logMutex
    /\ \A t \in Threads : pc[t] \in InLog \/ pc'[t] \in InLog => pc'[t] = pc[t]

LEMMA MoveOutside ==
    ASSUME LogInv, NEW t \in Threads, NEW where,
           pc[t] \notin InLog \cup {"creating"}, where \notin InLog,
           where \in {"full?", "read", "store"} => Adding(t),
           Goto(t, where), UNCHANGED <<target, logMutex>>
    PROVE  Outside /\ HolderIsInside' /\ OneCreator'
<1>1. \A u \in Threads : pc'[u] = IF u = t THEN where ELSE pc[u]
  BY DEF Goto, LogInv, TypeOK
<1>2. \A u \in Threads : Adding(u)' => Adding(u)
  BY <1>1 DEF Adding
<1>3. \A u \in Threads : pc[u] = "creating" => pc'[u] = "creating"
  BY <1>1
<1>4. Outside /\ HolderIsInside'
  BY <1>1 DEF LogInv, Outside, HolderIsInside
<1>5. OneCreator'
  BY <1>2, <1>3 DEF LogInv, OneCreator
<1>6. QED
  BY <1>4, <1>5

LEMMA StayOutside ==
    ASSUME LogInv, UNCHANGED <<pc, target, logMutex>>
    PROVE  Outside /\ HolderIsInside' /\ OneCreator'
BY DEF LogInv, Outside, HolderIsInside, OneCreator, Adding

(* Inside, the thread goes from the test to the call, or out.              *)
LEMMA LogStep ==
    ASSUME LogInv, NEW t \in Threads,
           LockLog(t) \/ SkipLog(t) \/ FormatLog(t) \/ CallLogFn(t)
    PROVE  /\ HolderIsInside' /\ OneCreator'
           /\ \A u \in Threads \ {t} : logMutex # u
           /\ \/ logMutex = NULL
              \/ logMutex' = NULL \/ fault' # "none"
              \/ logMutex' = t /\ pc[t] = "check" /\ pc'[t] = "call"
<1> USE MainIsAThread, ThreadsAssumption DEF LogInv, TypeOK, Threads, At
<1>1. \/ /\ LockLog(t)
         /\ logMutex = NULL /\ logMutex' = t /\ pc[t] = "lock"
         /\ pc' = [pc EXCEPT ![t] = "check"]
      \/ /\ SkipLog(t) \/ CallLogFn(t)
         /\ logMutex' = NULL /\ pc[t] \in InLog
         /\ pc' = [pc EXCEPT ![t] = "act"]
      \/ /\ FormatLog(t)
         /\ logMutex' = logMutex /\ pc[t] = "check"
         /\ pc' = [pc EXCEPT ![t] = "call"]
      \/ /\ CallLogFn(t) /\ fault' # "none" /\ pc[t] = "call"
         /\ UNCHANGED <<logMutex, pc>>
  BY DEF LockLog, SkipLog, FormatLog, CallLogFn, Fault, UnlockLog, Goto,
     InLog, logVars, threadVars
<1>2. target' = target
  BY DEF LockLog, SkipLog, FormatLog, CallLogFn, Fault, threadVars
<1>3. \A u \in Threads : u # t => pc'[u] = pc[u]
  BY <1>1
<1>4. \/ pc'[t] = pc[t]
      \/ pc[t] # "creating" /\ pc'[t] \notin {"full?", "read", "store"}
  BY <1>1 DEF InLog
<1>5. OneCreator'
  BY <1>2, <1>3, <1>4 DEF OneCreator, Adding
<1>6. HolderIsInside' /\ \A u \in Threads \ {t} : logMutex # u
  BY <1>1, <1>3 DEF HolderIsInside, InLog
<1>7. QED
  BY <1>1, <1>5, <1>6 DEF HolderIsInside

LEMMA CreateOutside ==
    ASSUME LogInv, NEW t \in Threads, CreateThread(t)
    PROVE  Outside /\ HolderIsInside' /\ OneCreator'
<1> USE DEF LogInv, TypeOK, InLog
<1>1. PICK w \in Workers :
         /\ pc[w] = "none" /\ pc[t] = "act" /\ w \in Threads
         /\ pc' = [pc EXCEPT ![t] = "full?", ![w] = "creating"]
         /\ target' = [target EXCEPT ![t] = w] /\ logMutex' = logMutex
  BY DEF CreateThread, At, WhileInserted, Threads, logVars
<1>2. \A u \in Threads : pc'[u] = IF u = w THEN "creating"
                                  ELSE IF u = t THEN "full?" ELSE pc[u]
  BY <1>1
<1>3. \A u \in Threads : target'[u] = IF u = t THEN w ELSE target[u]
  BY <1>1
<1>4. \A u \in Threads : Adding(u)' => u = t \/ (Adding(u) /\ target[u] # w)
  BY <1>1, <1>2 DEF Adding, OneCreator
<1>5. Outside /\ HolderIsInside'
  BY <1>1, <1>2 DEF Outside, HolderIsInside
<1>6. OneCreator'
  <2>1. ASSUME NEW u \in Threads, Adding(u)'
        PROVE  target'[u] \in Threads /\ (pc'[target'[u]] = "creating" \/ target'[u] = u)
    <3>1. CASE u = t
      BY <1>1, <1>2, <1>3, <3>1
    <3>2. CASE u # t
      <4>1. Adding(u) /\ target'[u] = target[u] /\ target[u] \in Threads
        BY <1>3, <1>4, <2>1, <3>2 DEF OneCreator
      <4>2. pc[target[u]] = "creating" \/ target[u] = u
        BY <4>1 DEF OneCreator
      <4>3. pc[target[u]] = "creating" => target[u] # t
        BY <1>1
      <4>4. QED
        BY <1>2, <4>1, <4>2, <4>3
    <3>3. QED
      BY <3>1, <3>2
  <2>2. \A u, v \in Threads :
           Adding(u)' /\ Adding(v)' /\ target'[u] = target'[v] => u = v
    BY <1>3, <1>4 DEF OneCreator
  <2>3. QED
    BY <2>1, <2>2 DEF OneCreator, Adding
<1>7. QED
  BY <1>5, <1>6

LEMMA FinishOutside ==
    ASSUME LogInv, NEW t \in Threads, FinishAllocate(t)
    PROVE  Outside /\ HolderIsInside' /\ OneCreator'
<1> USE DEF LogInv, TypeOK, InLog
<1>1. /\ pc[t] = "store" /\ Adding(t) /\ logMutex' = logMutex
      /\ pc' = [pc EXCEPT ![target[t]] = "created", ![t] = "ready"]
      /\ target' = [target EXCEPT ![t] = NULL]
  BY DEF FinishAllocate, At, Adding, logVars
<1>2. /\ target[t] \in Threads
      /\ pc[target[t]] = "creating" \/ target[t] = t
  BY <1>1 DEF OneCreator
<1>3. \A u \in Threads : pc'[u] = IF u = t THEN "ready"
                                  ELSE IF u = target[t] THEN "created" ELSE pc[u]
  BY <1>1, <1>2
<1>4. \A u \in Threads : Adding(u)' => Adding(u) /\ u # t /\ target'[u] = target[u]
  BY <1>1, <1>3 DEF Adding
<1>5. Outside /\ HolderIsInside'
  BY <1>1, <1>2, <1>3 DEF Outside, HolderIsInside
<1>6. OneCreator'
  <2>1. ASSUME NEW u \in Threads, Adding(u)'
        PROVE  target'[u] \in Threads /\ (pc'[target'[u]] = "creating" \/ target'[u] = u)
    <3>1. /\ Adding(u) /\ target'[u] = target[u] /\ target[u] # target[t]
          /\ target[u] \in Threads
      BY <1>1, <1>4, <2>1 DEF OneCreator
    <3>2. pc[target[u]] = "creating" \/ target[u] = u
      BY <3>1 DEF OneCreator
    <3>3. pc[target[u]] = "creating" => target[u] # t
      BY <1>1
    <3>4. QED
      BY <1>3, <3>1, <3>2, <3>3
  <2>2. \A u, v \in Threads :
           Adding(u)' /\ Adding(v)' /\ target'[u] = target'[v] => u = v
    BY <1>4 DEF OneCreator
  <2>3. QED
    BY <2>1, <2>2 DEF OneCreator, Adding
<1>7. QED
  BY <1>5, <1>6

LEMMA StartOutside ==
    ASSUME LogInv, NEW t \in Threads, StartThread(t)
    PROVE  Outside /\ HolderIsInside' /\ OneCreator'
<1> USE DEF LogInv, TypeOK, InLog
<1>1. pc[t] = "act" /\ UNCHANGED <<target, logMutex>>
  BY DEF StartThread, At, logVars
<1>2. CASE Goto(t, "find")
  BY <1>1, <1>2, MoveOutside
<1>3. CASE \E w \in Workers \ closed :
             /\ pc[w] = "created"
             /\ pc' = [pc EXCEPT ![t] = "find", ![w] = "ready"]
  <2>1. PICK w \in Threads :
           /\ pc[w] = "created"
           /\ pc' = [pc EXCEPT ![t] = "find", ![w] = "ready"]
    BY <1>3 DEF Threads
  <2>2. \A u \in Threads : \/ pc'[u] = pc[u] /\ u # t /\ u # w
                           \/ u \in {t, w} /\ pc[u] \in {"act", "created"}
                              /\ pc'[u] \in {"find", "ready"}
    BY <1>1, <2>1
  <2>3. Outside /\ HolderIsInside'
    BY <1>1, <2>2 DEF Outside, HolderIsInside
  <2>4. \A u \in Threads : Adding(u)' => Adding(u)
    BY <2>2 DEF Adding
  <2>5. \A u \in Threads : pc[u] = "creating" => pc'[u] = "creating"
    BY <2>2
  <2>6. OneCreator'
    BY <1>1, <2>4, <2>5 DEF OneCreator
  <2>7. QED
    BY <2>3, <2>6
<1>4. QED
  BY <1>2, <1>3 DEF StartThread

LEMMA ThreadOutside ==
    ASSUME LogInv, NEW t \in Threads, Call(t) \/ ThreadStep(t) \/ EndThread(t),
           ~(LockLog(t) \/ SkipLog(t) \/ FormatLog(t) \/ CallLogFn(t))
    PROVE  /\ Outside /\ HolderIsInside' /\ OneCreator'
           /\ pc[t] \notin InLog
<1> USE DEF At, InLog, Adding
<1>1. CASE Call(t)
  BY <1>1, MoveOutside DEF Call, logVars
<1>2. CASE FindEntry(t)
  BY <1>2, MoveOutside, StayOutside DEF FindEntry, Fault, logVars, threadVars
<1>3. CASE FindFails(t)
  BY <1>3, MoveOutside DEF FindFails, logVars
<1>4. CASE Return(t) \/ CreateFails(t)
  BY <1>4, MoveOutside DEF Return, CreateFails, logVars
<1>5. CASE Abort(t)
  BY <1>5, StayOutside DEF Abort, Fault, logVars, threadVars
<1>6. CASE TestFull(t)
  BY <1>6, MoveOutside DEF TestFull, logVars
<1>7. CASE ReadCount(t)
  BY <1>7, MoveOutside DEF ReadCount, logVars
<1>8. CASE StoreCount(t)
  BY <1>8, StayOutside DEF StoreCount, logVars
<1>9. CASE StoreEntry(t)
  BY <1>9, StayOutside DEF StoreEntry, Fault, logVars, threadVars
<1>10. CASE EndThread(t)
  BY <1>10, MoveOutside DEF EndThread, logVars
<1>11. CASE StartThread(t)
  BY <1>11, StartOutside DEF StartThread
<1>12. CASE CreateThread(t)
  BY <1>12, CreateOutside DEF CreateThread
<1>13. CASE FinishAllocate(t)
  BY <1>13, FinishOutside DEF FinishAllocate
<1>14. QED
  BY <1>1, <1>2, <1>3, <1>4, <1>5, <1>6, <1>7, <1>8, <1>9, <1>10, <1>11,
     <1>12, <1>13 DEF ThreadStep

LEMMA MainOutside ==
    ASSUME LogInv,
           \/ ExtSetLogFunction \/ SymInitialize \/ SymExit \/ ExitEntry
           \/ PauseThread \/ CloseThread \/ ClearEntry
           \/ EndExit \/ FiniCall \/ EndFini \/ Crashed
    PROVE  Outside /\ HolderIsInside' /\ OneCreator'
<1> USE MainIsAThread DEF At, InLog, Adding
<1>1. CASE ExtSetLogFunction
  BY <1>1, StayOutside DEF ExtSetLogFunction, threadVars
<1>2. CASE SymInitialize
  <2> USE DEF LogInv, TypeOK
  <2>1. /\ pc[Main] = "down" /\ logMutex' = logMutex
        /\ pc' = [pc EXCEPT ![Main] = "full?"]
        /\ target' = [target EXCEPT ![Main] = Main]
    BY <1>2 DEF SymInitialize, Goto, logVars
  <2>2. \A u \in Threads :
           /\ pc'[u] = IF u = Main THEN "full?" ELSE pc[u]
           /\ target'[u] = IF u = Main THEN Main ELSE target[u]
    BY <2>1
  <2>3. \A u \in Threads : Adding(u) => u # Main /\ target[u] # Main
    BY <2>1 DEF OneCreator
  <2>4. Outside /\ HolderIsInside'
    BY <2>1, <2>2 DEF Outside, HolderIsInside
  <2>5. OneCreator'
    BY <2>2, <2>3 DEF OneCreator
  <2>6. QED
    BY <2>4, <2>5
<1>3. CASE SymExit
  BY <1>3, MoveOutside DEF SymExit, logVars
<1>4. CASE ExitEntry \/ PauseThread \/ CloseThread \/ ClearEntry
  <2>1. CASE UNCHANGED <<pc, target, logMutex>>
    BY <2>1, StayOutside
  <2>2. CASE pc' # pc \/ target' # target \/ logMutex' # logMutex
    <3> USE DEF LogInv, TypeOK
    <3>1. /\ pc[Main] \in Exiting /\ logMutex' = logMutex
          /\ \E p \in Exiting : pc' = [pc EXCEPT ![Main] = p]
          /\ target' = target \/ \E e : target' = [target EXCEPT ![Main] = e]
      BY <1>4, <2>2 DEF ExitEntry, PauseThread, CloseThread, ClearEntry, Fault,
         Goto, Exiting, logVars, threadVars
    <3>2. /\ pc'[Main] \in Exiting
          /\ \A u \in Threads \ {Main} : pc'[u] = pc[u] /\ target'[u] = target[u]
      BY <3>1
    <3>3. Outside /\ HolderIsInside'
      BY <3>1, <3>2 DEF Outside, HolderIsInside, Exiting
    <3>4. \A u \in Threads : Adding(u)' => u # Main /\ Adding(u)
      BY <3>2 DEF Exiting
    <3>5. \A u \in Threads : pc[u] = "creating" => pc'[u] = "creating"
      BY <3>1, <3>2 DEF Exiting
    <3>6. OneCreator'
      BY <3>2, <3>4, <3>5 DEF OneCreator
    <3>7. QED
      BY <3>3, <3>6
  <2>3. QED
    BY <2>1, <2>2
<1>5. CASE EndExit \/ EndFini
  BY <1>5, MoveOutside DEF EndExit, EndFini, logVars
<1>6. CASE FiniCall
  BY <1>6, MoveOutside DEF FiniCall, logVars
<1>7. CASE Crashed
  BY <1>7, StayOutside DEF Crashed, vars, threadVars, logVars
<1>8. QED
  BY <1>1, <1>2, <1>3, <1>4, <1>5, <1>6, <1>7

LEMMA LogInvInductive == Spec => []LogInv
<1>1. Init => HolderIsInside /\ OneCreator
  BY MainIsAThread, ThreadsAssumption
     DEF Init, HolderIsInside, OneCreator, InLog, Adding, Threads
<1>2. LogInv /\ [Next]_vars => (HolderIsInside /\ OneCreator)'
  <2> SUFFICES ASSUME LogInv, [Next]_vars
               PROVE  (HolderIsInside /\ OneCreator)'
    OBVIOUS
  <2>1. CASE UNCHANGED vars
    BY <2>1, StayOutside DEF vars, threadVars, logVars
  <2>2. ASSUME NEW t \in Threads, Call(t) \/ ThreadStep(t) \/ EndThread(t)
        PROVE  (HolderIsInside /\ OneCreator)'
    BY <2>2, LogStep, ThreadOutside
  <2>3. QED
    BY <2>1, <2>2, MainOutside DEF Next
<1>3. QED
  BY <1>1, <1>2, ThreadsTypeCorrect, PTL DEF Spec, LogInv

(* The mutex of the log is held exactly by the thread inside extLogf: no   *)
(* path leaves it locked behind (ext.c, 12-34).                            *)
THEOREM ThreadsLogHeldInside == Spec => []HolderIsInside
<1>1. LogInv => HolderIsInside
  BY DEF LogInv
<1>2. QED
  BY <1>1, LogInvInductive, PTL

(* A NULL log function is called only by a thread that had tested it, and  *)
(* not called it yet, when somebody unset it: that thread holds the mutex  *)
(* (ext.c, 8-34).                                                          *)
THEOREM ThreadsNullLogNeedsReset == Spec => []NullLogNeedsReset
<1>1. SymInv /\ LogInv => NullLogNeedsReset
  <2> SUFFICES ASSUME SymInv, LogInv, fault = "null_log"
               PROVE  logMutex \in stale
    BY DEF NullLogNeedsReset
  <2>1. PICK t \in stale : pc[t] = "call"
    BY DEF SymInv, BasicInv, NullFault
  <2>2. logMutex = t
    BY <2>1 DEF LogInv, TypeOK, HolderIsInside, InLog
  <2>3. QED
    BY <2>1, <2>2
<1>2. QED
  BY <1>1, SymInvInductive, LogInvInductive, PTL

(* Nobody takes the mutex from its holder, whom only a step of its own     *)
(* moves on: from the test to the call of the log function, out of         *)
(* extLogf, or to the end of the process (ext.c, 12-34).                   *)
HolderMovesOn ==
    \A t \in Threads : logMutex = t =>
        \/ logMutex' = NULL
        \/ fault' # "none"
        \/ logMutex' = t /\ pc[t] = "check" /\ pc'[t] = "call"
        \/ logMutex' = t /\ pc'[t] = pc[t] /\ ~ThreadStep(t)
THEOREM ThreadsHolderMovesOn == Spec => [][HolderMovesOn]_vars
<1>1. LogInv /\ [Next]_vars => [HolderMovesOn]_vars
  <2> SUFFICES ASSUME LogInv, Next, NEW t \in Threads, logMutex = t
               PROVE  \/ logMutex' = NULL
                      \/ fault' # "none"
                      \/ logMutex' = t /\ pc[t] = "check" /\ pc'[t] = "call"
                      \/ logMutex' = t /\ pc'[t] = pc[t] /\ ~ThreadStep(t)
    BY DEF HolderMovesOn
  <2>1. pc[t] \in InLog /\ t # NULL
    BY ThreadsAssumption DEF LogInv, HolderIsInside, Threads
  <2>2. ThreadStep(t) => SkipLog(t) \/ FormatLog(t) \/ CallLogFn(t)
    BY <2>1, ThreadOutside DEF LockLog, At, InLog
  <2>3. CASE ThreadStep(t)
    BY <2>1, <2>2, <2>3, LogStep
  <2>4. CASE ~ThreadStep(t)
    <3>1. Outside => logMutex' = t /\ pc'[t] = pc[t]
      BY <2>1 DEF Outside
    <3>2. ASSUME NEW u \in Threads, Call(u) \/ ThreadStep(u) \/ EndThread(u)
          PROVE  Outside
      BY <2>4, <3>2, LogStep, ThreadOutside DEF ThreadStep
    <3>3. QED
      BY <2>4, <3>1, <3>2, MainOutside DEF Next
  <2>5. QED
    BY <2>3, <2>4
<1>2. QED
  BY <1>1, LogInvInductive, PTL DEF Spec
=============================================================================
