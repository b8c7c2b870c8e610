---------------------------- MODULE IpcExtProofs ----------------------------
(***************************************************************************)
(* Theorems about the parts of libnx-ipcext, NcmExt, AmsSu and NsExt, for  *)
(* any threads and any number of handles, sessions, places and languages.  *)
(***************************************************************************)
EXTENDS NcmExt, AmsSu, NsExt, FiniteSetTheorems, TLAPS

(***************************************************************************)
(* ams:su.  Handles are never used twice, so that what is created now is   *)
(* none of those given away or kept in a slot.  A thread in a setup is a   *)
(* user, so the last user never leaves under it; while setups do not       *)
(* overlap there is only one, and the global holds what it created; and    *)
(* once there is none, and nothing was given, the global holds nothing     *)
(* that is open.                                                           *)
(***************************************************************************)
HandlesFresh ==
    /\ tmem < nextHandle
    /\ given \subseteq 1 .. nextHandle - 1
    /\ opened \subseteq 1 .. nextHandle - 1
    /\ \A t \in Threads : slot[t] < nextHandle
    /\ \A t \in Threads : slot[t] # 0 => slot[t] \notin given \cup {tmem}
UsersInSetup == \A t \in Threads : InSetup(t) => t \in holds
OneSetup ==
    ~overlapped =>
        /\ \A t, u \in Threads : InSetup(t) /\ InSetup(u) => t = u
        /\ \A t \in Threads : InSetup(t) => tmem = mine[t]
        /\ \A t \in Threads : InSetup(t) => tmem \in opened \ given
NothingKept ==
    ~again /\ given = {} /\ (\A t \in Threads : ~InSetup(t)) =>
        tmem \notin opened

RequestZeroed == \A t \in Threads : command[t] = "request" => slot[t] = 0

AmsSuInv ==
    /\ AmsSuTypeOK /\ HandlesFresh /\ RequestZeroed
    /\ UsersInSetup /\ OneSetup /\ NothingKept
    /\ SetupSendsItsOwn /\ GivenStaysOpen /\ LostOnlyOnReuse
-----------------------------------------------------------------------------
LEMMA AmsSuInvInit == AmsSuInit => AmsSuInv
<1> SUFFICES ASSUME AmsSuInit PROVE AmsSuInv
  OBVIOUS
<1> USE MaxHandleAssumption DEF AmsSuInit
<1>1. session = (holds # {})
  BY Zenon
<1>2. AmsSuTypeOK
  <2>1. holds \subseteq Threads /\ opened \subseteq 1 .. MaxHandle
        /\ given \subseteq 1 .. MaxHandle
    OBVIOUS
  <2>2. tmem \in 0 .. MaxHandle /\ nextHandle \in 1 .. MaxHandle + 1
    OBVIOUS
  <2>3. slot \in [Threads -> 0 .. MaxHandle]
        /\ mine \in [Threads -> 0 .. MaxHandle]
    OBVIOUS
  <2>4. command \in [Threads -> {"idle", "answer", "send", "close", "request"}]
    OBVIOUS
  <2>5. overlapped \in BOOLEAN /\ again \in BOOLEAN /\ foreign \in BOOLEAN
    OBVIOUS
  <2>6. QED
    BY ONLY <1>1, <2>1, <2>2, <2>3, <2>4, <2>5, Zenon DEF AmsSuTypeOK
<1>3. HandlesFresh /\ RequestZeroed
  BY DEF HandlesFresh, RequestZeroed
<1>4. UsersInSetup /\ OneSetup /\ NothingKept
  BY DEF UsersInSetup, OneSetup, NothingKept, InSetup
<1>5. SetupSendsItsOwn /\ GivenStaysOpen /\ LostOnlyOnReuse
  BY DEF SetupSendsItsOwn, GivenStaysOpen, LostOnlyOnReuse
<1>6. QED
  BY <1>2, <1>3, <1>4, <1>5 DEF AmsSuInv

(* The steps that touch neither a handle nor a setup. *)
LEMMA AmsSuInvUser ==
    ASSUME AmsSuInv, NEW t \in Threads,
           AmssuInitialize(t) \/ Command(t) \/ CommandReturns(t)
    PROVE  AmsSuInv'
<1> USE DEF AmsSuInv, AmsSuTypeOK, AmssuInitialize, Command, CommandReturns,
            CommandGoesTo, NoCommand, handles, amssuHistory
<1>1. AmsSuTypeOK' /\ HandlesFresh'
  BY DEF HandlesFresh
<1>2. \A u \in Threads : InSetup(u)' <=> InSetup(u)
  BY DEF InSetup
<1>3. QED
  BY <1>1, <1>2 DEF RequestZeroed, UsersInSetup, OneSetup, NothingKept,
                    SetupSendsItsOwn, GivenStaysOpen, LostOnlyOnReuse

LEMMA AmsSuInvExit ==
    ASSUME AmsSuInv, NEW t \in Threads, AmssuExit(t)
    PROVE  AmsSuInv'
<1> USE DEF AmsSuInv, AmsSuTypeOK, AmssuExit, NoCommand, LastUser, CleanedUp
<1>1. \A u \in Threads : InSetup(u)' <=> InSetup(u)
  BY DEF InSetup
<1>2. ~InSetup(t)
  BY DEF InSetup
<1>3. CASE holds = {t}
  <2>1. \A u \in Threads : ~InSetup(u)
    BY <1>2, <1>3 DEF UsersInSetup
  <2>2. holds' = {} /\ session' = FALSE
    BY <1>3
  <2>3. session' = (holds' # {})
    BY <2>2, Zenon
  <2>4. AmsSuTypeOK'
    <3>1. tmem' = 0 /\ given' = {} /\ opened' \subseteq opened
      BY <1>3
    <3>2. UNCHANGED <<slot, nextHandle, command, mine, overlapped, again,
                      foreign>>
      OBVIOUS
    <3>3. holds' \subseteq Threads /\ opened' \subseteq 1 .. MaxHandle
          /\ given' \subseteq 1 .. MaxHandle
      BY <2>2, <3>1
    <3>4. tmem' \in 0 .. MaxHandle
      BY <3>1, MaxHandleAssumption
    <3>5. slot' \in [Threads -> 0 .. MaxHandle]
          /\ mine' \in [Threads -> 0 .. MaxHandle]
      BY <3>2
    <3>6. nextHandle' \in 1 .. MaxHandle + 1
          /\ command' \in [Threads -> {"idle", "answer", "send", "close",
                                       "request"}]
      BY <3>2
    <3>7. overlapped' \in BOOLEAN /\ again' \in BOOLEAN /\ foreign' \in BOOLEAN
      BY <3>2
    <3>8. QED
      BY ONLY <2>3, <3>3, <3>4, <3>5, <3>6, <3>7, Zenon DEF AmsSuTypeOK
  <2>5. HandlesFresh'
    <3>1. tmem' = 0 /\ given' = {} /\ opened' \subseteq opened
          /\ slot' = slot /\ nextHandle' = nextHandle
      BY <1>3
    <3>2. \A u \in Threads : slot[u] # 0 => slot[u] \notin {} \cup {0}
      OBVIOUS
    <3>3. 0 < nextHandle
      OBVIOUS
    <3>4. QED
      BY <3>1, <3>2, <3>3 DEF HandlesFresh
  <2>6. tmem' = 0 /\ opened' = opened \ {tmem} /\ 0 \notin opened'
    BY <1>3
  <2>7. NothingKept'
    BY <2>6 DEF NothingKept
  <2>8. LostOnlyOnReuse'
    BY <2>6 DEF LostOnlyOnReuse
  <2>9. QED
    BY <1>1, <1>3, <2>1, <2>4, <2>5, <2>7, <2>8
       DEF UsersInSetup, OneSetup, SetupSendsItsOwn, GivenStaysOpen,
           RequestZeroed
<1>4. CASE holds # {t}
  <2>1. AmsSuTypeOK' /\ HandlesFresh'
    BY <1>4 DEF HandlesFresh
  <2>2. UsersInSetup'
    BY <1>1, <1>2, <1>4 DEF UsersInSetup
  <2>3. QED
    BY <1>1, <1>4, <2>1, <2>2
       DEF RequestZeroed, OneSetup, NothingKept, SetupSendsItsOwn,
           GivenStaysOpen, LostOnlyOnReuse
<1>5. QED
  BY <1>3, <1>4

LEMMA AmsSuInvCreates ==
    ASSUME AmsSuInv, NEW t \in Threads, SetupCreates(t)
    PROVE  AmsSuInv'
<1> USE MaxHandleAssumption
    DEF AmsSuInv, AmsSuTypeOK, SetupCreates, NoCommand, CommandGoesTo
<1>1. \A u \in Threads \ {t} : InSetup(u)' <=> InSetup(u)
  BY DEF InSetup
<1>2. ~InSetup(t) /\ RequestZeroed' /\ UsersInSetup' /\ SetupSendsItsOwn'
  BY <1>1 DEF InSetup, RequestZeroed, UsersInSetup, SetupSendsItsOwn,
              AfterCreateFailure
<1>3. ~overlapped' => ~overlapped /\ \A u \in Threads : ~InSetup(u)
  OBVIOUS
<1>4. ~again' => /\ ~again /\ given = {}
                 /\ \A u \in Threads : ~InSetup(u)
  OBVIOUS
<1>5. CASE tmem' = nextHandle /\ nextHandle <= MaxHandle
           /\ opened' = opened \cup {nextHandle}
           /\ nextHandle' = nextHandle + 1
           /\ mine' = [mine EXCEPT ![t] = nextHandle]
           /\ command' = [command EXCEPT ![t] = "send"]
  <2>1. AmsSuTypeOK' /\ HandlesFresh'
    BY <1>5 DEF HandlesFresh
  <2>2. OneSetup'
    BY <1>1, <1>3, <1>5 DEF OneSetup, HandlesFresh, InSetup
  <2>3. NothingKept'
    BY <1>5 DEF NothingKept, InSetup
  <2>4. GivenStaysOpen'
    BY <1>3, <1>5 DEF GivenStaysOpen
  <2>5. LostOnlyOnReuse'
    BY <1>4, <1>5 DEF LostOnlyOnReuse, NothingKept
  <2>6. QED
    BY <1>2, <2>1, <2>2, <2>3, <2>4, <2>5
<1>6. CASE tmem' \in {tmem, 0} /\ mine' = [mine EXCEPT ![t] = 0]
           /\ command' = [command EXCEPT ![t] = "idle"]
           /\ UNCHANGED <<opened, nextHandle>>
  <2>1. AmsSuTypeOK' /\ HandlesFresh'
    BY <1>6 DEF HandlesFresh
  <2>2. ~InSetup(t)'
    BY <1>6 DEF InSetup
  <2>3. OneSetup'
    BY <1>1, <1>3, <2>2 DEF OneSetup
  <2>4. NothingKept' /\ LostOnlyOnReuse'
    BY <1>4, <1>6, <2>1 DEF NothingKept, LostOnlyOnReuse, HandlesFresh
  <2>5. GivenStaysOpen'
    BY <1>3, <1>6 DEF GivenStaysOpen
  <2>6. QED
    BY <1>2, <2>1, <2>3, <2>4, <2>5
<1>7. QED
  BY <1>5, <1>6 DEF AfterCreateFailure

LEMMA AmsSuInvSends ==
    ASSUME AmsSuInv, NEW t \in Threads, SetupSends(t)
    PROVE  AmsSuInv'
<1> USE DEF AmsSuInv, AmsSuTypeOK, SetupSends, CommandGoesTo, ClosesMemory,
            handles
<1>1. PICK ok \in BOOLEAN :
        /\ ok => tmem # 0
        /\ command' = [command EXCEPT ![t] = IF ok THEN "idle" ELSE "close"]
        /\ given' = IF ok THEN given \cup {tmem} ELSE given
  OBVIOUS
<1>2. InSetup(t) /\ \A u \in Threads \ {t} : InSetup(u)' <=> InSetup(u)
  BY <1>1 DEF InSetup
<1>3. InSetup(t)' => ~ok
  BY <1>1 DEF InSetup
<1>4. AmsSuTypeOK' /\ HandlesFresh'
  BY <1>1 DEF HandlesFresh
<1>5. UsersInSetup' /\ RequestZeroed'
  BY <1>1, <1>2 DEF UsersInSetup, RequestZeroed
<1>6. OneSetup'
  BY <1>1, <1>2, <1>3 DEF OneSetup
<1>7. NothingKept' /\ LostOnlyOnReuse'
  BY <1>1, <1>2 DEF NothingKept, LostOnlyOnReuse, InSetup
<1>8. SetupSendsItsOwn'
  BY <1>2 DEF SetupSendsItsOwn, OneSetup
<1>9. GivenStaysOpen'
  BY <1>1, <1>2 DEF GivenStaysOpen, OneSetup
<1>10. QED
  BY <1>4, <1>5, <1>6, <1>7, <1>8, <1>9

LEMMA AmsSuInvCloses ==
    ASSUME AmsSuInv, NEW t \in Threads, SetupCloses(t)
    PROVE  AmsSuInv'
<1> USE MaxHandleAssumption
    DEF AmsSuInv, AmsSuTypeOK, SetupCloses, CommandGoesTo, amssuHistory
<1>1. InSetup(t) /\ ~InSetup(t)'
      /\ \A u \in Threads \ {t} : InSetup(u)' <=> InSetup(u)
  BY DEF InSetup
<1>2. AmsSuTypeOK' /\ HandlesFresh'
  BY DEF HandlesFresh
<1>3. UsersInSetup' /\ OneSetup'
  BY <1>1 DEF UsersInSetup, OneSetup
<1>4. RequestZeroed' /\ NothingKept' /\ LostOnlyOnReuse' /\ SetupSendsItsOwn'
  BY DEF RequestZeroed, NothingKept, LostOnlyOnReuse, SetupSendsItsOwn
<1>5. GivenStaysOpen'
  BY <1>1 DEF GivenStaysOpen, OneSetup
<1>6. QED
  BY <1>2, <1>3, <1>4, <1>5

LEMMA AmsSuInvResult ==
    ASSUME AmsSuInv, NEW t \in Threads,
           RequestPrepareUpdate(t) \/ RequestReturns(t) \/ AsyncResultClose(t)
    PROVE  AmsSuInv'
<1> USE MaxHandleAssumption
    DEF AmsSuInv, AmsSuTypeOK, NoCommand, CommandGoesTo, amssuHistory
<1>1. \A u \in Threads : InSetup(u)' <=> InSetup(u)
  BY DEF InSetup, RequestPrepareUpdate, RequestReturns, AsyncResultClose
<1>2. CASE RequestPrepareUpdate(t)
  <2>1. AmsSuTypeOK' /\ HandlesFresh'
    BY <1>2 DEF RequestPrepareUpdate, HandlesFresh
  <2>2. LostOnlyOnReuse'
    <3>1. ASSUME ~again', NEW h \in opened, NEW u \in Threads, h = slot[u]
          PROVE  h = slot'[u]
      BY <1>2, <3>1 DEF RequestPrepareUpdate, HandlesFresh
    <3>2. QED
      BY <1>2, <3>1 DEF RequestPrepareUpdate, LostOnlyOnReuse
  <2>3. QED
    BY <1>1, <1>2, <2>1, <2>2
       DEF RequestPrepareUpdate, RequestZeroed, UsersInSetup, OneSetup,
           NothingKept, SetupSendsItsOwn, GivenStaysOpen
<1>3. CASE RequestReturns(t)
  <2>1. CASE UNCHANGED <<slot, opened, nextHandle>>
    <3>1. AmsSuTypeOK' /\ HandlesFresh'
      BY <1>3, <2>1 DEF RequestReturns, HandlesFresh
    <3>2. QED
      BY <1>1, <1>3, <2>1, <3>1
         DEF RequestReturns, RequestZeroed, UsersInSetup, OneSetup, NothingKept,
             SetupSendsItsOwn, GivenStaysOpen, LostOnlyOnReuse
  <2>2. CASE /\ nextHandle <= MaxHandle
             /\ slot' = [slot EXCEPT ![t] = nextHandle]
             /\ opened' = opened \cup {nextHandle}
             /\ nextHandle' = nextHandle + 1
    <3>1. AmsSuTypeOK' /\ HandlesFresh'
      BY <1>3, <2>2 DEF RequestReturns, HandlesFresh
    <3>2. slot[t] = 0
      BY <1>3 DEF RequestReturns, RequestZeroed
    <3>3. QED
      BY <1>1, <1>3, <2>2, <3>1, <3>2
         DEF RequestReturns, RequestZeroed, UsersInSetup, OneSetup, NothingKept,
             SetupSendsItsOwn, GivenStaysOpen, LostOnlyOnReuse, HandlesFresh
  <2>3. QED
    BY <1>3, <2>1, <2>2 DEF RequestReturns
<1>4. CASE AsyncResultClose(t)
  <2>1. AmsSuTypeOK'
    <3>1. slot' \in [Threads -> 0 .. MaxHandle]
          /\ opened' \subseteq 1 .. MaxHandle
      <4>1. slot' = [slot EXCEPT ![t] = 0] /\ opened' \subseteq opened
        BY <1>4 DEF AsyncResultClose
      <4>2. 0 \in 0 .. MaxHandle /\ slot \in [Threads -> 0 .. MaxHandle]
            /\ opened \subseteq 1 .. MaxHandle
        OBVIOUS
      <4>3. QED
        BY ONLY <4>1, <4>2
    <3>2. UNCHANGED <<holds, session, tmem, nextHandle, command, mine, given,
                      overlapped, again, foreign>>
      BY <1>4 DEF AsyncResultClose
    <3>3. session' = (holds' # {})
      BY <3>2
    <3>4. QED
      BY <3>1, <3>2, <3>3
  <2>2. slot' = [slot EXCEPT ![t] = 0] /\ opened' \subseteq opened
        /\ UNCHANGED <<tmem, given, nextHandle>>
    BY <1>4 DEF AsyncResultClose
  <2>3. HandlesFresh'
    BY <2>2 DEF HandlesFresh
  <2>4. OneSetup' /\ GivenStaysOpen'
    BY <1>1, <1>4 DEF AsyncResultClose, OneSetup, GivenStaysOpen, HandlesFresh
  <2>5. QED
    BY <1>1, <1>4, <2>1, <2>3, <2>4
       DEF AsyncResultClose, RequestZeroed, UsersInSetup, NothingKept,
           SetupSendsItsOwn, LostOnlyOnReuse
<1>5. QED
  BY <1>2, <1>3, <1>4

LEMMA AmsSuInvariant == AmsSuSpec => []AmsSuInv
<1>1. AmsSuInv /\ [AmsSuNext]_amssuVars => AmsSuInv'
  <2>1. CASE UNCHANGED amssuVars
    BY <2>1 DEF amssuVars, handles, amssuHistory, AmsSuInv, AmsSuTypeOK,
                HandlesFresh, RequestZeroed, UsersInSetup, OneSetup,
                NothingKept,
                SetupSendsItsOwn, GivenStaysOpen, LostOnlyOnReuse, InSetup
  <2>2. QED
    BY <2>1, AmsSuInvUser, AmsSuInvExit, AmsSuInvCreates, AmsSuInvSends,
       AmsSuInvCloses, AmsSuInvResult DEF AmsSuNext
<1>2. QED
  BY <1>1, AmsSuInvInit, PTL DEF AmsSuSpec

(* A thread whose setup overlaps no other sends the memory it created      *)
(* itself, however many threads use the client (amssu.c, 54-117).          *)
THEOREM AmsSuSetupSendsItsOwn == AmsSuSpec => []SetupSendsItsOwn
BY AmsSuInvariant, PTL DEF AmsSuInv

(* What was given to the service stays open until the last user leaves, if *)
(* setups do not overlap (amssu.c, 14-17, 54-117).                         *)
THEOREM AmsSuGivenStaysOpen == AmsSuSpec => []GivenStaysOpen
BY AmsSuInvariant, PTL DEF AmsSuInv

(* No order of failures loses a handle, unless a setup or an AsyncResult   *)
(* is repeated (amssu.c, 14-17, 54-134).                                   *)
THEOREM AmsSuLostOnlyOnReuse == AmsSuSpec => []LostOnlyOnReuse
BY AmsSuInvariant, PTL DEF AmsSuInv
-----------------------------------------------------------------------------
(***************************************************************************)
(* ncm.  What a call holds follows from where it is, and until it returns  *)
(* it has changed no output.                                               *)
(***************************************************************************)
HeldAt(step) ==
    CASE step = "openStorage" -> {"db"}
      [] step = "query" -> {"db", "storage"}
      [] step = "openFile" -> {"fs"}
      [] step \in {"sizeFile", "readFile"} -> {"fs", "file"}
      [] OTHER -> {}
NcmInv ==
    /\ lost \in Nat /\ lost = refused
    /\ open = HeldAt(pc)
    /\ pc # "idle" => result = "none" /\ out = before
    /\ OutputsAreOfTheIcon

LEMMA NothingForgotten == Cardinality({}) = 0 /\ Cardinality({"db"}) = 1
BY FS_EmptySet, FS_Singleton

LEMMA NcmInvInit == Init => NcmInv
BY DEF Init, NcmInv, HeldAt, OutputsAreOfTheIcon

LEMMA NcmInvSearch ==
    ASSUME NcmInv,
           OpenContentMetaDatabase \/ OpenContentStorage \/ QueryContent
    PROVE  NcmInv'
<1> USE NothingForgotten
    DEF NcmInv, HeldAt, ProbeFails, Forget, Leave, outputs, history, search,
        OutputsAreOfTheIcon, IconPath
<1>1. CASE OpenContentMetaDatabase
  BY <1>1 DEF OpenContentMetaDatabase
<1>2. CASE OpenContentStorage
  BY <1>2 DEF OpenContentStorage
<1>3. CASE QueryContent
  BY <1>3 DEF QueryContent, AfterQueryFailure
<1>4. QED
  BY <1>1, <1>2, <1>3

LEMMA NcmInvRead ==
    ASSUME NcmInv,
           OpenFileSystem \/ OpenFile \/ SizeFile \/ ReadNacp \/ ReadIcon
    PROVE  NcmInv'
<1> USE DEF NcmInv, HeldAt, FileFails, AfterReadFailure, OutAfterFailure,
            Leave, outputs, history, search, OutputsAreOfTheIcon, IconPath
<1>1. CASE OpenFileSystem
  BY <1>1 DEF OpenFileSystem
<1>2. CASE OpenFile
  BY <1>2 DEF OpenFile
<1>3. CASE SizeFile
  BY <1>3 DEF SizeFile
<1>4. CASE ReadNacp
  BY <1>4 DEF ReadNacp
<1>5. CASE ReadIcon
  <2>1. CASE icon' \in {icon, Broken} /\ FileFails
    BY <1>5, <2>1 DEF ReadIcon
  <2>2. CASE ~(icon' \in {icon, Broken} /\ FileFails)
    <3>1. PICK n \in IconSizes :
            /\ icon' = [of |-> Wanted, size |-> n]
            /\ out' = [lang |-> Reported, size |-> NacpSize + n]
      BY <1>5, <2>2 DEF ReadIcon
    <3>2. IconPath(Reported) = Wanted
      BY DEF Reported, Wanted
    <3>3. OutputsAreOfTheIcon'
      BY <1>5, <2>2, <3>1, <3>2 DEF ReadIcon
    <3>4. QED
      BY <1>5, <2>2, <3>3 DEF ReadIcon
  <2>3. QED
    BY <2>1, <2>2
<1>6. QED
  BY <1>1, <1>2, <1>3, <1>4, <1>5

LEMMA NcmInvariant == Init /\ [][Next]_vars => []NcmInv
<1>1. ASSUME NcmInv, NEW l \in Asked, Call(l)
      PROVE  NcmInv'
  BY <1>1 DEF NcmInv, Call, HeldAt, outputs, OutputsAreOfTheIcon, IconPath
<1>2. NcmInv /\ [Next]_vars => NcmInv'
  <2>1. CASE UNCHANGED vars
    BY <2>1 DEF vars, outputs, history, search, NcmInv, HeldAt,
                OutputsAreOfTheIcon, IconPath
  <2>2. QED
    BY <1>1, <2>1, NcmInvSearch, NcmInvRead DEF Next, Step
<1>3. QED
  BY <1>2, NcmInvInit, PTL

(* Whatever fails, a call loses the database of each storage that could    *)
(* not be opened, and nothing else, and holds nothing when it has returned *)
(* (ncm-ext.c, 5-68 and 110-149).                                          *)
THEOREM NcmLostOnlyToStorage == Spec => []LostOnlyToStorage
<1>1. NcmInv => LostOnlyToStorage
  BY DEF NcmInv, HeldAt, LostOnlyToStorage
<1>2. QED
  BY <1>1, NcmInvariant, PTL DEF Spec

(* For any number of languages and any sizes, the outputs are those of the *)
(* icon in the buffer, and only of a call that succeeds (ncm-ext.c, 70-92  *)
(* and 124-150).                                                           *)
THEOREM NcmOutputsAreOfTheIcon == Spec => []OutputsAreOfTheIcon
<1>1. NcmInv => OutputsAreOfTheIcon
  BY DEF NcmInv
<1>2. QED
  BY <1>1, NcmInvariant, PTL DEF Spec

LEMMA NcmTypeNext ==
    ASSUME TypeOK, Next
    PROVE  TypeOK'
<1> USE NcmAssumption, NothingForgotten
    DEF TypeOK, Langs, Asked, Nacp, AskedIcon, outputs, history, search
<1>1. ASSUME NEW l \in Asked, Call(l) PROVE TypeOK'
  BY <1>1 DEF Call
<1>2. CASE OpenContentMetaDatabase
  BY <1>2 DEF OpenContentMetaDatabase, ProbeFails, Forget, Leave, MorePlaces
<1>3. CASE OpenContentStorage
  BY <1>3 DEF OpenContentStorage, ProbeFails, Forget, Leave, MorePlaces
<1>4. CASE QueryContent
  <2>1. CASE ProbeFails({})
    BY <1>4, <2>1 DEF QueryContent, ProbeFails, Forget, Leave, MorePlaces
  <2>2. CASE ~ProbeFails({})
    <3>1. /\ query < 3 => query' = query + 1 /\ UNCHANGED <<pc, open>>
          /\ query >= 3 => query' = 1 /\ pc' = "openFs" /\ open' = {}
          /\ UNCHANGED <<probe, lang, what, icon, out, lost, before, calls,
                         result, refused>>
      BY <1>4, <2>2 DEF QueryContent, AfterQueryFailure
    <3>2. query' \in 1 .. 3
      BY <3>1
    <3>3. pc = "query"
      BY <1>4 DEF QueryContent
    <3>4. CASE query < 3
      BY <3>1, <3>2, <3>3, <3>4
    <3>5. CASE query >= 3
      BY <3>1, <3>2, <3>5
    <3>6. QED
      BY <3>4, <3>5
  <2>3. QED
    BY <2>1, <2>2
<1>5. CASE OpenFileSystem
  BY <1>5 DEF OpenFileSystem, Leave
<1>6. ASSUME FileFails, icon' \in [of : Langs \cup {-2, -1}, size : Nat]
      PROVE  TypeOK'
  BY <1>6 DEF FileFails, Leave, AfterReadFailure, OutAfterFailure, TriedNext
<1>7. CASE OpenFile
  BY <1>6, <1>7 DEF OpenFile
<1>8. CASE SizeFile
  BY <1>6, <1>8 DEF SizeFile
<1>9. CASE ReadNacp
  BY <1>6, <1>9 DEF ReadNacp
<1>10. CASE ReadIcon
  <2>1. CASE icon' \in {icon, Broken} /\ FileFails
    BY <1>6, <2>1 DEF Broken
  <2>2. CASE ~(icon' \in {icon, Broken} /\ FileFails)
    <3>1. PICK n \in IconSizes :
            /\ icon' = [of |-> Wanted, size |-> n]
            /\ out' = [lang |-> Reported, size |-> NacpSize + n]
      BY <1>10, <2>2 DEF ReadIcon
    <3>2. what \in {AskedIcon} \cup Langs
      BY <1>10 DEF ReadIcon
    <3>3. Wanted \in Langs /\ Reported \in Asked
      BY <3>2 DEF Wanted, Reported, IconPath
    <3>4. n \in Nat /\ NacpSize + n \in Nat
      BY <3>1
    <3>5. QED
      BY <1>10, <2>2, <3>1, <3>3, <3>4 DEF ReadIcon, Leave
  <2>3. QED
    BY <2>1, <2>2
<1>11. QED
  BY <1>1, <1>2, <1>3, <1>4, <1>5, <1>7, <1>8, <1>9, <1>10 DEF Next, Step

(* The places searched, the queries and the files tried stay within their  *)
(* ranges (ncm-ext.c, 94-150).                                             *)
THEOREM NcmTypeCorrect == Spec => []TypeOK
<1>1. Init => TypeOK
  BY NcmAssumption
     DEF Init, TypeOK, Langs, Asked, Nacp, AskedIcon, NoIcon
<1>2. TypeOK /\ [Next]_vars => TypeOK'
  <2>1. CASE UNCHANGED vars
    BY <2>1 DEF vars, outputs, history, search, TypeOK
  <2>2. QED
    BY <2>1, NcmTypeNext
<1>3. QED
  BY <1>1, <1>2, PTL DEF Spec

(* The requests a call may still send: three for a file, for each file it  *)
(* has not tried, and before them six for each place it has not searched.  *)
FilesLeft == Languages - what
PlacesLeft == Probes - probe
RequestsLeft ==
    CASE pc = "openDb" -> 3 * Languages + 6 * PlacesLeft + 14
      [] pc = "openStorage" -> 3 * Languages + 6 * PlacesLeft + 13
      [] pc = "query" -> 3 * Languages + 6 * PlacesLeft + 13 - query
      [] pc = "openFs" -> 3 * Languages + 9
      [] pc = "openFile" -> 3 * FilesLeft + 2
      [] pc = "sizeFile" -> 3 * FilesLeft + 1
      [] pc = "readFile" -> 3 * FilesLeft
      [] OTHER -> 0

LEMMA NcmStepCounts ==
    ASSUME TypeOK, Step
    PROVE  /\ RequestsLeft \in Nat /\ RequestsLeft' \in Nat
           /\ RequestsLeft' < RequestsLeft
<1>1. /\ Languages \in Nat \ {0} /\ Probes \in Nat \ {0}
      /\ probe \in 1 .. Probes /\ query \in 1 .. 3
      /\ what \in -2 .. Languages - 1
      /\ probe' \in 1 .. Probes /\ query' \in 1 .. 3
      /\ what' \in -2 .. Languages - 1
  BY NcmAssumption, NcmTypeNext DEF TypeOK, Langs, Nacp, AskedIcon, Next
<1> USE <1>1 DEF RequestsLeft, PlacesLeft, FilesLeft
<1>2. ASSUME NEW held, ProbeFails(held),
             pc \in {"openDb", "openStorage", "query"}
      PROVE  /\ RequestsLeft \in Nat /\ RequestsLeft' \in Nat
             /\ RequestsLeft' < RequestsLeft
  BY <1>2 DEF ProbeFails, Leave, MorePlaces
<1>3. CASE OpenContentMetaDatabase
  BY <1>2, <1>3 DEF OpenContentMetaDatabase, search
<1>4. CASE OpenContentStorage
  BY <1>2, <1>4 DEF OpenContentStorage, search
<1>5. CASE QueryContent
  BY <1>2, <1>5 DEF QueryContent
<1>6. CASE OpenFileSystem
  BY <1>6 DEF OpenFileSystem, Leave, search
<1>7. ASSUME FileFails, pc \in {"openFile", "sizeFile", "readFile"}
      PROVE  /\ RequestsLeft \in Nat /\ RequestsLeft' \in Nat
             /\ RequestsLeft' < RequestsLeft
  BY <1>7 DEF FileFails, Leave, TriedNext
<1>8. CASE OpenFile
  BY <1>7, <1>8 DEF OpenFile
<1>9. CASE SizeFile
  BY <1>7, <1>9 DEF SizeFile
<1>10. CASE ReadNacp
  BY <1>7, <1>10 DEF ReadNacp, Nacp, AskedIcon
<1>11. CASE ReadIcon
  BY <1>7, <1>11 DEF ReadIcon, Leave
<1>12. QED
  BY <1>3, <1>4, <1>5, <1>6, <1>8, <1>9, <1>10, <1>11 DEF Step

(* Every request of a call leaves it fewer to send, and a call begins with *)
(* at most 3 * Languages + 6 * Probes + 8: the search of the places and    *)
(* the languages tried come to an end (ncm-ext.c, 101-106 and 129-136).    *)
NcmCountsDown ==
    /\ Step => RequestsLeft' \in Nat /\ RequestsLeft' < RequestsLeft
    /\ (\E l \in Asked : Call(l)) =>
          RequestsLeft' <= 3 * Languages + 6 * Probes + 8
THEOREM NcmCallsEnd == Spec => [][NcmCountsDown]_vars
<1>1. TypeOK /\ [Next]_vars => [NcmCountsDown]_vars
  <2> SUFFICES ASSUME TypeOK, Next PROVE NcmCountsDown
    OBVIOUS
  <2>1. Step => RequestsLeft' \in Nat /\ RequestsLeft' < RequestsLeft
    BY NcmStepCounts
  <2>2. ASSUME NEW l \in Asked, Call(l)
        PROVE  RequestsLeft' <= 3 * Languages + 6 * Probes + 8
    BY <2>2, NcmAssumption DEF Call, RequestsLeft, PlacesLeft
  <2>3. QED
    BY <2>1, <2>2 DEF NcmCountsDown
<1>2. QED
  BY <1>1, NcmTypeCorrect, PTL DEF Spec
-----------------------------------------------------------------------------
(***************************************************************************)
(* ns and acc.  The sessions of commands and of account objects are all    *)
(* different and none is the shared one, so that closing one closes no     *)
(* other; as long as every interface could be opened, the local Service of *)
(* a command is the session the command opened.                            *)
(***************************************************************************)
SessionsApart ==
    /\ \A t \in Callers : own[t] < nextSession
    /\ \A t \in Callers : own[t] # Shared /\ object[t] # Shared
    /\ \A t, u \in Callers : own[t] # 0 => own[t] # object[u]
    /\ \A t, u \in Callers : t # u /\ own[t] # 0 => own[t] # own[u]
    /\ \A t, u \in Callers : t # u /\ object[t] # 0 => object[t] # object[u]
OwnOfRequest(t) ==
    /\ request[t] = "idle" => own[t] = 0
    /\ request[t] # "idle" /\ kind[t] = "object" =>
        request[t] = "send" /\ own[t] = 0 /\ object[t] # 0
    /\ request[t] # "idle" /\ kind[t] = "record" /\ version < 3 => own[t] = 0
    /\ request[t] # "idle" /\ kind[t] = "control" => version >= 21
    /\ ~failed /\ request[t] # "idle" /\ kind[t] # "object" /\ version >= 3 =>
        srv[t] = own[t] /\ (request[t] = "send" => own[t] # 0)
OwnOpen ==
    ~failed =>
        /\ Shared \in live
        /\ \A t \in Callers : own[t] # 0 => own[t] \in live
        /\ \A t \in Callers : object[t] # 0 => object[t] \in live
NoneElseOpen ==
    ~failed /\ ~reused =>
        \A s \in live :
            s = Shared \/ \E t \in Callers : s = own[t] \/ s = object[t]

NsInv ==
    /\ NsTypeOK /\ SessionsApart /\ OwnOpen /\ NoneElseOpen
    /\ \A t \in Callers : OwnOfRequest(t)
    /\ SentOnOwnSession

LEMMA NsInvInit == NsInit => NsInv
<1> SUFFICES ASSUME NsInit PROVE NsInv
  OBVIOUS
<1> USE VersionsAssumption DEF NsInit, Shared
<1>1. NsTypeOK
  <2>1. MaxSession + 1 \in Nat /\ 2 <= MaxSession + 1
    OBVIOUS
  <2>2. live = {1} /\ nextSession = 2 /\ strayed = {}
    OBVIOUS
  <2>3. live \subseteq 1 .. nextSession - 1
        /\ nextSession \in 2 .. MaxSession + 1
    BY <2>1, <2>2
  <2>4. 0 \in 0 .. nextSession - 1 /\ 0 \in 0 .. MaxSession
    BY <2>2
  <2>5. srv \in [Callers -> 0 .. nextSession - 1]
        /\ object \in [Callers -> 0 .. nextSession - 1]
        /\ own \in [Callers -> 0 .. MaxSession]
    BY <2>4
  <2>6. request \in [Callers -> {"idle", "send", "close"}]
        /\ kind \in [Callers -> {"record", "control", "object"}]
    OBVIOUS
  <2>7. QED
    BY <2>2, <2>3, <2>5, <2>6 DEF NsTypeOK
<1>2. SessionsApart /\ OwnOpen /\ NoneElseOpen /\ SentOnOwnSession
  BY DEF SessionsApart, OwnOpen, NoneElseOpen, SentOnOwnSession
<1>3. \A t \in Callers : OwnOfRequest(t)
  BY DEF OwnOfRequest
<1>4. QED
  BY <1>1, <1>2, <1>3 DEF NsInv

LEMMA NsInvRecord ==
    ASSUME NsInv, NEW t \in Callers, BeginRecord(t)
    PROVE  NsInv'
<1> USE VersionsAssumption
    DEF NsInv, BeginRecord, NoRequest, RequestGoesTo, HasOwn, Shared
<1>1. own[t] = 0 /\ version \in Nat /\ version' = version
  BY DEF OwnOfRequest, NsTypeOK
<1>2. CASE version >= 3 /\ Opens(t, srv, object)
           /\ own' = [own EXCEPT ![t] = nextSession] /\ UNCHANGED failed
  <2> USE <1>2 DEF Opens
  <2>1. NsTypeOK'
    BY DEF NsTypeOK
  <2>2. SessionsApart'
    BY DEF SessionsApart, NsTypeOK
  <2>3. OwnOpen'
    BY DEF OwnOpen, NsTypeOK
  <2>4. NoneElseOpen'
    BY <1>1 DEF NoneElseOpen, NsTypeOK
  <2>5. \A u \in Callers : OwnOfRequest(u)'
    BY DEF OwnOfRequest, NsTypeOK
  <2>6. QED
    BY <2>1, <2>2, <2>3, <2>4, <2>5 DEF SentOnOwnSession
<1>3. CASE version >= 3 /\ Uninitialized(t) /\ failed' = TRUE
           /\ UNCHANGED <<object, live, nextSession, own>>
  <2> USE <1>3 DEF Uninitialized
  <2>1. NsTypeOK'
    BY DEF NsTypeOK
  <2>2. SessionsApart'
    BY DEF SessionsApart
  <2>3. \A u \in Callers : OwnOfRequest(u)'
    BY DEF OwnOfRequest, NsTypeOK
  <2>4. QED
    BY <2>1, <2>2, <2>3 DEF OwnOpen, NoneElseOpen, SentOnOwnSession
<1>4. CASE ~(version >= 3) /\ Uninitialized(t)
           /\ UNCHANGED <<object, live, nextSession, own, failed>>
  <2> USE <1>4 DEF Uninitialized
  <2>1. NsTypeOK'
    BY DEF NsTypeOK
  <2>2. SessionsApart' /\ OwnOpen' /\ NoneElseOpen'
    BY DEF SessionsApart, OwnOpen, NoneElseOpen
  <2>3. \A u \in Callers : OwnOfRequest(u)'
    BY <1>1 DEF OwnOfRequest, NsTypeOK
  <2>4. QED
    BY <2>1, <2>2, <2>3 DEF SentOnOwnSession
<1>5. QED
  BY <1>2, <1>3, <1>4

LEMMA NsInvControl ==
    ASSUME NsInv, NEW t \in Callers, BeginControl(t)
    PROVE  NsInv'
<1> USE VersionsAssumption
    DEF NsInv, BeginControl, NoRequest, RequestGoesTo, Shared
<1>1. own[t] = 0 /\ version \in Nat /\ version' = version
  BY DEF OwnOfRequest, NsTypeOK
<1>2. CASE Opens(t, srv, object) /\ own' = [own EXCEPT ![t] = nextSession]
           /\ RequestGoesTo(t, "send")
  <2> USE <1>2 DEF Opens
  <2>1. NsTypeOK'
    BY DEF NsTypeOK
  <2>2. SessionsApart'
    BY DEF SessionsApart, NsTypeOK
  <2>3. OwnOpen'
    BY DEF OwnOpen, NsTypeOK
  <2>4. NoneElseOpen'
    BY <1>1 DEF NoneElseOpen, NsTypeOK
  <2>5. \A u \in Callers : OwnOfRequest(u)'
    BY DEF OwnOfRequest, NsTypeOK
  <2>6. QED
    BY <2>1, <2>2, <2>3, <2>4, <2>5 DEF SentOnOwnSession
<1>3. CASE srv' = [srv EXCEPT ![t] = 0] /\ RequestGoesTo(t, "close")
           /\ UNCHANGED <<object, live, nextSession, own>>
  <2> USE <1>3
  <2>1. NsTypeOK'
    BY DEF NsTypeOK
  <2>2. SessionsApart' /\ OwnOpen' /\ NoneElseOpen'
    BY DEF SessionsApart, OwnOpen, NoneElseOpen
  <2>3. \A u \in Callers : OwnOfRequest(u)'
    BY <1>1 DEF OwnOfRequest, NsTypeOK
  <2>4. QED
    BY <2>1, <2>2, <2>3 DEF SentOnOwnSession
<1>4. QED
  BY <1>2, <1>3 DEF AfterOpenFailure

LEMMA NsInvSend ==
    ASSUME NsInv, NEW t \in Callers, Send(t)
    PROVE  NsInv'
<1> USE VersionsAssumption DEF NsInv, Send, RequestGoesTo, sessions, Shared
<1>1. version \in Nat /\ version' = version
  BY DEF NsTypeOK
<1>2. ~failed => Used(t) = Meant(t) /\ Used(t) \in live
  <2> SUFFICES ASSUME ~failed
               PROVE  Used(t) = Meant(t) /\ Used(t) \in live
    OBVIOUS
  <2>1. CASE kind[t] = "object"
    BY <2>1 DEF Used, Meant, OwnOfRequest, OwnOpen
  <2>2. CASE kind[t] = "record" /\ version < 3
    BY <2>2 DEF Used, Meant, OwnOpen
  <2>3. CASE kind[t] # "object" /\ ~(kind[t] = "record" /\ version < 3)
    <3>1. kind[t] \in {"record", "control"} /\ request[t] = "send"
      BY <2>3 DEF NsTypeOK
    <3>2. version >= 3
      BY <1>1, <2>3, <3>1 DEF OwnOfRequest
    <3>3. srv[t] = own[t] /\ own[t] # 0
      BY <2>3, <3>1, <3>2 DEF OwnOfRequest
    <3>4. QED
      BY <2>3, <3>1, <3>3 DEF Used, Meant, OwnOpen
  <2>4. QED
    BY <2>1, <2>2, <2>3
<1>3. NsTypeOK'
  BY DEF NsTypeOK
<1>4. SentOnOwnSession'
  BY <1>2 DEF SentOnOwnSession
<1>5. \A u \in Callers : OwnOfRequest(u)'
  BY <1>1 DEF OwnOfRequest, NsTypeOK
<1>6. SessionsApart' /\ OwnOpen' /\ NoneElseOpen'
  BY DEF SessionsApart, OwnOpen, NoneElseOpen
<1>7. QED
  BY <1>3, <1>4, <1>5, <1>6

LEMMA NsInvClose ==
    ASSUME NsInv, NEW t \in Callers, Close(t)
    PROVE  NsInv'
<1> USE VersionsAssumption DEF NsInv, Close, RequestGoesTo, Closes, Shared
<1>1. version \in Nat /\ version' = version
  BY DEF NsTypeOK
<1>2. ~failed => live' = live \ {own[t]}
  <2>1. CASE Closes(t)
    BY <1>1, <2>1 DEF OwnOfRequest, NsTypeOK
  <2>2. CASE ~Closes(t)
    BY <1>1, <2>2 DEF OwnOfRequest, NsTypeOK
  <2>3. QED
    BY <2>1, <2>2
<1>3. NsTypeOK'
  <2>1. live' \subseteq live /\ own' \in [Callers -> 0 .. MaxSession]
        /\ request' \in [Callers -> {"idle", "send", "close"}]
    BY DEF NsTypeOK
  <2>2. UNCHANGED <<version, kind, srv, object, nextSession, failed, reused,
                    strayed>>
    OBVIOUS
  <2>3. QED
    BY <2>1, <2>2 DEF NsTypeOK
<1>4. SessionsApart'
  BY DEF SessionsApart, NsTypeOK
<1>5. OwnOpen'
  BY <1>2 DEF OwnOpen, SessionsApart, NsTypeOK
<1>6. NoneElseOpen'
  BY <1>2 DEF NoneElseOpen, NsTypeOK
<1>7. \A u \in Callers : OwnOfRequest(u)'
  BY <1>1 DEF OwnOfRequest, NsTypeOK
<1>8. QED
  BY <1>3, <1>4, <1>5, <1>6, <1>7 DEF SentOnOwnSession

LEMMA NsInvGetObject ==
    ASSUME NsInv, NEW t \in Callers, GetObject(t)
    PROVE  NsInv'
<1> USE VersionsAssumption DEF NsInv, GetObject, NoRequest, Shared
<1>1. CASE Opens(t, object, srv)
  <2> USE <1>1 DEF Opens
  <2>1. NsTypeOK'
    BY DEF NsTypeOK
  <2>2. SessionsApart'
    BY DEF SessionsApart, NsTypeOK
  <2>3. OwnOpen'
    BY DEF OwnOpen, NsTypeOK
  <2>4. NoneElseOpen'
    <3> SUFFICES ASSUME ~failed, ~reused, object[t] = 0, NEW s \in live'
                 PROVE  s = Shared
                        \/ \E u \in Callers : s = own'[u] \/ s = object'[u]
      BY DEF NoneElseOpen
    <3>1. own' = own /\ object'[t] = nextSession
      BY DEF NsTypeOK
    <3>2. CASE s = nextSession
      BY <3>1, <3>2
    <3>3. CASE s \in live /\ s # Shared
      <4>1. PICK u \in Callers : s = own[u] \/ s = object[u]
        BY <3>3 DEF NoneElseOpen
      <4>2. s # 0
        BY <3>3 DEF NsTypeOK
      <4>3. s = own'[u] \/ s = object'[u]
        BY <3>1, <4>1, <4>2 DEF NsTypeOK
      <4>4. QED
        BY <4>3
    <3>4. QED
      BY <3>2, <3>3
  <2>5. \A u \in Callers : OwnOfRequest(u)'
    BY DEF OwnOfRequest, NsTypeOK
  <2>6. QED
    BY <2>1, <2>2, <2>3, <2>4, <2>5 DEF SentOnOwnSession
<1>2. CASE object' = [object EXCEPT ![t] = 0]
           /\ UNCHANGED <<srv, live, nextSession>>
  <2> USE <1>2
  <2>1. NsTypeOK'
    BY DEF NsTypeOK
  <2>2. SessionsApart'
    BY DEF SessionsApart, NsTypeOK
  <2>3. OwnOpen'
    BY DEF OwnOpen, NsTypeOK
  <2>4. NoneElseOpen'
    <3> SUFFICES ASSUME ~failed, ~reused, object[t] = 0
                 PROVE  object' = object
      BY DEF NoneElseOpen
    <3>1. QED
      BY DEF NsTypeOK
  <2>5. \A u \in Callers : OwnOfRequest(u)'
    BY DEF OwnOfRequest, NsTypeOK
  <2>6. QED
    BY <2>1, <2>2, <2>3, <2>4, <2>5 DEF SentOnOwnSession
<1>3. QED
  BY <1>1, <1>2 DEF ZeroedObject

LEMMA NsInvObject ==
    ASSUME NsInv, NEW t \in Callers, BeginObject(t) \/ CloseObject(t)
    PROVE  NsInv'
<1> USE VersionsAssumption
    DEF NsInv, NoRequest, RequestGoesTo, sessions, nsHistory, Shared
<1>1. CASE BeginObject(t)
  <2> USE <1>1 DEF BeginObject
  <2>1. NsTypeOK'
    BY DEF NsTypeOK
  <2>2. \A u \in Callers : OwnOfRequest(u)'
    BY DEF OwnOfRequest, NsTypeOK
  <2>3. SessionsApart' /\ OwnOpen' /\ NoneElseOpen' /\ SentOnOwnSession'
    BY DEF SessionsApart, OwnOpen, NoneElseOpen, SentOnOwnSession
  <2>4. QED
    BY <2>1, <2>2, <2>3
<1>2. CASE CloseObject(t)
  <2> USE <1>2 DEF CloseObject, ClosedWith
  <2>1. NsTypeOK'
    <3>1. live' \subseteq live
          /\ object' \in [Callers -> 0 .. nextSession - 1]
      BY DEF NsTypeOK
    <3>2. UNCHANGED <<version, request, kind, srv, nextSession, own, failed,
                      reused, strayed>>
      OBVIOUS
    <3>3. QED
      BY <3>1, <3>2 DEF NsTypeOK
  <2>2. SessionsApart'
    BY DEF SessionsApart, NsTypeOK
  <2>3. OwnOpen'
    BY DEF OwnOpen, SessionsApart, NsTypeOK
  <2>4. NoneElseOpen'
    BY DEF NoneElseOpen, NsTypeOK
  <2>5. \A u \in Callers : OwnOfRequest(u)'
    BY DEF OwnOfRequest, NsTypeOK
  <2>6. QED
    BY <2>1, <2>2, <2>3, <2>4, <2>5 DEF SentOnOwnSession
<1>3. QED
  BY <1>1, <1>2

LEMMA NsInvariant == NsSpec => []NsInv
<1>1. NsInv /\ [NsNext]_nsVars => NsInv'
  <2>1. CASE UNCHANGED nsVars
    BY <2>1 DEF nsVars, sessions, nsHistory, NsInv, NsTypeOK, SessionsApart,
                OwnOpen, NoneElseOpen, OwnOfRequest, SentOnOwnSession
  <2>2. QED
    BY <2>1, NsInvRecord, NsInvControl, NsInvSend, NsInvClose, NsInvGetObject,
       NsInvObject DEF NsNext
<1>2. QED
  BY <1>1, NsInvInit, PTL DEF NsSpec

(* However many threads use ns and acc, a command strays to the session of *)
(* another only after an interface could not be opened (ns-ext.c, 3-76 and *)
(* 80-106).                                                                *)
THEOREM NsSentOnOwnSession == NsSpec => []SentOnOwnSession
BY NsInvariant, PTL DEF NsInv

(* Until then, and while no account object is opened over another, what is *)
(* open is the shared session, those of the commands under way and those   *)
(* of the objects (ns-ext.c, 13-17; account-ext.c, 8-22).                  *)
THEOREM NsOpenIsOwned == NsSpec => []OpenIsOwned
<1>1. NsInv => OpenIsOwned
  <2> SUFFICES ASSUME NsInv, ~failed, ~reused
               PROVE  live = ({Shared} \cup {own[t] : t \in Callers}
                               \cup {object[t] : t \in Callers}) \ {0}
    BY DEF OpenIsOwned
  <2>1. \A s \in live : s # 0
    BY DEF NsInv, NsTypeOK
  <2>2. QED
    BY <2>1 DEF NsInv, OwnOpen, NoneElseOpen, Shared
<1>2. QED
  BY <1>1, NsInvariant, PTL
=============================================================================
