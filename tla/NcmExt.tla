------------------------------- MODULE NcmExt -------------------------------
(***************************************************************************)
(* ncmextReadApplicationControlDataManual (libnx-ipcext, ncm-ext.c): finds *)
(* the control content of an application, or of its patch, in one of three *)
(* storages and reads its nacp and an icon.  Every call to the ncm and fs  *)
(* services can fail; a step is the code up to the next such call.         *)
(***************************************************************************)
EXTENDS Integers, FiniteSets

CONSTANTS
    Languages,  \* SetLanguage_Total: the languages are 0 .. Languages - 1
    Default,    \* the language whose icon the others' path defaults to, ENUS
    Probes,     \* the places searched: the patch, then the application, in
                \* each storage; 6 in the code
    NacpSize,   \* the size of the nacp, in some unit
    IconSizes,  \* the sizes icons have
    MaxCalls    \* bound on the calls

ASSUME NcmAssumption ==
    /\ Languages \in Nat \ {0} /\ Default \in 0 .. Languages - 1
    /\ Probes \in Nat \ {0} /\ NacpSize \in Nat \ {0}
    /\ IconSizes \subseteq Nat /\ MaxCalls \in Nat

VARIABLES
    pc,        \* where the call is
    probe,     \* the place it is searching
    query,     \* which of the three queries of the content is next
    lang,      \* the language asked for; any value, so Languages too
    what,      \* the file being read: Nacp, AskedIcon or a language to try
    open,      \* the handles the call holds
    lost,      \* history: handles nobody can close any more
    refused,   \* history: how often a content storage could not be opened
    icon,      \* what the buffer holds: [of, size]
    out,       \* the outputs: [lang, size]
    before,    \* history: the outputs when the call began
    result,    \* what the last call returned
    calls      \* history: the calls so far

search == <<probe, query>>
outputs == <<icon, out>>
history == <<lost, refused, before, calls>>
vars == <<pc, search, lang, what, open, outputs, history, result>>

Langs == 0 .. Languages - 1
Asked == 0 .. Languages
Nacp == -2
AskedIcon == -1
NoIcon == [of |-> -1, size |-> 0]
Broken == [of |-> -2, size |-> 0]

(* _ncmextGetControlIconPath, a path named by its language. *)
IconPath(l) == IF l \in Langs THEN l ELSE Default
Wanted == IF what = AskedIcon THEN IconPath(lang) ELSE IconPath(what)
-----------------------------------------------------------------------------
Init ==
    /\ pc = "idle" /\ probe = 1 /\ query = 1 /\ lang = 0 /\ what = Nacp
    /\ open = {} /\ lost = 0 /\ refused = 0
    /\ icon = NoIcon
    /\ out = [lang |-> 0, size |-> 0] /\ before = out
    /\ result = "none" /\ calls = 0

(* The call itself, turned away if the buffer is too small. *)
Call(l) ==
    /\ pc = "idle" /\ calls < MaxCalls
    /\ \/ pc' = "openDb" /\ result' = "none"
       \/ pc' = "idle" /\ result' = "failed"
    /\ lang' = l /\ probe' = 1 /\ query' = 1 /\ what' = Nacp
    /\ before' = out /\ calls' = calls + 1
    /\ UNCHANGED <<open, lost, refused, outputs>>

Leave(r) == pc' = "idle" /\ result' = r

(* _ncmextGetApplicationControlContentPath returns; what it holds is lost  *)
(* unless it is closed.                                                    *)
MorePlaces == probe < Probes
Forget(held) == open' = {} /\ lost' = lost + Cardinality(held)
ProbeFails(held) ==
    /\ Forget(held)
    /\ IF MorePlaces
       THEN pc' = "openDb" /\ probe' = probe + 1 /\ UNCHANGED result
       ELSE Leave("failed") /\ UNCHANGED probe
    /\ query' = 1
    /\ UNCHANGED <<lang, what, outputs, before, calls>>

OpenContentMetaDatabase ==
    /\ pc = "openDb"
    /\ UNCHANGED refused
    /\ \/ ProbeFails({})
       \/ /\ pc' = "openStorage" /\ open' = {"db"}
          /\ UNCHANGED <<search, lang, what, outputs, lost, before, calls,
                         result>>

OpenContentStorage ==
    /\ pc = "openStorage"
    /\ \/ ProbeFails({"db"}) /\ refused' = refused + 1
       \/ /\ pc' = "query" /\ open' = {"db", "storage"}
          /\ UNCHANGED <<search, lang, what, outputs, history, result>>

(* GetLatestContentMetaKey, GetContentIdByType and GetPath; both are       *)
(* closed after the first that fails and after the last.                   *)
KeepsDb == {"db"}
AfterQueryFailure == {}
QueryContent ==
    /\ pc = "query"
    /\ UNCHANGED refused
    /\ \/ ProbeFails(AfterQueryFailure)
       \/ /\ IF query < 3
             THEN query' = query + 1 /\ UNCHANGED <<pc, open>>
             ELSE query' = 1 /\ pc' = "openFs" /\ open' = {}
          /\ UNCHANGED <<probe, lang, what, outputs, lost, before, calls,
                         result>>

OpenFileSystem ==
    /\ pc = "openFs"
    /\ \/ pc' = "openFile" /\ open' = {"fs"} /\ UNCHANGED result
       \/ Leave("failed") /\ UNCHANGED open
    /\ UNCHANGED <<search, lang, what, outputs, history>>
-----------------------------------------------------------------------------
(* After _ncmextReadFile: without the nacp the call fails, without an icon *)
(* it tries every language from the first.                                 *)
AfterReadFailure == {}
AskedAgain == IF what = AskedIcon THEN 0 ELSE what
TriedNext == what + 1
OutAfterFailure == out
FileFails ==
    /\ IF what = Nacp \/ what = Languages - 1
       THEN Leave("failed") /\ open' = AfterReadFailure /\ UNCHANGED what
       ELSE /\ pc' = "openFile" /\ open' = {"fs"} /\ UNCHANGED result
            /\ what' = TriedNext
    /\ out' = OutAfterFailure
    /\ UNCHANGED <<search, lang, history>>

(* _ncmextReadFile: the file is opened, its size is looked at and compared *)
(* with the buffer's, and it is read.                                      *)
OpenFile ==
    /\ pc = "openFile"
    /\ UNCHANGED icon
    /\ \/ FileFails
       \/ /\ pc' = "sizeFile" /\ open' = {"fs", "file"}
          /\ UNCHANGED <<search, lang, what, out, history, result>>

SizeFile ==
    /\ pc = "sizeFile"
    /\ UNCHANGED icon
    /\ \/ FileFails
       \/ /\ pc' = "readFile"
          /\ UNCHANGED <<search, lang, what, open, out, history, result>>

(* The language reported: the one asked for, or the one tried. *)
AlwaysAsked == lang
Reported == IF what = AskedIcon THEN lang ELSE what
ReadNacp ==
    /\ pc = "readFile" /\ what = Nacp
    /\ UNCHANGED icon
    /\ \/ FileFails  \* or it is shorter than a nacp
       \/ /\ what' = AskedIcon /\ pc' = "openFile" /\ open' = {"fs"}
          /\ UNCHANGED <<search, lang, out, history, result>>

ReadIcon ==
    /\ pc = "readFile" /\ what # Nacp
    /\ \/ icon' \in {icon, Broken} /\ FileFails
       \/ /\ \E n \in IconSizes :
                /\ icon' = [of |-> Wanted, size |-> n]
                /\ out' = [lang |-> Reported, size |-> NacpSize + n]
          /\ open' = {}
          /\ Leave("ok")
          /\ UNCHANGED <<search, lang, what, history>>

Step ==
    \/ OpenContentMetaDatabase \/ OpenContentStorage \/ QueryContent
    \/ OpenFileSystem
    \/ OpenFile \/ SizeFile \/ ReadNacp \/ ReadIcon
Next == Step \/ \E l \in Asked : Call(l)

(* A service answers every request, so the call goes on. *)
Spec == Init /\ [][Next]_vars /\ WF_vars(Step)
-----------------------------------------------------------------------------
(* Properties. *)

TypeOK ==
    /\ pc \in {"idle", "openDb", "openStorage", "query", "openFs",
               "openFile", "sizeFile", "readFile"}
    /\ probe \in 1 .. Probes /\ query \in 1 .. 3
    /\ lang \in Asked /\ what \in {Nacp, AskedIcon} \cup Langs
    /\ open \subseteq {"db", "storage", "fs", "file"}
    /\ lost \in Nat /\ refused \in Nat
    /\ icon \in [of : Langs \cup {-2, -1}, size : Nat]
    /\ {out, before} \subseteq [lang : Asked, size : Nat]
    /\ result \in {"none", "ok", "failed"} /\ calls \in 0 .. MaxCalls

(* A handle is lost exactly for each content storage that could not be     *)
(* opened, the content meta database opened before it, and through no      *)
(* other failure: however else a call ends it has closed the databases,    *)
(* the content file system and the file (ncm-ext.c, 5-68 and 110-149).     *)
LostOnlyToStorage == lost = refused /\ (pc = "idle" => open = {})

(* The language and size reported are those of the icon that is in the     *)
(* buffer, also when an attempt before it left part of another there and   *)
(* when the language asked for has no path of its own; a call that fails   *)
(* reports nothing (ncm-ext.c, 70-92 and 124-150).                         *)
OutputsAreOfTheIcon ==
    /\ result = "ok" => /\ icon.of = IconPath(out.lang)
                        /\ out.size = NacpSize + icon.size
    /\ result = "failed" => out = before

(* Every call returns, however many places and languages fail: the search  *)
(* and the languages tried come to an end (ncm-ext.c, 101-106, 129-136).   *)
EveryCallReturns == pc # "idle" ~> pc = "idle"
=============================================================================
