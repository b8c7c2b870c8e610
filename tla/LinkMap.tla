------------------------------- MODULE LinkMap -------------------------------
(***************************************************************************)
(* What the module registry of libnx-ld promises to its client: the        *)
(* modules of the process in the order they were loaded, each relocated    *)
(* against the first module that has the name, when all modules before it  *)
(* are initialized.  There are no table entries, counts or calls here:     *)
(* modules come at the end and go from anywhere.  Nor are there init       *)
(* functions: a lookup nested in those of a module runs them again, and    *)
(* Start is the first time that they come to their end.                    *)
(***************************************************************************)
CONSTANTS Modules, NULL, Main, Images, Symbols, Exports, Needs

VARIABLES
    open,       \* whether the registry is in use
    live,       \* the modules that can be found
    before,     \* the pairs <<m, n>> of live modules with m loaded first
    image,      \* what a module was loaded from
    phase,      \* how far a module is in its life
    bound       \* bound[m][s]: the module m takes s from

vars == <<open, live, before, image, phase, bound>>

Init ==
    /\ open = FALSE
    /\ live = {}
    /\ before = {}
    /\ image = [m \in Modules |-> NULL]
    /\ phase = [m \in Modules |-> "unused"]
    /\ bound = [m \in Modules |-> [s \in Symbols |-> NULL]]

AddLast(m, img) ==
    /\ phase[m] = "unused"
    /\ phase' = [phase EXCEPT ![m] = "Loaded"]
    /\ image' = [image EXCEPT ![m] = img]
    /\ before' = before \cup (live \X {m})
    /\ live' = live \cup {m}
    /\ UNCHANGED bound

(* ldInitialize: the program itself is the first module of a lifetime.     *)
Open(m) ==
    /\ ~open
    /\ live = {}
    /\ AddLast(m, Main)
    /\ open' = TRUE

(* ldLoadModuleFromNro succeeds. *)
Load(m, img) ==
    /\ open
    /\ AddLast(m, img)
    /\ UNCHANGED open

(* The first module that exports s. *)
IsProvider(m, s) ==
    /\ m \in live
    /\ s \in Exports[image[m]]
    /\ \A n \in live \ {m} : s \in Exports[image[n]] => <<m, n>> \in before

(* A module is relocated: in its turn, and only if every name it needs is  *)
(* there.  The program itself has no init functions left to run.           *)
Bind(m) ==
    /\ m \in live
    /\ phase[m] = "Loaded"
    /\ \A n \in live : <<n, m>> \in before => phase[n] = "Initialized"
    /\ \E f \in [Symbols -> Modules \cup {NULL}] :
          /\ \A s \in Symbols : IF s \in Needs[image[m]]
                                THEN IsProvider(f[s], s)
                                ELSE f[s] = NULL
          /\ bound' = [bound EXCEPT ![m] = f]
    /\ phase' = [phase EXCEPT ![m] =
                    IF image[m] = Main THEN "Initialized" ELSE "Resolved"]
    /\ UNCHANGED <<open, live, before, image>>

(* Its init functions have run to their end. *)
Start(m) ==
    /\ m \in live
    /\ phase[m] = "Resolved"
    /\ phase' = [phase EXCEPT ![m] = "Initialized"]
    /\ UNCHANGED <<open, live, before, image, bound>>

(* A module goes, from anywhere in the order; the order of the others and  *)
(* what they are bound to stay.                                            *)
Unload(m) ==
    /\ m \in live
    /\ live' = live \ {m}
    /\ before' = {e \in before : m \notin {e[1], e[2]}}
    /\ phase' = [phase EXCEPT ![m] = "freed"]
    /\ UNCHANGED <<open, image, bound>>

(* ldExit, when nothing is left. *)
Close ==
    /\ open
    /\ live = {}
    /\ open' = FALSE
    /\ UNCHANGED <<live, before, image, phase, bound>>

Next ==
    \/ \E m \in Modules :
          \/ Open(m)
          \/ \E img \in Images : Load(m, img)
          \/ Bind(m)
          \/ Start(m)
          \/ Unload(m)
    \/ Close

Spec == Init /\ [][Next]_vars
-----------------------------------------------------------------------------
(* Properties: what a client may rely on. *)

LivePhases == {"Loaded", "Resolved", "Initialized"}
TypeOK ==
    /\ open \in BOOLEAN
    /\ live \subseteq Modules
    /\ before \subseteq live \X live
    /\ image \in [Modules -> Images \cup {Main, NULL}]
    /\ phase \in [Modules -> LivePhases \cup {"unused", "freed"}]
    /\ bound \in [Modules -> [Symbols -> Modules \cup {NULL}]]
    /\ \A m \in Modules : m \in live <=> phase[m] \in LivePhases

(* Loading and unloading keep one order of the modules: no two of them     *)
(* change places, and any two can be compared (the list of ld.c, 700-737). *)
OneOrder ==
    /\ \A m, n \in live : m # n <=> (<<m, n>> \in before \/ <<n, m>> \in before)
    /\ \A m, n \in live : <<m, n>> \in before => <<n, m>> \notin before
    /\ \A m, n, k \in live :
          <<m, n>> \in before /\ <<n, k>> \in before => <<m, k>> \in before

(* A module is resolved only after all that were loaded before it have     *)
(* run their init functions to the end, if some run again (ld.c, 780-784). *)
InitializedInOrder ==
    \A m, n \in live :
        <<m, n>> \in before /\ phase[n] # "Loaded" => phase[m] = "Initialized"

(* A resolved module has every name it needs from a module that still is   *)
(* the first to export it, unless that module has been unloaded since; a   *)
(* later load never takes over a name (ld.c, 391-420).                     *)
BoundToFirst ==
    \A m \in live : \A s \in Symbols :
        phase[m] # "Loaded" /\ s \in Needs[image[m]]
        => LET p == bound[m][s]
           IN  p \in Modules /\ (phase[p] = "freed" \/ IsProvider(p, s))

(* The program itself comes before every module loaded in its lifetime,    *)
(* and nothing is left of a lifetime when the next one begins.             *)
MainIsFirst ==
    /\ \A m, n \in live : image[m] = Main /\ m # n => <<m, n>> \in before
    /\ ~open => live = {}
=============================================================================
