----------------------------- MODULE LinkMapProofs -----------------------------
(***************************************************************************)
(* Theorems about LinkMap, for any modules, images, exports and needs:     *)
(* the promises hold of the promised behaviors.                            *)
(***************************************************************************)
EXTENDS LinkMap, TLAPS

Promises ==
    /\ TypeOK
    /\ OneOrder
    /\ InitializedInOrder
    /\ BoundToFirst

WellBound(a, s) ==
    /\ bound[a][s] \in Modules
    /\ phase[bound[a][s]] = "freed" \/ IsProvider(bound[a][s], s)

(* A module that comes is after all the others and bound to none of them.  *)
LEMMA AddKeeps ==
    ASSUME Promises, NEW m \in Modules, NEW img \in Images \cup {Main},
           AddLast(m, img), open' \in BOOLEAN
    PROVE  Promises'
<1> USE DEF Promises, TypeOK, LivePhases
<1>1. /\ m \notin live /\ live' = live \cup {m}
      /\ before' = before \cup (live \X {m})
      /\ phase' = [phase EXCEPT ![m] = "Loaded"]
      /\ image' = [image EXCEPT ![m] = img] /\ bound' = bound
  BY DEF AddLast
<1>2. TypeOK'
  BY <1>1
<1>3. \A a, b \in live' :
         <<a, b>> \in before' <=> \/ a \in live /\ b \in live /\ <<a, b>> \in before
                                  \/ a \in live /\ b = m
  BY <1>1
<1>4. OneOrder'
  <2>1. \A a, b \in live' : a # b <=> (<<a, b>> \in before' \/ <<b, a>> \in before')
    BY <1>1, <1>3 DEF OneOrder
  <2>2. \A a, b \in live' : <<a, b>> \in before' => <<b, a>> \notin before'
    BY <1>1, <1>3 DEF OneOrder
  <2>3. \A a, b, c \in live' :
           <<a, b>> \in before' /\ <<b, c>> \in before' => <<a, c>> \in before'
    BY <1>1, <1>3 DEF OneOrder
  <2>4. QED
    BY <2>1, <2>2, <2>3 DEF OneOrder
<1>5. InitializedInOrder'
  BY <1>1, <1>3 DEF InitializedInOrder
<1>6. BoundToFirst'
  <2> SUFFICES ASSUME NEW a \in live', NEW s \in Symbols,
                      phase'[a] # "Loaded", s \in Needs[image'[a]]
               PROVE  WellBound(a, s)'
    BY DEF BoundToFirst, WellBound
  <2> DEFINE p == bound[a][s]
  <2>1. a \in live /\ phase[a] # "Loaded" /\ image'[a] = image[a]
    BY <1>1
  <2>2. p \in Modules /\ (phase[p] = "freed" \/ IsProvider(p, s))
    BY <2>1 DEF BoundToFirst
  <2>3. p # m
    BY <1>1, <2>2 DEF IsProvider, AddLast
  <2>4. CASE phase[p] = "freed"
    BY <1>1, <2>2, <2>3, <2>4 DEF WellBound
  <2>5. CASE IsProvider(p, s)
    <3>1. p \in live' /\ s \in Exports[image'[p]]
      BY <1>1, <2>2, <2>3, <2>5 DEF IsProvider
    <3>2. \A n \in live' \ {p} : s \in Exports[image'[n]] => <<p, n>> \in before'
      BY <1>1, <2>2, <2>5 DEF IsProvider
    <3>3. IsProvider(p, s)'
      BY <1>1, <3>1, <3>2 DEF IsProvider
    <3>4. QED
      BY <1>1, <2>2, <3>3 DEF WellBound
  <2>6. QED
    BY <2>2, <2>4, <2>5
<1>7. QED
  BY <1>2, <1>4, <1>5, <1>6

(* What a module is bound to is the first that exports the name now.       *)
LEMMA BindKeeps ==
    ASSUME Promises, NEW m \in Modules, Bind(m)
    PROVE  Promises'
<1> USE DEF Promises, TypeOK, LivePhases
<1>1. PICK f \in [Symbols -> Modules \cup {NULL}] :
         /\ \A s \in Symbols : IF s \in Needs[image[m]]
                               THEN IsProvider(f[s], s) ELSE f[s] = NULL
         /\ bound' = [bound EXCEPT ![m] = f]
  BY DEF Bind
<1>2. /\ m \in live /\ phase[m] = "Loaded"
      /\ \A n \in live : <<n, m>> \in before => phase[n] = "Initialized"
      /\ phase' = [phase EXCEPT ![m] =
                      IF image[m] = Main THEN "Initialized" ELSE "Resolved"]
      /\ UNCHANGED <<open, live, before, image>>
  BY DEF Bind
<1>3. TypeOK' /\ OneOrder'
  BY <1>1, <1>2 DEF OneOrder
<1>4. InitializedInOrder'
  BY <1>2 DEF InitializedInOrder
<1>5. \A p, s : IsProvider(p, s)' <=> IsProvider(p, s)
  BY <1>2 DEF IsProvider
<1>6. BoundToFirst'
  <2> SUFFICES ASSUME NEW a \in live, NEW s \in Symbols,
                      phase'[a] # "Loaded", s \in Needs[image[a]]
               PROVE  WellBound(a, s)'
    BY <1>2 DEF BoundToFirst, WellBound
  <2>1. CASE a = m
    <3>1. IsProvider(bound'[a][s], s)
      BY <1>1, <2>1
    <3>2. QED
      BY <1>2, <1>5, <3>1 DEF IsProvider, WellBound
  <2>2. CASE a # m
    <3> DEFINE p == bound[a][s]
    <3>1. p \in Modules /\ (phase[p] = "freed" \/ IsProvider(p, s))
      BY <1>2, <2>2 DEF BoundToFirst
    <3>2. bound'[a][s] = p /\ (phase[p] = "freed" => phase'[p] = "freed")
      BY <1>1, <1>2, <2>2, <3>1
    <3>3. QED
      BY <1>5, <3>1, <3>2 DEF WellBound
  <2>3. QED
    BY <2>1, <2>2
<1>7. QED
  BY <1>3, <1>4, <1>6

LEMMA StartKeeps ==
    ASSUME Promises, NEW m \in Modules, Start(m)
    PROVE  Promises'
<1> USE DEF Promises, TypeOK, LivePhases
<1>1. /\ m \in live /\ phase[m] = "Resolved"
      /\ phase' = [phase EXCEPT ![m] = "Initialized"]
      /\ UNCHANGED <<open, live, before, image, bound>>
  BY DEF Start
<1>2. TypeOK'
  BY <1>1
<1>3. OneOrder'
  BY <1>1 DEF OneOrder
<1>4. InitializedInOrder'
  BY <1>1 DEF InitializedInOrder
<1>5. \A p, s : IsProvider(p, s)' <=> IsProvider(p, s)
  BY <1>1 DEF IsProvider
<1>6. \A p \in Modules : phase[p] = "freed" => phase'[p] = "freed"
  BY <1>1
<1>7. \A a \in live : phase'[a] # "Loaded" => phase[a] # "Loaded"
  BY <1>1
<1>8. BoundToFirst'
  BY <1>1, <1>5, <1>6, <1>7 DEF BoundToFirst
<1>9. QED
  BY <1>2, <1>3, <1>4, <1>8

(* Whatever goes, the first that is left is still the first. *)
LEMMA UnloadKeeps ==
    ASSUME Promises, NEW m \in Modules, Unload(m)
    PROVE  Promises'
<1> USE DEF Promises, TypeOK, LivePhases
<1>1. /\ m \in live /\ live' = live \ {m}
      /\ before' = {e \in before : m \notin {e[1], e[2]}}
      /\ phase' = [phase EXCEPT ![m] = "freed"]
      /\ UNCHANGED <<open, image, bound>>
  BY DEF Unload
<1>2. TypeOK'
  BY <1>1
<1>3. \A a, b \in live' : <<a, b>> \in before' <=> <<a, b>> \in before
  BY <1>1
<1>4. OneOrder'
  <2>1. \A a, b \in live' : a # b <=> (<<a, b>> \in before' \/ <<b, a>> \in before')
    BY <1>1, <1>3 DEF OneOrder
  <2>2. \A a, b \in live' : <<a, b>> \in before' => <<b, a>> \notin before'
    BY <1>1, <1>3 DEF OneOrder
  <2>3. \A a, b, c \in live' :
           <<a, b>> \in before' /\ <<b, c>> \in before' => <<a, c>> \in before'
    BY <1>1, <1>3 DEF OneOrder
  <2>4. QED
    BY <2>1, <2>2, <2>3 DEF OneOrder
<1>5. InitializedInOrder'
  BY <1>1, <1>3 DEF InitializedInOrder
<1>6. \A p \in live' : \A s : IsProvider(p, s) => IsProvider(p, s)'
  BY <1>1, <1>3 DEF IsProvider
<1>7. BoundToFirst'
  <2> SUFFICES ASSUME NEW a \in live', NEW s \in Symbols,
                      phase'[a] # "Loaded", s \in Needs[image[a]]
               PROVE  LET p == bound[a][s]
                      IN  p \in Modules /\ (phase'[p] = "freed" \/ IsProvider(p, s)')
    BY <1>1 DEF BoundToFirst
  <2> DEFINE p == bound[a][s]
  <2>1. p \in Modules /\ (phase[p] = "freed" \/ IsProvider(p, s))
    BY <1>1 DEF BoundToFirst
  <2>2. CASE phase[p] = "freed" \/ p = m
    BY <1>1, <2>1, <2>2 DEF WellBound
  <2>3. CASE IsProvider(p, s) /\ p # m
    <3>1. p \in live'
      BY <1>1, <2>3 DEF IsProvider
    <3>2. IsProvider(p, s)'
      BY <1>1, <1>6, <2>3, <3>1
    <3>3. QED
      BY <1>1, <2>1, <3>2 DEF WellBound
  <2>4. QED
    BY <2>1, <2>2, <2>3
<1>8. QED
  BY <1>2, <1>4, <1>5, <1>7

LEMMA PromisesInvariant == Spec => []Promises
<1>1. Init => Promises
  BY DEF Init, Promises, TypeOK, LivePhases, OneOrder, InitializedInOrder,
         BoundToFirst
<1>2. Promises /\ [Next]_vars => Promises'
  <2> SUFFICES ASSUME Promises, [Next]_vars PROVE Promises'
    OBVIOUS
  <2>1. ASSUME NEW m \in Modules, Open(m) PROVE Promises'
    <3>1. AddLast(m, Main) /\ open' \in BOOLEAN
      BY <2>1 DEF Open
    <3>2. QED
      BY <3>1, AddKeeps
  <2>2. ASSUME NEW m \in Modules, NEW img \in Images, Load(m, img)
        PROVE  Promises'
    <3>1. AddLast(m, img) /\ open' \in BOOLEAN
      BY <2>2 DEF Load, Promises, TypeOK
    <3>2. QED
      BY <3>1, AddKeeps
  <2>3. CASE Close
    <3>1. /\ UNCHANGED <<live, before, image, phase, bound>>
          /\ open' \in BOOLEAN
          /\ \A p, s : IsProvider(p, s)' <=> IsProvider(p, s)
      BY <2>3 DEF Close, IsProvider
    <3>2. TypeOK' /\ OneOrder' /\ InitializedInOrder'
      BY <3>1 DEF Promises, TypeOK, OneOrder, InitializedInOrder
    <3>3. BoundToFirst'
      BY <3>1 DEF Promises, BoundToFirst
    <3>4. QED
      BY <3>2, <3>3 DEF Promises
  <2>4. CASE UNCHANGED vars
    <3>1. /\ UNCHANGED <<open, live, before, image, phase, bound>>
          /\ \A p, s : IsProvider(p, s)' <=> IsProvider(p, s)
      BY <2>4 DEF vars, IsProvider
    <3>2. TypeOK' /\ OneOrder' /\ InitializedInOrder'
      BY <3>1 DEF Promises, TypeOK, OneOrder, InitializedInOrder
    <3>3. BoundToFirst'
      BY <3>1 DEF Promises, BoundToFirst
    <3>4. QED
      BY <3>2, <3>3 DEF Promises
  <2>5. ASSUME NEW m \in Modules, Bind(m) \/ Start(m) \/ Unload(m)
        PROVE  Promises'
    <3>1. CASE Bind(m)
      BY <3>1, BindKeeps
    <3>2. CASE Start(m)
      BY <3>2, StartKeeps
    <3>3. CASE Unload(m)
      BY <3>3, UnloadKeeps
    <3>4. QED
      BY <2>5, <3>1, <3>2, <3>3
  <2>6. CASE Next
    <3>1. CASE Close
      BY <2>3, <3>1
    <3>2. CASE ~Close
      <4>1. PICK m \in Modules :
               Open(m) \/ (\E img \in Images : Load(m, img))
                 \/ Bind(m) \/ Start(m) \/ Unload(m)
        BY <2>6, <3>2 DEF Next
      <4>2. QED
        BY <2>1, <2>2, <2>5, <4>1
    <3>3. QED
      BY <3>1, <3>2
  <2>7. QED
    BY <2>4, <2>6
<1>3. QED
  BY <1>1, <1>2, PTL DEF Spec

LEMMA MainFirstStep ==
    ASSUME Promises, MainIsFirst, [Next]_vars, Main \notin Images
    PROVE  MainIsFirst'
<1> USE DEF Promises, TypeOK
<1>1. ASSUME NEW m \in Modules, Open(m) PROVE MainIsFirst'
  BY <1>1 DEF Open, AddLast, MainIsFirst
<1>2. ASSUME NEW m \in Modules, NEW img \in Images, Load(m, img)
      PROVE  MainIsFirst'
  <2>1. /\ live' = live \cup {m} /\ before' = before \cup (live \X {m})
        /\ image' = [image EXCEPT ![m] = img] /\ open /\ open'
        /\ m \notin live
    BY <1>2 DEF Load, AddLast, LivePhases
  <2>2. ASSUME NEW a \in live', NEW b \in live', image'[a] = Main, a # b
        PROVE  <<a, b>> \in before'
    <3>1. a \in live /\ image[a] = Main
      BY <2>1, <2>2
    <3>2. QED
      BY <2>1, <2>2, <3>1 DEF MainIsFirst
  <2>3. QED
    BY <2>1, <2>2 DEF MainIsFirst
<1>3. ASSUME NEW m \in Modules, Bind(m) \/ Start(m)
      PROVE  MainIsFirst'
  BY <1>3 DEF Bind, Start, MainIsFirst
<1>4. ASSUME NEW m \in Modules, Unload(m) PROVE MainIsFirst'
  BY <1>4 DEF Unload, MainIsFirst
<1>5. CASE Close
  BY <1>5 DEF Close, MainIsFirst
<1>6. CASE UNCHANGED vars
  BY <1>6 DEF vars, MainIsFirst
<1>7. CASE Next /\ ~Close
  <2>1. PICK m \in Modules :
           Open(m) \/ (\E img \in Images : Load(m, img))
             \/ Bind(m) \/ Start(m) \/ Unload(m)
    BY <1>7 DEF Next
  <2>2. QED
    BY <1>1, <1>2, <1>3, <1>4, <2>1
<1>8. QED
  BY <1>5, <1>6, <1>7
-----------------------------------------------------------------------------
(* The live modules stay in one strict total order, in which only the last *)
(* can come (ld.c, 700-737).                                               *)
THEOREM MapOneOrder == Spec => []OneOrder
<1>1. Promises => OneOrder
  BY DEF Promises
<1>2. QED
  BY <1>1, PromisesInvariant, PTL

(* Whatever is loaded and unloaded in between, a module that is resolved   *)
(* has only initialized modules before it (ld.c, 780-784).                 *)
THEOREM MapInitializedInOrder == Spec => []InitializedInOrder
<1>1. Promises => InitializedInOrder
  BY DEF Promises
<1>2. QED
  BY <1>1, PromisesInvariant, PTL

(* What a module was bound to is unloaded, or is still the first that      *)
(* exports the name (ld.c, 394-409).                                       *)
THEOREM MapBoundToFirst == Spec => []BoundToFirst
<1>1. Promises => BoundToFirst
  BY DEF Promises
<1>2. QED
  BY <1>1, PromisesInvariant, PTL

(* If no NRO has the image of the program, the main module comes first,    *)
(* and a lifetime begins with nothing left of the one before (ld.c,        *)
(* 629-698).                                                               *)
THEOREM MapMainIsFirst ==
    ASSUME Main \notin Images
    PROVE  Spec => []MainIsFirst
<1>1. Init => MainIsFirst
  BY DEF Init, MainIsFirst
<1>2. Promises /\ MainIsFirst /\ [Next]_vars => MainIsFirst'
  BY MainFirstStep
<1>3. QED
  BY <1>1, <1>2, PromisesInvariant, PTL DEF Spec
=============================================================================
