--------------------------- MODULE MachinePageProofs ---------------------------
(***************************************************************************)
(* Theorems about the page of a machine, for any number of ranges,         *)
(* projects, requests under way and changes.                               *)
(***************************************************************************)
EXTENDS MachinePage, TLAPS

(* A request that is not cancelled is of the project that is shown.         *)
AskedForShown == \A k \in lookups : ~k.cancelled => k.project = projectId

PageInv ==
  /\ TypeOK
  /\ AskedForShown
  /\ InfoOfShownProject

LEMMA PageInvInit == Init => PageInv
<1> SUFFICES ASSUME Init PROVE PageInv
  OBVIOUS
<1>1. \A l \in Loads : load[l] = Idle
  BY DEF Init
<1>2. project \in Some /\ projectId \in Some /\ info \in Some
  BY DEF Init, Some
<1>3. limit \in Ranges /\ history \in Ranges \cup {"none"} /\ projectLoading \in BOOLEAN
  BY DEF Init
<1>4. lookups = {} /\ changes \in 0..MaxChanges
  BY PageAssumption DEF Init
<1>5. TypeOK
  BY <1>1, <1>2, <1>3, <1>4 DEF TypeOK
<1>. QED BY <1>5 DEF Init, PageInv, AskedForShown, InfoOfShownProject

(* The requests after the effect of projectId.                              *)
LEMMA EffectKeepsInv ==
  ASSUME PageInv, NEW id \in Some, projectEffect(id), projectId' = id
  PROVE  /\ lookups' \subseteq [project : Projects, cancelled : BOOLEAN]
         /\ info' \in Some /\ projectLoading' \in BOOLEAN
         /\ AskedForShown' /\ InfoOfShownProject'
<1> DEFINE cancelled == { [k EXCEPT !.cancelled = TRUE] : k \in lookups }
<1>1. \A k \in cancelled : k \in [project : Projects, cancelled : BOOLEAN] /\ k.cancelled
  BY DEF PageInv, TypeOK
<1>2. projectEffect(id) =>
        IF id = "none"
        THEN lookups' = cancelled /\ info' = "none" /\ projectLoading' = FALSE
        ELSE /\ lookups' = cancelled \cup {[project |-> id, cancelled |-> FALSE]}
             /\ projectLoading' = TRUE /\ info' = info
  BY DEF projectEffect
<1> HIDE DEF cancelled
<1>3. CASE id = "none"
  <2>1. lookups' = cancelled /\ info' = "none" /\ projectLoading' = FALSE
    BY <1>3, <1>2
  <2>. QED BY <1>1, <2>1 DEF AskedForShown, InfoOfShownProject, Some
<1>4. CASE id # "none"
  <2>1. /\ lookups' = cancelled \cup {[project |-> id, cancelled |-> FALSE]}
        /\ projectLoading' = TRUE /\ info' = info
    BY <1>4, <1>2
  <2>2. id \in Projects
    BY <1>4 DEF Some
  <2>3. \A k \in lookups' : k \in cancelled \/ k = [project |-> id, cancelled |-> FALSE]
    BY <2>1
  <2>4. [project |-> id, cancelled |-> FALSE] \in [project : Projects, cancelled : BOOLEAN]
    BY <2>2
  <2>5. AskedForShown'
    BY <1>1, <2>3 DEF AskedForShown
  <2>6. lookups' \subseteq [project : Projects, cancelled : BOOLEAN]
    BY <1>1, <2>3, <2>4
  <2>. QED BY <2>1, <2>5, <2>6 DEF InfoOfShownProject, PageInv, TypeOK
<1>. QED BY <1>3, <1>4

(* load() under way is of a range and, once it is read, of a project.       *)
LoadOK(value) ==
  \/ value = Idle
  \/ value \in [phase : {"asked"}, limit : Ranges]
  \/ value \in [phase : {"read"}, limit : Ranges, project : Some]

LEMMA LoadedParts ==
  ASSUME NEW value, LoadOK(value), value.phase = "read"
  PROVE  value.limit \in Ranges /\ value.project \in Some
  BY DEF LoadOK, Idle

LEMMA PageInvStep == PageInv /\ [Next]_vars => PageInv'
<1> SUFFICES ASSUME PageInv, [Next]_vars PROVE PageInv'
  OBVIOUS
<1>0. \A l \in Loads : LoadOK(load[l])
  BY DEF PageInv, TypeOK, LoadOK
<1>1. CASE Ingest
  BY <1>1, PageAssumption
  DEF Ingest, PageInv, TypeOK, AskedForShown, InfoOfShownProject, request, panel, Some
<1>2. ASSUME NEW l \in Loads, setLimit(l) PROVE PageInv'
  <2>1. PICK r \in Ranges :
          limit' = r /\ load' = [load EXCEPT ![l] = [phase |-> "asked", limit |-> r]]
    BY <1>2 DEF setLimit
  <2>2. \A m \in Loads : LoadOK(load'[m])
    BY <1>0, <2>1 DEF LoadOK
  <2>. QED
    BY <1>2, <2>1, <2>2, PageAssumption
    DEF setLimit, PageInv, TypeOK, LoadOK, AskedForShown, InfoOfShownProject, panel
<1>3. ASSUME NEW l \in Loads, loadTick(l) \/ fetchMachine(l) \/ loadFails(l) PROVE PageInv'
  <2>1. /\ UNCHANGED <<project, limit, history, panel, changes>>
        /\ \E value : LoadOK(value) /\ load' = [load EXCEPT ![l] = value]
    <3>1. CASE loadTick(l)
      <4>1. LoadOK([phase |-> "asked", limit |-> limit])
        BY DEF LoadOK, PageInv, TypeOK
      <4>. QED BY <3>1, <4>1 DEF loadTick, request
    <3>2. CASE fetchMachine(l)
      <4>1. load[l].phase = "asked" /\ load[l].limit \in Ranges
        BY <1>0, <3>2 DEF fetchMachine, LoadOK, Idle
      <4>2. LoadOK([phase |-> "read", limit |-> load[l].limit, project |-> project])
        BY <4>1 DEF LoadOK, PageInv, TypeOK
      <4>3. load' = [load EXCEPT ![l] =
                       [phase |-> "read", limit |-> load[l].limit, project |-> project]]
        BY <3>2 DEF fetchMachine
      <4>. QED BY <3>2, <4>2, <4>3 DEF fetchMachine, request
    <3>3. CASE loadFails(l)
      <4>1. LoadOK(Idle)
        BY DEF LoadOK
      <4>. QED BY <3>3, <4>1 DEF loadFails, request
    <3>. QED BY <1>3, <3>1, <3>2, <3>3
  <2>2. \A m \in Loads : LoadOK(load'[m])
    BY <1>0, <2>1
  <2>. QED
    BY <2>1, <2>2 DEF PageInv, TypeOK, LoadOK, AskedForShown, InfoOfShownProject, panel
<1>4. ASSUME NEW l \in Loads, loaded(l) PROVE PageInv'
  <2>1. load[l].limit \in Ranges /\ load[l].project \in Some
    BY <1>0, <1>4, LoadedParts DEF loaded
  <2>2. /\ load' = [load EXCEPT ![l] = Idle]
        /\ history' = load[l].limit /\ projectId' = load[l].project
        /\ UNCHANGED <<project, limit, changes>>
    BY <1>4 DEF loaded
  <2>3. \A m \in Loads : LoadOK(load'[m])
    BY <1>0, <2>2 DEF LoadOK
  <2>4. /\ lookups' \subseteq [project : Projects, cancelled : BOOLEAN]
        /\ info' \in Some /\ projectLoading' \in BOOLEAN
        /\ AskedForShown' /\ InfoOfShownProject'
    <3>1. CASE projectId' = projectId
      BY <1>4, <3>1 DEF loaded, PageInv, TypeOK, AskedForShown, InfoOfShownProject
    <3>2. CASE projectId' # projectId
      BY <1>4, <2>1, <2>2, <3>2, EffectKeepsInv DEF loaded
    <3>. QED BY <3>1, <3>2
  <2>. QED BY <2>1, <2>2, <2>3, <2>4 DEF PageInv, TypeOK, LoadOK
<1>5. ASSUME NEW k \in lookups, projectAnswered(k) PROVE PageInv'
  <2>1. k.project \in Projects /\ k.cancelled \in BOOLEAN
    BY DEF PageInv, TypeOK
  <2>2. lookups' = lookups \ {k} /\ UNCHANGED <<project, load, request, projectId, changes>>
    BY <1>5 DEF projectAnswered, fetchFahProject
  <2>3. CASE k.cancelled
    BY <1>5, <2>2, <2>3
    DEF projectAnswered, fetchFahProject, PageInv, TypeOK, AskedForShown, InfoOfShownProject, request
  <2>4. CASE ~k.cancelled
    <3>1. info' \in {k.project, "none"} /\ projectLoading' = FALSE
      BY <1>5, <2>4 DEF projectAnswered, fetchFahProject
    <3>2. k.project = projectId
      BY <2>4 DEF PageInv, AskedForShown
    <3>. QED
      BY <2>1, <2>2, <3>1, <3>2
      DEF PageInv, TypeOK, AskedForShown, InfoOfShownProject, request, Some
  <2>. QED BY <2>1, <2>3, <2>4
<1>6. CASE UNCHANGED vars
  BY <1>6 DEF vars, request, panel, PageInv, TypeOK, AskedForShown, InfoOfShownProject
<1>. QED BY <1>1, <1>2, <1>3, <1>4, <1>5, <1>6 DEF Next

(* The page's state keeps its types.                                        *)
THEOREM MachinePageTypeCorrect == Spec => []TypeOK
<1>1. PageInv => TypeOK
  BY DEF PageInv
<1>. QED BY <1>1, PageInvInit, PageInvStep, PTL DEF Spec

(* A description of a project is never shown under another project's        *)
(* number, whatever is under way (MachineDetail.tsx, `cancelled').          *)
THEOREM MachinePageInfo == Spec => []InfoOfShownProject
<1>1. PageInv => InfoOfShownProject
  BY DEF PageInv
<1>. QED BY <1>1, PageInvInit, PageInvStep, PTL DEF Spec
================================================================================
