------------------------------ MODULE MachinePage -----------------------------
(***************************************************************************)
(* The page of one machine (MachineDetail.tsx, api.ts) over the routes it  *)
(* reads (routes.ts, fah-projects.ts): history and latest snapshot, asked  *)
(* for every minute and on a change of the range, and what Folding@home    *)
(* says of the project in work.                                            *)
(*                                                                         *)
(* Answers of load() are shown in the order they come; an answer about a   *)
(* project is dropped when the page has turned to another one meanwhile.   *)
(* A state update and the effect it triggers are one step.                 *)
(***************************************************************************)
EXTENDS Naturals

CONSTANTS
  Ranges,        \* the ranges of the history (RANGES)
  Projects,      \* projects of Folding@home
  Loads,         \* bound: load() calls under way at once
  MaxChanges     \* bound: changes of the range and of the project in work

ASSUME PageAssumption == MaxChanges \in Nat /\ "none" \notin Projects

VARIABLES
  project,       \* the project of the machine's latest snapshot
  limit,         \* the range that is chosen
  load,          \* load[l]: a load() and what it has read
  history,       \* the range of the history that is shown
  projectId,     \* the project that is shown, of `machine'
  lookups,       \* project requests under way: of which project, cancelled or not
  info,          \* the project whose description is held, "none" without
  projectLoading,
  changes        \* changes so far

request == <<limit, history>>
panel == <<projectId, lookups, info, projectLoading>>
vars == <<project, load, request, panel, changes>>

Some == Projects \cup {"none"}
Idle == [phase |-> "idle"]

TypeOK ==
  /\ project \in Some
  /\ limit \in Ranges /\ history \in Ranges \cup {"none"}
  /\ \A l \in Loads :
       \/ load[l] = Idle
       \/ load[l] \in [phase : {"asked"}, limit : Ranges]
       \/ load[l] \in [phase : {"read"}, limit : Ranges, project : Some]
  /\ projectId \in Some /\ info \in Some /\ projectLoading \in BOOLEAN
  /\ lookups \subseteq [project : Projects, cancelled : BOOLEAN]
  /\ changes \in 0..MaxChanges

Init ==
  /\ project \in Projects
  /\ limit \in Ranges /\ history = "none"
  /\ load = [l \in Loads |-> Idle]
  /\ projectId = "none" /\ info = "none" /\ projectLoading = FALSE
  /\ lookups = {}
  /\ changes = 0
-----------------------------------------------------------------------------
(* The machine reports another project, or none.                            *)
Ingest ==
  /\ changes < MaxChanges /\ changes' = changes + 1
  /\ project' \in Some \ {project}
  /\ UNCHANGED <<load, request, panel>>

(* A click on a range; the interval is set anew with the load of the range. *)
setLimit(l) ==
  /\ changes < MaxChanges /\ changes' = changes + 1
  /\ load[l] = Idle
  /\ \E r \in Ranges \ {limit} :
       limit' = r /\ load' = [load EXCEPT ![l] = [phase |-> "asked", limit |-> r]]
  /\ UNCHANGED <<project, history, panel>>

\* faulty: the interval is set once and keeps the range the page opened with
loadStale(l) ==
  /\ load[l] = Idle
  /\ \E r \in Ranges :
       /\ IF history = "none" THEN r = limit ELSE r = history
       /\ load' = [load EXCEPT ![l] = [phase |-> "asked", limit |-> r]]
  /\ UNCHANGED <<project, request, panel, changes>>
(* The page opens, or the interval ticks.                                   *)
loadTick(l) ==
  /\ load[l] = Idle
  /\ load' = [load EXCEPT ![l] = [phase |-> "asked", limit |-> limit]]
  /\ UNCHANGED <<project, request, panel, changes>>

(* GET /machines/:name and GET /snapshots/:name.                            *)
fetchMachine(l) ==
  /\ load[l].phase = "asked"
  /\ load' = [load EXCEPT ![l] = [phase |-> "read", limit |-> @.limit, project |-> project]]
  /\ UNCHANGED <<project, request, panel, changes>>

(* One of the two failed: the page shows an error and keeps what it has.    *)
loadFails(l) ==
  /\ load[l] # Idle
  /\ load' = [load EXCEPT ![l] = Idle]
  /\ UNCHANGED <<project, request, panel, changes>>

(* The effect of projectId: what is under way for another project is        *)
(* cancelled; the description that was held stays, behind "loading".        *)
projectEffect(id) ==
  LET cancelled == { [k EXCEPT !.cancelled = TRUE] : k \in lookups }
  IN  IF id = "none"
      THEN lookups' = cancelled /\ info' = "none" /\ projectLoading' = FALSE
      ELSE /\ lookups' = cancelled \cup {[project |-> id, cancelled |-> FALSE]}
           /\ projectLoading' = TRUE /\ UNCHANGED info

(* setMachine and setHistory.                                               *)
loaded(l) ==
  /\ load[l].phase = "read"
  /\ load' = [load EXCEPT ![l] = Idle]
  /\ history' = load[l].limit
  /\ projectId' = load[l].project
  /\ IF projectId' = projectId THEN UNCHANGED <<lookups, info, projectLoading>>
     ELSE projectEffect(projectId')
  /\ UNCHANGED <<project, limit, changes>>

(* The answers to a request about project id: its description, from the     *)
(* cache or Folding@home, or none, if there is none or the request fails.   *)
fetchFahProject(id) == {id, "none"}

\* faulty: nobody looks at `cancelled'
projectAnsweredLate(k) ==
  /\ lookups' = lookups \ {k}
  /\ \E answer \in fetchFahProject(k.project) : info' = answer /\ projectLoading' = FALSE
  /\ UNCHANGED <<project, load, request, projectId, changes>>
(* An answer is dropped when the effect it belongs to was cancelled; one    *)
(* without a description stays until the project changes.                   *)
projectAnswered(k) ==
  /\ lookups' = lookups \ {k}
  /\ IF k.cancelled THEN UNCHANGED <<info, projectLoading>>
     ELSE \E answer \in fetchFahProject(k.project) : info' = answer /\ projectLoading' = FALSE
  /\ UNCHANGED <<project, load, request, projectId, changes>>
-----------------------------------------------------------------------------
Next ==
  \/ Ingest
  \/ \E l \in Loads :
       setLimit(l) \/ loadTick(l) \/ fetchMachine(l) \/ loadFails(l) \/ loaded(l)
  \/ \E k \in lookups : projectAnswered(k)

Spec == Init /\ [][Next]_vars

(* The interval goes on, and not all of its requests fail.                  *)
FairSpec ==
  /\ Spec
  /\ \A l \in Loads : WF_vars(loadTick(l)) /\ SF_vars(fetchMachine(l)) /\ SF_vars(loaded(l))
-----------------------------------------------------------------------------
(***************************************************************************)
(* Properties                                                              *)
(***************************************************************************)

(* A description that is shown is that of the project that is shown, in     *)
(* whatever order loads, project changes and answers come (`cancelled').    *)
InfoOfShownProject == ~projectLoading /\ info # "none" => info = projectId

(* The page comes to show the chosen range and the machine's project, also  *)
(* when the answer for an earlier range came last.                          *)
PageConverges == <>[](history = limit /\ projectId = project)
===============================================================================
