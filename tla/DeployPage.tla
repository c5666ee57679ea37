------------------------------ MODULE DeployPage ------------------------------
(***************************************************************************)
(* The deploy page (Deploy.tsx, api.ts, the deploy routes) over runs that  *)
(* keep the promises of DeployRuns, which Deploy implements.               *)
(*                                                                         *)
(* The page shows one run and, while that is running, asks for it every    *)
(* 2 s.  Nothing cancels a request or orders the answers: one of an        *)
(* earlier run, or an older one of the same run, is shown when it comes.   *)
(***************************************************************************)
EXTENDS DeployRuns

CONSTANTS
  Polls          \* bound: polls under way at once

VARIABLES
  past,          \* rows of deploy_runs so far; the history list is made of some
  active,        \* the run that is shown, as a set of at most one row
  req            \* req[s]: poll s, or the request of the deploy button

pageVars == <<status, result, past, active, req>>

Slots == Polls \cup {"deploy"}

(* getDeployRun.                                                            *)
Row(r) == [id |-> r, status |-> status[r], result |-> result[r]]
Shown == { Row(r) : r \in { s \in Runs : status[s] # "none" } }

Idle == [phase |-> "idle"]
Asked(r) == [phase |-> "asked", id |-> r]
Read(row) == [phase |-> "read", row |-> row]

Rows ==
  [id : Runs, status : {"running", "completed", "failed"},
   result : [Hosts -> {"absent", "pending", "offline", "running", "success", "failed"}]]

TypeOK ==
  /\ past \subseteq Rows
  /\ active \subseteq Rows /\ \A a, b \in active : a = b
  /\ req \in [Slots -> {Idle} \cup { Asked(r) : r \in Runs } \cup { Read(row) : row \in past }]

PageInit ==
  /\ Init
  /\ past = {} /\ active = {}
  /\ req = [s \in Slots |-> Idle]
-----------------------------------------------------------------------------
Remember == past' = past \cup Shown'

(* The runs go on: the jobs of the supervisor, other pages.                 *)
RunsGoOn == Next /\ Remember /\ UNCHANGED <<active, req>>

(* The deploy button: the run is started, then asked for by its id.  The    *)
(* button is disabled meanwhile.                                            *)
deploy(r) ==
  /\ req["deploy"] = Idle
  /\ \E targets, up \in SUBSET Hosts : Start(r, targets, up)
  /\ Remember
  /\ req' = [req EXCEPT !["deploy"] = Asked(r)]
  /\ UNCHANGED active

\* faulty: asks only while some host waits for its start
PollPending(s) ==
  /\ req[s] = Idle
  /\ \E row \in active :
       /\ row.status = "running" /\ \E h \in Hosts : row.result[h] = "pending"
       /\ req' = [req EXCEPT ![s] = Asked(row.id)]
  /\ UNCHANGED <<status, result, past, active>>
(* A tick of the interval, which belongs to the run that is shown.          *)
Poll(s) ==
  /\ req[s] = Idle
  /\ \E row \in active : row.status = "running" /\ req' = [req EXCEPT ![s] = Asked(row.id)]
  /\ UNCHANGED <<status, result, past, active>>

fetchDeployRun(s) ==
  /\ req[s].phase = "asked"
  /\ req' = [req EXCEPT ![s] = Read(Row(req[s].id))]
  /\ UNCHANGED <<status, result, past, active>>

\* faulty: the answer updates the status of whatever run is shown
ArriveMerged(s) ==
  /\ req[s].phase = "read"
  /\ active' = IF active = {} THEN {req[s].row}
               ELSE { [row EXCEPT !.status = req[s].row.status] : row \in active }
  /\ req' = [req EXCEPT ![s] = Idle]
  /\ UNCHANGED <<status, result, past>>
(* setActiveRun with an answer, whichever run it is of.                     *)
Arrive(s) ==
  /\ req[s].phase = "read"
  /\ active' = {req[s].row}
  /\ req' = [req EXCEPT ![s] = Idle]
  /\ UNCHANGED <<status, result, past>>

(* A poll that fails is ignored; after a failed request of the button the   *)
(* page says "Deploy failed to start", and the run goes on unseen.          *)
RequestFails(s) ==
  /\ req[s] # Idle
  /\ req' = [req EXCEPT ![s] = Idle]
  /\ UNCHANGED <<status, result, past, active>>

(* A row of the history list, as old as the list is.                        *)
Pick ==
  /\ \E row \in past : active' = {row}
  /\ UNCHANGED <<status, result, past, req>>
-----------------------------------------------------------------------------
PageNext ==
  \/ RunsGoOn
  \/ \E r \in Runs : deploy(r)
  \/ \E s \in Polls : Poll(s)
  \/ \E s \in Slots : fetchDeployRun(s) \/ Arrive(s) \/ RequestFails(s)
  \/ Pick

PageSpec == PageInit /\ [][PageNext]_pageVars

(* The interval ticks while its run is shown as running, and not all        *)
(* requests fail.                                                           *)
FairSpec ==
  /\ PageSpec
  /\ \A s \in Polls : WF_pageVars(Poll(s)) /\ SF_pageVars(fetchDeployRun(s)) /\ SF_pageVars(Arrive(s))
-----------------------------------------------------------------------------
(***************************************************************************)
(* Properties                                                              *)
(***************************************************************************)

(* A verdict that is shown is the run's own and stays true, hosts included, *)
(* however late the answer: rows of ended runs do not change (Deploy.tsx,   *)
(* deploy-db.ts).                                                           *)
ShownVerdictIsFinal ==
  \A row \in active : row.status # "running" => row = Row(row.id)

(* A run shown as running though it has ended does not stay on the page     *)
(* like that: its verdict is shown, or the page leaves it (the interval).   *)
VerdictIsShown ==
  \A r \in Runs :
    (\E row \in active : row.id = r /\ row.status = "running") /\ status[r] \in {"completed", "failed"}
      ~> ~(\E row \in active : row.id = r /\ row.status = "running")
===============================================================================
