-------------------------------- MODULE Deploy --------------------------------
(***************************************************************************)
(* Deploy runs of the supervisor (apps/supervisor/src/deploy.ts, deploy-   *)
(* db.ts and the push in agent-update.ts, and their port in the crates),   *)
(* composed with the agents they update (AgentUpdate).                     *)
(*                                                                         *)
(* A run is a row of table deploy_runs and a job: one task per target, and *)
(* the job that waits for all of them and writes the verdict.  Tasks of    *)
(* one run, and several runs, interleave at the await of their push; a     *)
(* database access is one step.  A crash of the supervisor ends jobs,      *)
(* tasks and connections; the table stays.                                 *)
(*                                                                         *)
(* A request of AgentUpdate is the push of a target: <<run, host, copy>>.  *)
(* The copies are equal names in the list a client sends, which the code   *)
(* does not merge.  Requests says which hosts a run may name.              *)
(***************************************************************************)
EXTENDS AgentUpdate

CONSTANTS
  Runs,          \* deploy runs that may ever be started
  Hosts,         \* hostnames of the machines table
  Copies,        \* how often a name may stand in a target list
  LongLogs,      \* may truncate_log of the crates cut a UTF-8 character: it panics
  MaxDeaths      \* bound: crashes of the supervisor

ASSUME DeployAssumption ==
  /\ Agents = Hosts
  /\ Requests \subseteq Runs \X Hosts \X Copies
  /\ AgentOf = [q \in Requests |-> q[2]]
  /\ LongLogs \in BOOLEAN /\ MaxDeaths \in Nat

VARIABLES
  runStatus,     \* deploy_runs.status, "none" while the row does not exist
  result,        \* result[r][h]: status of host h in deploy_runs.results
  task,          \* task[q]: the task of target q
  job,           \* job[r]: run_deploy_job of r has still to write the verdict
  deaths         \* history: crashes of the supervisor so far

runVars == <<runStatus, result, task, job, deaths>>
vars == <<agentVars, runVars>>

RunStates == {"none", "running", "completed", "failed"}
Results == {"absent", "pending", "offline", "running", "success", "failed"}
TaskStates == {"none", "ready", "waiting", "done", "panicked", "gone"}

TypeOK ==
  /\ AgentTypeOK
  /\ runStatus \in [Runs -> RunStates]
  /\ result \in [Runs -> [Hosts -> Results]]
  /\ task \in [Requests -> TaskStates]
  /\ job \in [Runs -> BOOLEAN]
  /\ deaths \in Nat

Init ==
  /\ AgentInit
  /\ runStatus = [r \in Runs |-> "none"]
  /\ result = [r \in Runs |-> [h \in Hosts |-> "absent"]]
  /\ task = [q \in Requests |-> "none"]
  /\ job = [r \in Runs |-> FALSE]
  /\ deaths = 0

TargetsOf(r) == { q \in Requests : q[1] = r /\ task[q] # "none" }
-----------------------------------------------------------------------------
(* Node starts the tasks of a run in the turn that creates it.              *)
Settled == Crates \/ \A q \in Requests : task[q] # "ready"

(* startAgentDeploy with the known ones of the named hosts, of which `up'   *)
(* are online by the machines table; without a known host it is an error    *)
(* and nothing changes.                                                     *)
StartDeploy(r, targets, up) ==
  LET named == { q[2] : q \in targets }
  IN  /\ runStatus[r] = "none" /\ Settled
      /\ targets # {} /\ targets \subseteq { p \in Requests : p[1] = r }
      /\ up \subseteq named
      /\ runStatus' = [runStatus EXCEPT ![r] = "running"]
      /\ result' = [result EXCEPT ![r] =
            [h \in Hosts |-> IF h \notin named THEN "absent"
                             ELSE IF h \in up THEN "pending" ELSE "offline"]]
      /\ task' = [q \in Requests |-> IF q \in targets THEN "ready" ELSE task[q]]
      /\ job' = [job EXCEPT ![r] = TRUE]
      /\ UNCHANGED <<agentVars, deaths>>

\* faulty: a host's status is written to the row instead of its host
PatchRow(q, status) ==
  /\ result' = [result EXCEPT ![q[1]][q[2]] = status]
  /\ runStatus' = [runStatus EXCEPT ![q[1]] = status]
(* patchHost: read, merge and write at once; whatever the row's status was, *)
(* it becomes "running".                                                    *)
Patch(q, status) ==
  /\ result' = [result EXCEPT ![q[1]][q[2]] = status]
  /\ runStatus' = [runStatus EXCEPT ![q[1]] = "running"]

\* faulty: an offline host is tried all the same
TaskStartAlways(q) ==
  /\ task[q] = "ready"
  /\ task' = [task EXCEPT ![q] = "waiting"]
  /\ Patch(q, "running")
  /\ Open(q) \/ UNCHANGED agentVars
  /\ UNCHANGED <<job, deaths>>

(* A task leaves an offline host alone; otherwise it marks the host and     *)
(* posts to the agent, which it may not reach.                              *)
TaskStart(q) ==
  /\ task[q] = "ready"
  /\ IF result[q[1]][q[2]] = "offline"
     THEN /\ task' = [task EXCEPT ![q] = "done"]
          /\ UNCHANGED <<agentVars, runStatus, result>>
     ELSE /\ task' = [task EXCEPT ![q] = "waiting"]
          /\ Patch(q, "running")
          /\ Open(q) \/ UNCHANGED agentVars
  /\ UNCHANGED <<job, deaths>>

\* faulty: a connection the agent broke counts as its restart after the update
VerdictOfLenient(q) == IF answer[q] \in {"ok", "lost"} THEN "success" ELSE "failed"
(* The result of a push.  Whatever ends it without an answer has a text     *)
(* that Node's likelyRestart matches: "fetch failed" (never reached, or     *)
(* broken) and "aborted due to timeout" count as success.  The texts of     *)
(* reqwest do not match.                                                    *)
VerdictOf(q) ==
  IF answer[q] = "ok" \/ (~Crates /\ answer[q] \in {"none", "lost"})
  THEN "success" ELSE "failed"

(* The push has returned: no connection, or an answer.                      *)
TaskEnd(q) ==
  /\ task[q] = "waiting" /\ Settled
  /\ conn[q] = "none" \/ answer[q] # "none"
  /\ task' = [task EXCEPT ![q] = "done"]
  /\ Patch(q, VerdictOf(q))
  /\ UNCHANGED <<agentVars, job, deaths>>

\* faulty: a timeout is not written to the row
TaskTimeoutSilent(q) ==
  /\ task[q] = "waiting" /\ Settled
  /\ conn[q] = "open" /\ answer[q] = "none"
  /\ Close({q})
  /\ task' = [task EXCEPT ![q] = "done"]
  /\ UNCHANGED <<runStatus, result, job, deaths>>
\* faulty: the push has no timeout
TaskTimeoutNever(q) == task[q] = "none" /\ Close({q}) /\ UNCHANGED runVars

\* faulty: the pushes to one agent share the signal that aborts their fetch
TaskTimeoutShared(q) ==
  /\ task[q] = "waiting" /\ Settled
  /\ conn[q] = "open" /\ answer[q] = "none"
  /\ Close({ p \in Requests : AgentOf[p] = AgentOf[q] })
  /\ task' = [task EXCEPT ![q] = "done"]
  /\ Patch(q, VerdictOf(q))
  /\ UNCHANGED <<job, deaths>>
(* 600 s passed: the client gives up and closes the connection.             *)
TaskTimeout(q) ==
  /\ task[q] = "waiting" /\ Settled
  /\ conn[q] = "open" /\ answer[q] = "none"
  /\ Close({q})
  /\ task' = [task EXCEPT ![q] = "done"]
  /\ Patch(q, VerdictOf(q))
  /\ UNCHANGED <<job, deaths>>

(* truncate_log of the crates panics on a long output before the result is  *)
(* written.                                                                 *)
TaskPanics(q) ==
  /\ Crates /\ LongLogs
  /\ task[q] = "waiting" /\ answer[q] \in {"ok", "failed"}
  /\ task' = [task EXCEPT ![q] = "panicked"]
  /\ UNCHANGED <<agentVars, runStatus, result, job, deaths>>

Tried(r) == { h \in Hosts : result[r][h] \notin {"absent", "offline"} }

\* faulty: the verdict does not wait for the tasks
JoinedEarly(r) == job[r]
(* All tasks have ended, panicked ones too.                                 *)
Joined(r) == job[r] /\ \A q \in TargetsOf(r) : task[q] \in {"done", "panicked"}

(* The end of runDeployJob.                                                 *)
FinishRun(r) ==
  /\ Joined(r)
  /\ runStatus' = [runStatus EXCEPT ![r] =
        IF Tried(r) # {} /\ \A h \in Tried(r) : result[r][h] = "failed"
        THEN "failed" ELSE "completed"]
  /\ job' = [job EXCEPT ![r] = FALSE]
  /\ UNCHANGED <<agentVars, result, task, deaths>>

(* The supervisor dies; nothing resumes or ends the runs of its past life.  *)
SupervisorDies ==
  /\ deaths < MaxDeaths
  /\ deaths' = deaths + 1
  /\ Close(Requests)
  /\ task' = [q \in Requests |-> IF task[q] \in {"ready", "waiting"} THEN "gone" ELSE task[q]]
  /\ job' = [r \in Runs |-> FALSE]
  /\ UNCHANGED <<runStatus, result>>
-----------------------------------------------------------------------------
TaskStep(q) ==
  \/ TaskStart(q)
  \/ TaskEnd(q)
  \/ TaskTimeout(q)
  \/ TaskPanics(q)

Next ==
  \/ \E r \in Runs :
        \E targets \in SUBSET { p \in Requests : p[1] = r }, up \in SUBSET Hosts :
           StartDeploy(r, targets, up)
  \/ \E q \in Requests : TaskStep(q)
  \/ \E r \in Runs : FinishRun(r)
  \/ SupervisorDies
  \/ AgentStep /\ UNCHANGED runVars

Spec == Init /\ [][Next]_vars

(* The supervisor runs its tasks, and a timer of the client ends every      *)
(* push; of the agents nothing is assumed.                                  *)
FairSpec ==
  /\ Spec
  /\ \A q \in Requests : WF_vars(TaskStep(q))
  /\ \A r \in Runs : WF_vars(FinishRun(r))
-----------------------------------------------------------------------------
(***************************************************************************)
(* Properties                                                              *)
(***************************************************************************)

(* Without equal names in a target list, every run is one of DeployRuns:    *)
(* tasks that patch one JSON column in turn lose no result and take none    *)
(* back, and the unconditional status "running" of a patch never            *)
(* reopens a run (patchHost, runDeployJob).                                 *)
Lifecycle == INSTANCE DeployRuns WITH status <- runStatus
RunLifecycle == Lifecycle!Spec

(* A verdict accounts for every host: nothing is pending, and a host still  *)
(* "running" is one whose task panicked.                                    *)
VerdictAccounts ==
  \A r \in Runs : runStatus[r] \in {"completed", "failed"} =>
    \A h \in Hosts :
      /\ result[r][h] # "pending"
      /\ result[r][h] = "running" =>
           \E q \in TargetsOf(r) : q[2] = h /\ task[q] = "panicked"

(* A host shown as updated ran the update script to its end in this run;    *)
(* timeouts, restarts, a busy agent or a lost answer never look like that   *)
(* in the crates.  Node shows each of them as success (deploy.ts 150).      *)
SuccessMeansInstalled ==
  \A r \in Runs, h \in Hosts :
    result[r][h] = "success" =>
      \E q \in TargetsOf(r) : q[2] = h /\ script[q] = "ok"

(* "Offline nodes are skipped" (docs/installation.md:460): a host its run    *)
(* holds for offline stays that way, and no agent is asked for it.          *)
OfflineNeverPushed ==
  [][\A q \in Requests :
       result[q[1]][q[2]] = "offline" =>
         result'[q[1]][q[2]] = "offline" /\ conn'[q] = "none"]_vars

(* While every client waits for its answer, the flag of an agent is set     *)
(* only as long as a handler works, whatever fails: it cannot lock an agent *)
(* out of its updates (runAgentUpdate).                                     *)
FlagHeldByHandler ==
  \A a \in Agents :
    LET mine == { q \in Requests : AgentOf[q] = a }
    IN  flag[a] /\ (\A q \in mine : conn[q] # "closed") =>
          \E q \in mine : handler[q] \in {"preparing", "running"}

(* A run is "running" because its job waits, and then only for tasks each   *)
(* of which can still end (not sent yet, no connection, an answer, or one   *)
(* that the timeout closes), or because the supervisor died: no push, panic *)
(* or second copy of a name leaves a run waiting for nothing.               *)
RunsCanEnd ==
  \A r \in Runs : runStatus[r] = "running" =>
    \/ ~job[r] /\ deaths > 0
    \/ job[r] /\ \A q \in TargetsOf(r) :
         \/ task[q] \in {"ready", "done", "panicked"}
         \/ task[q] = "waiting" /\ (conn[q] # "closed" \/ answer[q] # "none")

(* A run without a job keeps its row for ever, the verdict as well as the   *)
(* "running" a crash leaves behind, whatever late answers, agents that go   *)
(* on, equal names or other runs do (patchHost rewrites the whole row).     *)
EndedRunsStay ==
  [][\A r \in Runs : runStatus[r] # "none" /\ ~job[r] =>
       UNCHANGED <<runStatus[r], result[r], job[r]>>]_vars

(* Every run gets its verdict unless the supervisor dies, whatever the      *)
(* agents do: a hanging script, a restart, a panic of one task.             *)
RunsEnd ==
  \A r \in Runs : runStatus[r] = "running" /\ job[r] ~> runStatus[r] # "running" \/ ~job[r]
==============================================================================
