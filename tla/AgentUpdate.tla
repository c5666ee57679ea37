----------------------------- MODULE AgentUpdate -----------------------------
(***************************************************************************)
(* POST /update on the agents (apps/agent/src/agent-http.ts, run-update.ts *)
(* and their port in crates/foldops-agent; Crates says which of the two):  *)
(* the handler that runs the update script, the flag updateInFlight, and   *)
(* the restart that follows a successful update.                           *)
(*                                                                         *)
(* In Node a handler checks and sets the flag in one turn and runs on when *)
(* its client leaves.  In the crates handlers interleave between their     *)
(* check of the flag and their swap of it, and the handler of a closed     *)
(* connection is dropped at an await; the script, a child process,         *)
(* outlives it.  The restart of the service kills everything.              *)
(* A script is here the bash that runs it.  In Node.js the limits of       *)
(* execFile (600 s, 4 MB of output) kill only that bash: what it had       *)
(* started, as a build, may go on after the flag was released, next to a   *)
(* later script.  Such children are not modelled.                          *)
(*                                                                         *)
(* "faulty" definitions are what the code does not do: each replaces the   *)
(* definition that follows it to see that a property notices.              *)
(***************************************************************************)
EXTENDS Integers, FiniteSets

CONSTANTS
  Crates,        \* TRUE: the Rust agents and supervisor, FALSE: the Node.js ones
  Agents,        \* the agent services
  Requests,      \* POST /update requests that may ever be made
  AgentOf,       \* AgentOf[q]: the agent request q goes to
  MaxRestarts    \* bound: restarts of a service from outside, per agent

ASSUME UpdateAssumption ==
  /\ Crates \in BOOLEAN
  /\ AgentOf \in [Requests -> Agents]
  /\ MaxRestarts \in Nat

VARIABLES
  conn,          \* conn[q]: "none", "open", "closed" by the client
  handler,       \* handler[q]: where the handler future of q stands
  script,        \* script[q]: the child process of q
  answer,        \* answer[q]: what the client of q gets
  flag,          \* flag[a]: UPDATE_IN_FLIGHT
  restarting,    \* restarting[a]: a restart is scheduled in 400 ms
  restarts       \* restarts[a]: restarts from outside so far

agentVars == <<conn, handler, script, answer, flag, restarting, restarts>>

HandlerStates == {"none", "arrived", "checked", "preparing", "running", "done"}
ScriptStates == {"none", "running", "ok", "failed", "killed"}
Answers == {"none", "ok", "failed", "busy", "error", "lost"}

AgentTypeOK ==
  /\ conn \in [Requests -> {"none", "open", "closed"}]
  /\ handler \in [Requests -> HandlerStates]
  /\ script \in [Requests -> ScriptStates]
  /\ answer \in [Requests -> Answers]
  /\ flag \in [Agents -> BOOLEAN]
  /\ restarting \in [Agents -> BOOLEAN]
  /\ restarts \in [Agents -> Nat]

AgentInit ==
  /\ conn = [q \in Requests |-> "none"]
  /\ handler = [q \in Requests |-> "none"]
  /\ script = [q \in Requests |-> "none"]
  /\ answer = [q \in Requests |-> "none"]
  /\ flag = [a \in Agents |-> FALSE]
  /\ restarting = [a \in Agents |-> FALSE]
  /\ restarts = [a \in Agents |-> 0]
-----------------------------------------------------------------------------
(* The client's side.                                                       *)
Open(q) ==
  /\ conn[q] = "none"
  /\ conn' = [conn EXCEPT ![q] = "open"]
  /\ handler' = [handler EXCEPT ![q] = "arrived"]
  /\ UNCHANGED <<script, answer, flag, restarting, restarts>>

Close(Q) ==
  /\ conn' = [q \in Requests |-> IF q \in Q /\ conn[q] = "open" THEN "closed" ELSE conn[q]]
  /\ UNCHANGED <<handler, script, answer, flag, restarting, restarts>>
-----------------------------------------------------------------------------
(* The handler of q ends with an answer, unless nobody listens any more.    *)
Respond(q, status) ==
  /\ handler' = [handler EXCEPT ![q] = "done"]
  /\ answer' = [answer EXCEPT ![q] = IF conn[q] = "open" THEN status ELSE @]

(* runAgentUpdate, as far as its first await.                               *)
Take(q) ==
  /\ handler' = [handler EXCEPT ![q] = "preparing"]
  /\ flag' = [flag EXCEPT ![AgentOf[q]] = TRUE]
  /\ UNCHANGED answer

(* POST /update: 409 while the flag is set; Node goes on in the same turn.  *)
Check(q) ==
  /\ handler[q] = "arrived"
  /\ IF flag[AgentOf[q]] THEN Respond(q, "busy") /\ UNCHANGED flag
     ELSE IF Crates
     THEN handler' = [handler EXCEPT ![q] = "checked"] /\ UNCHANGED <<answer, flag>>
     ELSE Take(q)
  /\ UNCHANGED <<conn, script, restarting, restarts>>

\* faulty: the flag is stored, not swapped
SwapStoring(q) ==
  /\ handler[q] = "checked"
  /\ Take(q)
  /\ UNCHANGED <<conn, script, restarting, restarts>>
(* run_agent_update of the crates: the swap decides between two handlers    *)
(* that passed the check; the loser answers 500.                            *)
Swap(q) ==
  /\ handler[q] = "checked"
  /\ IF flag[AgentOf[q]]
     THEN Respond(q, "error") /\ UNCHANGED flag
     ELSE Take(q)
  /\ UNCHANGED <<conn, script, restarting, restarts>>

\* faulty: the early return of a missing script skips the release of the flag
ScriptMissingKeeping(q) ==
  /\ handler[q] = "preparing"
  /\ Respond(q, IF Crates THEN "error" ELSE "failed")
  /\ UNCHANGED <<conn, script, flag, restarting, restarts>>

(* A missing or not executable script ends the update and releases the      *)
(* flag: Node answers 200 with ok false, the crates 500.                    *)
ScriptMissing(q) ==
  /\ handler[q] = "preparing"
  /\ Respond(q, IF Crates THEN "error" ELSE "failed")
  /\ flag' = [flag EXCEPT ![AgentOf[q]] = FALSE]
  /\ UNCHANGED <<conn, script, restarting, restarts>>

StartScript(q) ==
  /\ handler[q] = "preparing"
  /\ handler' = [handler EXCEPT ![q] = "running"]
  /\ script' = [script EXCEPT ![q] = "running"]
  /\ UNCHANGED <<conn, answer, flag, restarting, restarts>>

(* The child process, the bash of the script, ends, does not start at all,  *)
(* or is killed after 600 s or 4 MB of output (Node.js); it does not depend *)
(* on the handler.                                                          *)
ScriptEnds(q, result) ==
  /\ script[q] = "running"
  /\ script' = [script EXCEPT ![q] = result]
  /\ UNCHANGED <<conn, handler, answer, flag, restarting, restarts>>

\* faulty: no finally, a failed update keeps the flag
ReplyKeeping(q) ==
  /\ handler[q] = "running" /\ script[q] \in {"ok", "failed"}
  /\ Respond(q, script[q])
  /\ flag' = [flag EXCEPT ![AgentOf[q]] = script[q] = "failed"]
  /\ restarting' = [restarting EXCEPT ![AgentOf[q]] = @ \/ script[q] = "ok"]
  /\ UNCHANGED <<conn, script, restarts>>

(* The awaited child has ended: the flag is released, a success schedules   *)
(* the restart of the service, and the client is answered.                  *)
Reply(q) ==
  /\ handler[q] = "running" /\ script[q] \in {"ok", "failed"}
  /\ Respond(q, script[q])
  /\ flag' = [flag EXCEPT ![AgentOf[q]] = FALSE]
  /\ restarting' = [restarting EXCEPT ![AgentOf[q]] = @ \/ script[q] = "ok"]
  /\ UNCHANGED <<conn, script, restarts>>

\* faulty: a drop guard releases the flag although the child still runs
DropReleasing(q) ==
  /\ conn[q] = "closed" /\ handler[q] \in {"preparing", "running"}
  /\ handler' = [handler EXCEPT ![q] = "done"]
  /\ flag' = [flag EXCEPT ![AgentOf[q]] = FALSE]
  /\ UNCHANGED <<conn, script, answer, restarting, restarts>>

(* The crates' server drops the handler of a closed connection at one of    *)
(* its two awaits: nothing releases the flag or schedules the restart.      *)
Drop(q) ==
  /\ Crates
  /\ conn[q] = "closed" /\ handler[q] \in {"preparing", "running"}
  /\ handler' = [handler EXCEPT ![q] = "done"]
  /\ UNCHANGED <<conn, script, answer, flag, restarting, restarts>>

(* systemctl restart: the process and its children die, the flag is new,    *)
(* connections that wait for an answer break.                               *)
RestartService(a) ==
  LET mine == { q \in Requests : AgentOf[q] = a }
      cut == { q \in mine : handler[q] \notin {"none", "done"} }
  IN  /\ handler' = [q \in Requests |-> IF q \in cut THEN "done" ELSE handler[q]]
      /\ script' = [q \in Requests |->
            IF q \in mine /\ script[q] = "running" THEN "killed" ELSE script[q]]
      /\ answer' = [q \in Requests |->
            IF q \in cut /\ conn[q] = "open" THEN "lost" ELSE answer[q]]
      /\ flag' = [flag EXCEPT ![a] = FALSE]
      /\ restarting' = [restarting EXCEPT ![a] = FALSE]
      /\ UNCHANGED conn

PostUpdateRestart(a) ==
  /\ restarting[a]
  /\ RestartService(a)
  /\ UNCHANGED restarts

(* An operator, the control API or systemd restarts the agent.              *)
OutsideRestart(a) ==
  /\ restarts[a] < MaxRestarts
  /\ RestartService(a)
  /\ restarts' = [restarts EXCEPT ![a] = @ + 1]
-----------------------------------------------------------------------------
HandlerStep(q) ==
  \/ Check(q)
  \/ Swap(q)
  \/ ScriptMissing(q)
  \/ StartScript(q)
  \/ Reply(q)
  \/ Drop(q)

AgentStep ==
  \/ \E q \in Requests : HandlerStep(q) \/ ScriptEnds(q, "ok") \/ ScriptEnds(q, "failed")
  \/ \E a \in Agents : PostUpdateRestart(a) \/ OutsideRestart(a)

AgentNext ==
  \/ AgentStep
  \/ \E q \in Requests : Open(q)
  \/ \E Q \in SUBSET Requests : Close(Q)

AgentSpec == AgentInit /\ [][AgentNext]_agentVars
-----------------------------------------------------------------------------
(* Two update scripts (the bash of each, see above) never run at once on an *)
(* agent, whatever the number of clients, their timeouts and the races of   *)
(* handlers; the flag is set while one runs.                                *)
OneScriptPerAgent ==
  \A q \in Requests :
    script[q] = "running" =>
      /\ flag[AgentOf[q]]
      /\ \A p \in Requests \ {q} : AgentOf[p] = AgentOf[q] => script[p] # "running"

(* "Update already in progress" is said only while one is.                  *)
BusyMeansRunning ==
  \A a \in Agents :
    flag[a] => \E q \in Requests :
                 /\ AgentOf[q] = a
                 /\ handler[q] \in {"preparing", "running"} \/ script[q] = "running"

(* Seen from its clients an agent is an UpdateSlot: the flag, the swap and   *)
(* the dropped handlers of the code come to one script at a time and to     *)
(* answers that are given once and are true (POST /update, runAgentUpdate). *)
Slot == INSTANCE UpdateSlot
SlotKept == Slot!Spec
==============================================================================
