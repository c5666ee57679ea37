----------------------------- MODULE DeployProofs -----------------------------
(***************************************************************************)
(* Theorems about the update handlers of the agents, for any number of     *)
(* agents, requests and restarts, and about deploy runs composed with      *)
(* them, for any number of runs, hosts, equal target names and crashes.    *)
(***************************************************************************)
EXTENDS Deploy, TLAPS

(* A request is at work while its handler holds the flag or its script,     *)
(* which outlives a dropped handler, still runs.                            *)
Holding(q) == handler[q] \in {"preparing", "running"}
Working(q) == Holding(q) \/ script[q] = "running"

(* OneScriptPerAgent alone is not inductive: it does not say that the       *)
(* handler about to start a script is the only one, nor that a handler      *)
(* which releases the flag leaves no script behind.                         *)
WorkersHoldFlag == \A q \in Requests : Working(q) => flag[AgentOf[q]]
OneAtWork ==
  \A p, q \in Requests :
    Working(p) /\ Working(q) /\ AgentOf[p] = AgentOf[q] => p = q
ScriptAfterStart ==
  \A q \in Requests :
    /\ script[q] # "none" => handler[q] \in {"running", "done"}
    /\ conn[q] = "none" => script[q] = "none" /\ handler[q] = "none"
    /\ answer[q] = "ok" => script[q] = "ok"

(* For the flag: whoever set it still holds it, or was dropped because its  *)
(* client left, which only the crates do.                                   *)
FlagHasOrigin ==
  \A a \in Agents :
    flag[a] => \E q \in Requests :
                 AgentOf[q] = a /\ (Holding(q) \/ (Crates /\ conn[q] = "closed"))

AgentInv ==
  /\ AgentTypeOK
  /\ WorkersHoldFlag
  /\ OneAtWork
  /\ ScriptAfterStart
  /\ FlagHasOrigin

(* The invariant holds initially.                                           *)
LEMMA AgentInvInit == AgentInit => AgentInv
  BY UpdateAssumption
  DEF AgentInit, AgentInv, AgentTypeOK, WorkersHoldFlag, OneAtWork, ScriptAfterStart,
      FlagHasOrigin, Working, Holding, HandlerStates, ScriptStates, Answers

(* A restart of a service ends everything on it and touches nothing else.   *)
LEMMA RestartKeepsInv ==
  ASSUME AgentInv, NEW a \in Agents, RestartService(a),
         restarts' \in [Agents -> Nat]
  PROVE  AgentInv'
<1> USE UpdateAssumption
<1> DEFINE mine == { q \in Requests : AgentOf[q] = a }
           cut == { q \in mine : handler[q] \notin {"none", "done"} }
<1>0. /\ handler' = [q \in Requests |-> IF q \in cut THEN "done" ELSE handler[q]]
      /\ script' = [q \in Requests |->
            IF q \in mine /\ script[q] = "running" THEN "killed" ELSE script[q]]
      /\ answer' = [q \in Requests |->
            IF q \in cut /\ conn[q] = "open" THEN "lost" ELSE answer[q]]
      /\ flag' = [flag EXCEPT ![a] = FALSE]
      /\ restarting' = [restarting EXCEPT ![a] = FALSE]
      /\ conn' = conn
  BY DEF RestartService
<1>1. AgentTypeOK'
  BY <1>0 DEF AgentInv, AgentTypeOK, HandlerStates, ScriptStates, Answers
<1>2. \A q \in Requests : Working(q)' => Working(q) /\ AgentOf[q] # a
  BY <1>0 DEF AgentInv, AgentTypeOK, Working, Holding
<1>3. \A b \in Agents : b # a => flag'[b] = flag[b]
  BY <1>0 DEF AgentInv, AgentTypeOK
<1>4. WorkersHoldFlag'
  BY <1>2, <1>3 DEF AgentInv, WorkersHoldFlag
<1>5. OneAtWork'
  BY <1>2 DEF AgentInv, OneAtWork
<1>6. ScriptAfterStart'
  BY <1>0 DEF AgentInv, ScriptAfterStart
<1>7. FlagHasOrigin'
  <2>1. ~flag'[a]
    BY <1>0 DEF AgentInv, AgentTypeOK
  <2>2. \A q \in Requests : AgentOf[q] # a => handler'[q] = handler[q]
    BY <1>0
  <2>. QED BY <1>0, <1>3, <2>1, <2>2 DEF AgentInv, FlagHasOrigin, Holding
<1>. QED BY <1>1, <1>4, <1>5, <1>6, <1>7 DEF AgentInv

(* The handler that takes a free flag is the only one at work.              *)
LEMMA TakeKeepsInv ==
  ASSUME AgentInv, NEW q \in Requests, handler[q] \in {"arrived", "checked"},
         ~flag[AgentOf[q]], Take(q), UNCHANGED <<conn, script, restarting, restarts>>
  PROVE  AgentInv'
<1> USE UpdateAssumption DEF AgentInv, AgentTypeOK, HandlerStates, ScriptStates, Answers
<1>1. /\ handler' = [handler EXCEPT ![q] = "preparing"]
      /\ flag' = [flag EXCEPT ![AgentOf[q]] = TRUE]
      /\ UNCHANGED <<answer, conn, script, restarting, restarts>>
  BY DEF Take
<1>2. \A p \in Requests : AgentOf[p] = AgentOf[q] => ~Working(p)
  BY DEF WorkersHoldFlag
<1>3. \A p \in Requests : p # q => (Working(p)' <=> Working(p)) /\ (Holding(p)' <=> Holding(p))
  BY <1>1 DEF Working, Holding
<1>4. AgentTypeOK'
  BY <1>1
<1>5. WorkersHoldFlag' /\ OneAtWork'
  BY <1>1, <1>2, <1>3 DEF WorkersHoldFlag, OneAtWork
<1>6. ScriptAfterStart'
  BY <1>1, <1>2 DEF ScriptAfterStart, Working
<1>7. FlagHasOrigin'
  BY <1>1, <1>3 DEF FlagHasOrigin, Holding
<1>. QED BY <1>4, <1>5, <1>6, <1>7

(* A handler that answers without having taken the flag changes nothing     *)
(* that others see.                                                         *)
LEMMA RefusalKeepsInv ==
  ASSUME AgentInv, NEW q \in Requests, handler[q] \in {"arrived", "checked"},
         NEW status \in {"busy", "error"}, Respond(q, status),
         UNCHANGED <<conn, script, flag, restarting, restarts>>
  PROVE  AgentInv'
  BY UpdateAssumption
  DEF AgentInv, AgentTypeOK, HandlerStates, ScriptStates, Answers, Respond, WorkersHoldFlag,
      OneAtWork, ScriptAfterStart, FlagHasOrigin, Working, Holding

(* Every step of a handler of request q keeps the invariant.                *)
LEMMA HandlerKeepsInv ==
  ASSUME AgentInv, NEW q \in Requests, HandlerStep(q)
  PROVE  AgentInv'
<1>1. CASE Check(q)
  <2>1. CASE flag[AgentOf[q]]
    BY <1>1, <2>1, RefusalKeepsInv DEF Check
  <2>2. CASE ~flag[AgentOf[q]] /\ Crates
    BY <1>1, <2>2, UpdateAssumption
    DEF Check, AgentInv, AgentTypeOK, HandlerStates, ScriptStates, Answers, WorkersHoldFlag,
        OneAtWork, ScriptAfterStart, FlagHasOrigin, Working, Holding
  <2>3. CASE ~flag[AgentOf[q]] /\ ~Crates
    BY <1>1, <2>3, TakeKeepsInv DEF Check
  <2>. QED BY <2>1, <2>2, <2>3
<1>2. CASE Swap(q)
  <2>1. CASE flag[AgentOf[q]]
    BY <1>2, <2>1, RefusalKeepsInv DEF Swap
  <2>2. CASE ~flag[AgentOf[q]]
    BY <1>2, <2>2, TakeKeepsInv DEF Swap
  <2>. QED BY <2>1, <2>2
<1> USE UpdateAssumption
    DEF AgentInv, AgentTypeOK, HandlerStates, ScriptStates, Answers, Respond
<1>3. CASE ScriptMissing(q)
  BY <1>3 DEF ScriptMissing, WorkersHoldFlag, OneAtWork, ScriptAfterStart, FlagHasOrigin, Working, Holding
<1>4. CASE StartScript(q)
  BY <1>4 DEF StartScript, WorkersHoldFlag, OneAtWork, ScriptAfterStart, FlagHasOrigin, Working, Holding
<1>5. CASE Reply(q)
  BY <1>5 DEF Reply, WorkersHoldFlag, OneAtWork, ScriptAfterStart, FlagHasOrigin, Working, Holding
<1>6. CASE Drop(q)
  BY <1>6 DEF Drop, WorkersHoldFlag, OneAtWork, ScriptAfterStart, FlagHasOrigin, Working, Holding
<1>. QED BY <1>1, <1>2, <1>3, <1>4, <1>5, <1>6 DEF HandlerStep

(* Every step of the agents and their clients keeps the invariant.          *)
LEMMA AgentInvStep == AgentInv /\ [AgentNext]_agentVars => AgentInv'
<1> SUFFICES ASSUME AgentInv, [AgentNext]_agentVars PROVE AgentInv'
  OBVIOUS
<1> USE UpdateAssumption
<1>1. ASSUME NEW q \in Requests, HandlerStep(q) PROVE AgentInv'
  BY <1>1, HandlerKeepsInv
<1>2. ASSUME NEW q \in Requests, NEW how \in {"ok", "failed"}, ScriptEnds(q, how)
      PROVE  AgentInv'
  BY <1>2 DEF ScriptEnds, AgentInv, AgentTypeOK, ScriptStates, WorkersHoldFlag, OneAtWork,
              ScriptAfterStart, FlagHasOrigin, Working, Holding
<1>3. ASSUME NEW a \in Agents, PostUpdateRestart(a) PROVE AgentInv'
  BY <1>3, RestartKeepsInv DEF PostUpdateRestart, AgentInv, AgentTypeOK
<1>4. ASSUME NEW a \in Agents, OutsideRestart(a) PROVE AgentInv'
  <2>1. restarts' \in [Agents -> Nat]
    BY <1>4 DEF OutsideRestart, AgentInv, AgentTypeOK
  <2>. QED BY <1>4, <2>1, RestartKeepsInv DEF OutsideRestart
<1>5. ASSUME NEW q \in Requests, Open(q) PROVE AgentInv'
  BY <1>5 DEF Open, AgentInv, AgentTypeOK, HandlerStates, WorkersHoldFlag, OneAtWork,
              ScriptAfterStart, FlagHasOrigin, Working, Holding
<1>6. ASSUME NEW Q \in SUBSET Requests, Close(Q) PROVE AgentInv'
  BY <1>6 DEF Close, AgentInv, AgentTypeOK, WorkersHoldFlag, OneAtWork,
              ScriptAfterStart, FlagHasOrigin, Working, Holding
<1>7. CASE UNCHANGED agentVars
  BY <1>7 DEF agentVars, AgentInv, AgentTypeOK, WorkersHoldFlag, OneAtWork,
              ScriptAfterStart, FlagHasOrigin, Working, Holding
<1>. QED
  BY <1>1, <1>2, <1>3, <1>4, <1>5, <1>6, <1>7 DEF AgentNext, AgentStep

(* What the invariant is for.                                               *)
LEMMA AgentInvImplies == AgentInv => OneScriptPerAgent
  BY DEF AgentInv, OneScriptPerAgent, WorkersHoldFlag, OneAtWork, Working

(* Two update scripts never run at once on an agent, and the flag is set    *)
(* while one runs (runAgentUpdate, POST /update).                           *)
THEOREM AgentsRunOneScript == AgentSpec => []OneScriptPerAgent
<1>1. AgentInit => AgentInv
  BY AgentInvInit
<1>2. AgentInv /\ [AgentNext]_agentVars => AgentInv'
  BY AgentInvStep
<1>3. AgentInv => OneScriptPerAgent
  BY AgentInvImplies
<1>. QED BY <1>1, <1>2, <1>3, PTL DEF AgentSpec

(* A Node.js agent answers "already in progress" only while a handler       *)
(* prepares or runs an update, even when clients leave (isUpdateInFlight).  *)
THEOREM AgentsBusyMeansRunning == ~Crates => (AgentSpec => []BusyMeansRunning)
<1> SUFFICES ASSUME ~Crates PROVE AgentSpec => []BusyMeansRunning
  OBVIOUS
<1>1. AgentInit => AgentInv
  BY AgentInvInit
<1>2. AgentInv /\ [AgentNext]_agentVars => AgentInv'
  BY AgentInvStep
<1>3. AgentInv => BusyMeansRunning
  BY DEF AgentInv, FlagHasOrigin, BusyMeansRunning, Holding
<1>. QED BY <1>1, <1>2, <1>3, PTL DEF AgentSpec

(* Refinement of UpdateSlot.  A handler answers only as it ends.            *)
AnswersAtEnd == \A q \in Requests : handler[q] # "done" => answer[q] = "none"

LEMMA AnswersStep ==
  ASSUME AgentInv, AnswersAtEnd, [AgentNext]_agentVars PROVE AnswersAtEnd'
<1> USE UpdateAssumption DEF AnswersAtEnd
<1>1. ASSUME NEW q \in Requests, HandlerStep(q) PROVE AnswersAtEnd'
  BY <1>1
  DEF HandlerStep, Check, Swap, ScriptMissing, StartScript, Reply, Drop, Take, Respond,
      AgentInv, AgentTypeOK
<1>2. ASSUME NEW q \in Requests, NEW how \in {"ok", "failed"}, ScriptEnds(q, how)
      PROVE  AnswersAtEnd'
  BY <1>2 DEF ScriptEnds
<1>3. ASSUME NEW a \in Agents, RestartService(a) PROVE AnswersAtEnd'
  BY <1>3 DEF RestartService
<1>4. ASSUME NEW q \in Requests, Open(q) PROVE AnswersAtEnd'
  BY <1>4 DEF Open, AgentInv, AgentTypeOK, ScriptAfterStart
<1>5. CASE (\E Q \in SUBSET Requests : Close(Q)) \/ UNCHANGED agentVars
  BY <1>5 DEF Close, agentVars
<1>. QED
  BY <1>1, <1>2, <1>3, <1>4, <1>5 DEF AgentNext, AgentStep, PostUpdateRestart, OutsideRestart

(* A handler that answers, or finds that its client left.                   *)
LEMMA RespondIsAnswer ==
  ASSUME AgentInv, AnswersAtEnd, NEW q \in Requests, handler[q] # "done",
         NEW status \in {"ok", "failed", "busy", "error"}, Slot!Truthful(q, status),
         Respond(q, status), script' = script
  PROVE  [Slot!Next]_(Slot!vars)
<1>1. CASE conn[q] = "open"
  <2>1. Slot!Answer(q, status)
    BY <1>1 DEF Respond, AnswersAtEnd, Slot!Answer
  <2>. QED BY <2>1 DEF Slot!Next
<1>2. CASE conn[q] # "open"
  BY <1>2 DEF Respond, Slot!vars, AgentInv, AgentTypeOK
<1>. QED BY <1>1, <1>2

LEMMA RestartIsRestart ==
  ASSUME AgentInv, AnswersAtEnd, NEW a \in Agents, RestartService(a)
  PROVE  Slot!Next
<1> DEFINE lost == { q \in Requests :
             AgentOf[q] = a /\ handler[q] \notin {"none", "done"} /\ conn[q] = "open" }
<1>1. lost \in SUBSET Slot!Mine(a)
  BY DEF Slot!Mine
<1>2. \A q \in lost : answer[q] = "none"
  BY DEF AnswersAtEnd
<1>3. answer' = [q \in Requests |-> IF q \in lost THEN "lost" ELSE answer[q]]
  BY DEF RestartService
<1>4. script' = [q \in Requests |->
        IF q \in Slot!Mine(a) /\ script[q] = "running" THEN "killed" ELSE script[q]]
  BY DEF RestartService, Slot!Mine
<1>5. Slot!Restart(a, lost)
  BY <1>2, <1>3, <1>4 DEF Slot!Restart
<1>. QED BY <1>1, <1>5 DEF Slot!Next

LEMMA SlotStep ==
  ASSUME AgentInv, AnswersAtEnd, [AgentNext]_agentVars PROVE [Slot!Next]_(Slot!vars)
<1> USE UpdateAssumption
<1>1. ASSUME NEW q \in Requests, HandlerStep(q) PROVE [Slot!Next]_(Slot!vars)
  <2>1. handler[q] \in {"arrived", "checked", "preparing"} => script[q] = "none"
    BY DEF AgentInv, AgentTypeOK, ScriptAfterStart, ScriptStates
  <2>2. CASE Check(q)
    <3>1. CASE flag[AgentOf[q]]
      BY <2>1, <2>2, <3>1, RespondIsAnswer DEF Check, Slot!Truthful
    <3>2. CASE ~flag[AgentOf[q]]
      BY <2>2, <3>2 DEF Check, Take, Slot!vars
    <3>. QED BY <3>1, <3>2
  <2>3. CASE Swap(q)
    <3>1. CASE flag[AgentOf[q]]
      BY <2>1, <2>3, <3>1, RespondIsAnswer DEF Swap, Slot!Truthful
    <3>2. CASE ~flag[AgentOf[q]]
      BY <2>3, <3>2 DEF Swap, Take, Slot!vars
    <3>. QED BY <3>1, <3>2
  <2>4. CASE ScriptMissing(q)
    <3>1. CASE Crates
      BY <2>1, <2>4, <3>1, RespondIsAnswer DEF ScriptMissing, Slot!Truthful
    <3>2. CASE ~Crates
      BY <2>1, <2>4, <3>2, RespondIsAnswer DEF ScriptMissing, Slot!Truthful
    <3>. QED BY <3>1, <3>2
  <2>5. CASE StartScript(q)
    <3>1. \A p \in Slot!Mine(AgentOf[q]) : script[p] # "running"
      BY <2>1, <2>5 DEF StartScript, Slot!Mine, AgentInv, OneAtWork, Working, Holding
    <3>2. answer[q] = "none"
      BY <2>5 DEF StartScript, AnswersAtEnd
    <3>3. Slot!Start(q)
      BY <2>1, <2>5, <3>1, <3>2 DEF StartScript, Slot!Start
    <3>. QED BY <3>3 DEF Slot!Next
  <2>6. CASE Reply(q)
    BY <2>6, RespondIsAnswer DEF Reply, Slot!Truthful
  <2>7. CASE Drop(q)
    BY <2>7 DEF Drop, Slot!vars
  <2>. QED BY <1>1, <2>2, <2>3, <2>4, <2>5, <2>6, <2>7 DEF HandlerStep
<1>2. ASSUME NEW q \in Requests, NEW how \in {"ok", "failed"}, ScriptEnds(q, how)
      PROVE  Slot!Next
  BY <1>2 DEF ScriptEnds, Slot!Next, Slot!End
<1>3. ASSUME NEW a \in Agents, PostUpdateRestart(a) \/ OutsideRestart(a) PROVE Slot!Next
  BY <1>3, RestartIsRestart DEF PostUpdateRestart, OutsideRestart
<1>4. CASE \/ \E q \in Requests : Open(q)
           \/ \E Q \in SUBSET Requests : Close(Q)
           \/ UNCHANGED agentVars
  BY <1>4 DEF Open, Close, agentVars, Slot!vars
<1>. QED BY <1>1, <1>2, <1>3, <1>4 DEF AgentNext, AgentStep

(* The agents are UpdateSlots to any clients that open and close            *)
(* connections as they like (POST /update, runAgentUpdate).                 *)
THEOREM AgentsImplementSlot == AgentSpec => SlotKept
<1>1. AgentInit => AgentInv /\ AnswersAtEnd
  BY AgentInvInit DEF AgentInit, AnswersAtEnd
<1>2. AgentInv /\ AnswersAtEnd /\ [AgentNext]_agentVars => AgentInv' /\ AnswersAtEnd'
  BY AgentInvStep, AnswersStep
<1>3. AgentInit => Slot!Init
  BY DEF AgentInit, Slot!Init
<1>4. AgentInv /\ AnswersAtEnd /\ [AgentNext]_agentVars => [Slot!Next]_(Slot!vars)
  BY SlotStep
<1>. QED BY <1>1, <1>2, <1>3, <1>4, PTL DEF AgentSpec, SlotKept, Slot!Spec
-----------------------------------------------------------------------------
(* Whatever the supervisor does is something a client of the agents may do. *)
LEMMA DeployStepsAgents == [Next]_vars => [AgentNext]_agentVars
<1> SUFFICES ASSUME [Next]_vars PROVE [AgentNext]_agentVars
  OBVIOUS
<1>1. ASSUME NEW q \in Requests, TaskStep(q) PROVE [AgentNext]_agentVars
  <2>1. CASE TaskStart(q)
    BY <2>1 DEF TaskStart, AgentNext
  <2>2. CASE TaskEnd(q)
    BY <2>2 DEF TaskEnd
  <2>3. CASE TaskTimeout(q)
    <3>1. {q} \in SUBSET Requests
      OBVIOUS
    <3>. QED BY <2>3, <3>1 DEF TaskTimeout, AgentNext
  <2>4. CASE TaskPanics(q)
    BY <2>4 DEF TaskPanics
  <2>. QED BY <1>1, <2>1, <2>2, <2>3, <2>4 DEF TaskStep
<1>2. ASSUME NEW r \in Runs, NEW targets \in SUBSET { p \in Requests : p[1] = r },
             NEW up \in SUBSET Hosts, StartDeploy(r, targets, up)
      PROVE  [AgentNext]_agentVars
  BY <1>2 DEF StartDeploy
<1>3. ASSUME NEW r \in Runs, FinishRun(r) PROVE [AgentNext]_agentVars
  BY <1>3 DEF FinishRun
<1>4. CASE SupervisorDies
  BY <1>4 DEF SupervisorDies, AgentNext
<1>5. CASE AgentStep
  BY <1>5 DEF AgentNext
<1>6. CASE UNCHANGED vars
  BY <1>6 DEF vars
<1>. QED BY <1>1, <1>2, <1>3, <1>4, <1>5, <1>6 DEF Next

(* The system of runs and agents behaves, seen from the agents, as          *)
(* AgentUpdate with arbitrary clients (startAgentDeploy, pushAgentUpdate).   *)
THEOREM DeployImplementsAgents == Spec => AgentSpec
<1>1. Init => AgentInit
  BY DEF Init
<1>2. [Next]_vars => [AgentNext]_agentVars
  BY DeployStepsAgents
<1>. QED BY <1>1, <1>2, PTL DEF Spec, AgentSpec

(* So the agents keep the promise of UpdateSlot to the deploy runs too: what *)
(* a run reads from an answer is how its own script ended.                  *)
THEOREM DeployAgentsKeepSlot == Spec => SlotKept
BY DeployImplementsAgents, AgentsImplementSlot, PTL

(* Two update scripts never run at once on an agent, for every number of    *)
(* runs, copies, timeouts, crashes and restarts; the flag is set while one  *)
(* runs.                                                                    *)
THEOREM DeployRunsOneScript == Spec => []OneScriptPerAgent
BY DeployImplementsAgents, AgentsRunOneScript, PTL

(* While every client waits, the flag of an agent is held by a handler, so  *)
(* no failing update locks an agent out (runAgentUpdate).                 *)
THEOREM DeployFlagHeld == Spec => []FlagHeldByHandler
<1>1. AgentSpec => []AgentInv
  BY AgentInvInit, AgentInvStep, PTL DEF AgentSpec
<1>2. AgentInv => FlagHeldByHandler
  BY DEF AgentInv, FlagHasOrigin, FlagHeldByHandler, Holding
<1>. QED BY <1>1, <1>2, DeployImplementsAgents, PTL
-----------------------------------------------------------------------------
(* The invariant of the runs.  Tasks: a task that has not posted has no     *)
(* connection, one that works finds its run running, one that has posted    *)
(* finds its host marked.                                                   *)
TaskFacts ==
  \A q \in Requests :
    /\ task[q] \in {"none", "ready"} => conn[q] = "none"
    /\ task[q] # "none" => runStatus[q[1]] # "none" /\ result[q[1]][q[2]] # "absent"
    /\ task[q] \in {"ready", "waiting"} => runStatus[q[1]] = "running"
    /\ task[q] = "waiting" => result[q[1]][q[2]] # "offline"
    /\ task[q] \in {"waiting", "done", "panicked"} => result[q[1]][q[2]] # "pending"

(* Hosts: a result that is not final belongs to a task that may still write *)
(* it or died, a success to a script that ran to its end.                   *)
HostFacts ==
  \A r \in Runs, h \in Hosts :
    /\ result[r][h] = "pending" => \E q \in TargetsOf(r) : q[2] = h
    /\ result[r][h] = "running" =>
         \E q \in TargetsOf(r) : q[2] = h /\ task[q] \in {"waiting", "panicked", "gone"}
    /\ Crates /\ result[r][h] = "success" =>
         \E q \in TargetsOf(r) : q[2] = h /\ script[q] = "ok"

(* Runs: after the verdict no task of the run is left.                      *)
RunFacts ==
  \A r \in Runs :
    /\ runStatus[r] = "none" => ~job[r]
    /\ runStatus[r] \in {"completed", "failed"} =>
         /\ ~job[r]
         /\ \A q \in TargetsOf(r) : task[q] \in {"done", "panicked"}

(* No agent has a request for a host its run holds for offline.             *)
PushedIsOnline ==
  \A q \in Requests : conn[q] # "none" => result[q[1]][q[2]] \notin {"absent", "offline"}

DeployInv ==
  /\ TypeOK
  /\ AgentInv
  /\ PushedIsOnline
  /\ TaskFacts
  /\ HostFacts
  /\ RunFacts

(* The parts of a target's name.                                            *)
LEMMA TargetParts ==
  ASSUME NEW q \in Requests PROVE q[1] \in Runs /\ q[2] \in Hosts /\ AgentOf[q] = q[2]
  BY DeployAssumption

LEMMA DeployInvInit == Init => DeployInv
  BY AgentInvInit, TargetParts
  DEF Init, AgentInit, DeployInv, AgentInv, TypeOK, PushedIsOnline, TaskFacts, HostFacts,
      RunFacts, RunStates, Results, TaskStates

(* An agent's step starts no connection and leaves a script that succeeded. *)
LEMMA AgentStepKeeps ==
  ASSUME AgentInv, AgentStep
  PROVE  /\ conn' = conn
         /\ \A q \in Requests : script[q] = "ok" => script'[q] = "ok"
  BY UpdateAssumption
  DEF AgentInv, AgentTypeOK, ScriptAfterStart, AgentStep, HandlerStep, Check, Swap, Take,
      ScriptMissing, StartScript, Reply, Drop, ScriptEnds, PostUpdateRestart, OutsideRestart,
      RestartService, HandlerStates, ScriptStates

(* A run is started with fresh targets.                                     *)
LEMMA StartKeepsInv ==
  ASSUME DeployInv, AgentInv',
         NEW r \in Runs, NEW targets \in SUBSET { p \in Requests : p[1] = r },
         NEW up \in SUBSET Hosts, StartDeploy(r, targets, up)
  PROVE  DeployInv'
<1> DEFINE named == { q[2] : q \in targets }
<1>0. /\ runStatus[r] = "none" /\ targets # {}
      /\ runStatus' = [runStatus EXCEPT ![r] = "running"]
      /\ result' = [result EXCEPT ![r] =
            [h \in Hosts |-> IF h \notin named THEN "absent"
                             ELSE IF h \in up THEN "pending" ELSE "offline"]]
      /\ task' = [q \in Requests |-> IF q \in targets THEN "ready" ELSE task[q]]
      /\ job' = [job EXCEPT ![r] = TRUE]
      /\ agentVars' = agentVars /\ deaths' = deaths
  BY DEF StartDeploy
<1>1. targets \subseteq Requests /\ \A q \in targets : q[1] = r
  OBVIOUS
<1>2. conn' = conn /\ script' = script
  BY <1>0 DEF agentVars
<1>3. \A q \in Requests : q[1] = r => task[q] = "none" /\ conn[q] = "none"
  BY <1>0 DEF DeployInv, TaskFacts
<1>4. TypeOK'
  BY <1>0 DEF DeployInv, TypeOK, AgentInv, RunStates, Results, TaskStates
<1>5. \A q \in Requests : q[1] # r =>
        /\ task'[q] = task[q] /\ runStatus'[q[1]] = runStatus[q[1]]
        /\ result'[q[1]] = result[q[1]]
  BY <1>0, <1>1, TargetParts DEF DeployInv, TypeOK
<1>6. \A q \in Requests : q[1] = r =>
        /\ task'[q] = IF q \in targets THEN "ready" ELSE "none"
        /\ runStatus'[q[1]] = "running"
        /\ q \in targets => result'[q[1]][q[2]] \in {"pending", "offline"}
  BY <1>0, <1>1, <1>3, TargetParts DEF DeployInv, TypeOK
<1>7. TaskFacts'
  BY <1>2, <1>3, <1>5, <1>6 DEF DeployInv, TaskFacts
<1>8. PushedIsOnline'
  BY <1>2, <1>3, <1>5 DEF DeployInv, PushedIsOnline
<1>9. HostFacts'
  <2> SUFFICES ASSUME NEW s \in Runs, NEW h \in Hosts
      PROVE  /\ result'[s][h] = "pending" => \E q \in TargetsOf(s)' : q[2] = h
             /\ result'[s][h] = "running" =>
                  \E q \in TargetsOf(s)' : q[2] = h /\ task'[q] \in {"waiting", "panicked", "gone"}
             /\ Crates /\ result'[s][h] = "success" =>
                  \E q \in TargetsOf(s)' : q[2] = h /\ script'[q] = "ok"
    BY DEF HostFacts
  <2>1. CASE s = r
    <3>1. result'[r][h] \in {"absent", "pending", "offline"} /\ (result'[r][h] = "pending" => h \in named)
      BY <1>0 DEF DeployInv, TypeOK
    <3>2. \A q \in targets : q \in TargetsOf(r)'
      BY <1>1, <1>6 DEF TargetsOf
    <3>. QED BY <2>1, <3>1, <3>2
  <2>2. CASE s # r
    <3>1. result'[s] = result[s] /\ \A q \in TargetsOf(s) : task'[q] = task[q] /\ q \in TargetsOf(s)'
      BY <1>0, <1>5, <2>2 DEF DeployInv, TypeOK, TargetsOf
    <3>. QED BY <1>2, <3>1 DEF DeployInv, HostFacts
  <2>. QED BY <2>1, <2>2
<1>10. RunFacts'
  <2>1. \A s \in Runs : s # r =>
          job'[s] = job[s] /\ runStatus'[s] = runStatus[s]
    BY <1>0 DEF DeployInv, TypeOK
  <2>2. runStatus'[r] = "running"
    BY <1>0 DEF DeployInv, TypeOK
  <2>3. \A s \in Runs : s # r => \A q \in TargetsOf(s)' : q \in TargetsOf(s) /\ task'[q] = task[q]
    BY <1>5 DEF TargetsOf
  <2>. QED BY <2>1, <2>2, <2>3 DEF DeployInv, RunFacts
<1>. QED BY <1>4, <1>7, <1>8, <1>9, <1>10 DEF DeployInv

(* A task writes the result of its host: "running" when it posts, a final   *)
(* result when it ends.                                                     *)
LEMMA PatchKeepsInv ==
  ASSUME DeployInv, AgentInv',
         NEW q \in Requests, task[q] \in {"ready", "waiting"},
         NEW status \in {"running", "success", "failed"}, NEW next \in {"waiting", "done"},
         Patch(q, status), task' = [task EXCEPT ![q] = next],
         status = "running" <=> next = "waiting",
         Crates /\ status = "success" => script[q] = "ok",
         script' = script, UNCHANGED <<job, deaths>>,
         \A p \in Requests \ {q} : conn[p] = "none" <=> conn'[p] = "none"
  PROVE  DeployInv'
<1> DEFINE r == q[1]
           h == q[2]
<1>1. /\ r \in Runs /\ h \in Hosts
      /\ result' = [result EXCEPT ![r][h] = status]
      /\ runStatus' = [runStatus EXCEPT ![r] = "running"]
  BY TargetParts DEF Patch
<1>2. runStatus[r] = "running"
  BY DEF DeployInv, TaskFacts
<1>3. runStatus' = runStatus
  BY <1>1, <1>2 DEF DeployInv, TypeOK
<1>4. /\ result'[r][h] = status
      /\ \A s \in Runs, g \in Hosts : <<s, g>> # <<r, h>> => result'[s][g] = result[s][g]
  BY <1>1 DEF DeployInv, TypeOK
<1>5. /\ task'[q] = next
      /\ \A p \in Requests \ {q} : task'[p] = task[p]
  BY DEF DeployInv, TypeOK
<1>6. TypeOK'
  BY <1>1 DEF DeployInv, TypeOK, AgentInv, RunStates, Results, TaskStates
<1>7. \A p \in Requests : result'[p[1]][p[2]] \in {result[p[1]][p[2]], status}
  BY <1>4, TargetParts
<1>8. result'[q[1]][q[2]] = status
  BY <1>4
<1>9. TaskFacts'
  <2> SUFFICES ASSUME NEW p \in Requests
      PROVE  /\ task'[p] \in {"none", "ready"} => conn'[p] = "none"
             /\ task'[p] # "none" => runStatus'[p[1]] # "none" /\ result'[p[1]][p[2]] # "absent"
             /\ task'[p] \in {"ready", "waiting"} => runStatus'[p[1]] = "running"
             /\ task'[p] = "waiting" => result'[p[1]][p[2]] # "offline"
             /\ task'[p] \in {"waiting", "done", "panicked"} => result'[p[1]][p[2]] # "pending"
    BY DEF TaskFacts
  <2>1. CASE p = q
    BY <2>1, <1>2, <1>3, <1>5, <1>8
  <2>2. CASE p # q
    BY <2>2, <1>3, <1>5, <1>7 DEF DeployInv, TaskFacts
  <2>. QED BY <2>1, <2>2
<1>10. PushedIsOnline'
  <2> SUFFICES ASSUME NEW p \in Requests, conn'[p] # "none"
      PROVE  result'[p[1]][p[2]] \notin {"absent", "offline"}
    BY DEF PushedIsOnline
  <2>. QED BY <1>7, <1>8 DEF DeployInv, PushedIsOnline
<1>11. HostFacts'
  <2> SUFFICES ASSUME NEW s \in Runs, NEW g \in Hosts
      PROVE  /\ result'[s][g] = "pending" => \E p \in TargetsOf(s)' : p[2] = g
             /\ result'[s][g] = "running" =>
                  \E p \in TargetsOf(s)' : p[2] = g /\ task'[p] \in {"waiting", "panicked", "gone"}
             /\ Crates /\ result'[s][g] = "success" =>
                  \E p \in TargetsOf(s)' : p[2] = g /\ script'[p] = "ok"
    BY DEF HostFacts
  <2>1. \A p \in TargetsOf(s) : p \in TargetsOf(s)'
    BY <1>5 DEF TargetsOf
  <2>2. CASE s = r /\ g = h
    <3>1. q \in TargetsOf(r)'
      BY <1>5 DEF TargetsOf
    <3>. QED BY <2>2, <3>1, <1>4, <1>5
  <2>3. CASE ~(s = r /\ g = h)
    <3>1. result'[s][g] = result[s][g]
      BY <2>3, <1>4
    <3>2. \A p \in TargetsOf(s) : p[2] = g => task'[p] = task[p]
      BY <2>3, <1>5 DEF TargetsOf
    <3>. QED BY <2>1, <3>1, <3>2 DEF DeployInv, HostFacts
  <2>. QED BY <2>2, <2>3
<1>12. RunFacts'
  <2> SUFFICES ASSUME NEW s \in Runs
      PROVE  /\ runStatus[s] = "none" => ~job[s]
             /\ runStatus[s] \in {"completed", "failed"} =>
                  ~job[s] /\ \A p \in TargetsOf(s)' : task'[p] \in {"done", "panicked"}
    BY <1>3 DEF RunFacts
  <2>1. s # r => \A p \in TargetsOf(s)' : p \in TargetsOf(s) /\ task'[p] = task[p]
    BY <1>5 DEF TargetsOf
  <2>. QED BY <2>1, <1>2 DEF DeployInv, RunFacts
<1>. QED BY <1>6, <1>9, <1>10, <1>11, <1>12 DEF DeployInv

(* The steps of a task.                                                     *)
LEMMA TaskKeepsInv ==
  ASSUME DeployInv, AgentInv', NEW q \in Requests, TaskStep(q)
  PROVE  DeployInv'
<1>1. CASE TaskStart(q)
  <2>1. CASE result[q[1]][q[2]] = "offline"
    <3>1. /\ task[q] = "ready" /\ task' = [task EXCEPT ![q] = "done"]
          /\ UNCHANGED <<agentVars, runStatus, result, job, deaths>>
      BY <1>1, <2>1 DEF TaskStart
    <3>2. TypeOK'
      BY <3>1 DEF DeployInv, TypeOK, AgentInv, TaskStates
    <3>3. PushedIsOnline' /\ TaskFacts'
      BY <3>1, <2>1 DEF DeployInv, TypeOK, PushedIsOnline, TaskFacts, agentVars
    <3>4. \A r \in Runs : TargetsOf(r)' = TargetsOf(r)
      BY <3>1 DEF DeployInv, TypeOK, TargetsOf
    <3>5. HostFacts'
      BY <3>1, <3>4 DEF DeployInv, TypeOK, HostFacts, agentVars
    <3>6. RunFacts'
      BY <3>1, <3>4 DEF DeployInv, TypeOK, RunFacts
    <3>. QED BY <3>2, <3>3, <3>5, <3>6 DEF DeployInv
  <2>2. CASE result[q[1]][q[2]] # "offline"
    <3>1. /\ task[q] = "ready" /\ task' = [task EXCEPT ![q] = "waiting"]
          /\ Patch(q, "running")
          /\ Open(q) \/ UNCHANGED agentVars
          /\ UNCHANGED <<job, deaths>>
      BY <1>1, <2>2 DEF TaskStart
    <3>2. /\ script' = script
          /\ \A p \in Requests \ {q} : conn'[p] = conn[p]
      BY <3>1 DEF Open, agentVars, DeployInv, AgentInv, AgentTypeOK
    <3>. QED BY <3>1, <3>2, PatchKeepsInv
  <2>. QED BY <2>1, <2>2
<1>2. CASE TaskEnd(q)
  <2>1. VerdictOf(q) \in {"success", "failed"}
    BY DEF VerdictOf
  <2>2. Crates /\ VerdictOf(q) = "success" => script[q] = "ok"
    BY DEF VerdictOf, DeployInv, AgentInv, ScriptAfterStart
  <2>3. /\ task[q] = "waiting" /\ task' = [task EXCEPT ![q] = "done"]
        /\ Patch(q, VerdictOf(q))
        /\ script' = script /\ conn' = conn /\ UNCHANGED <<job, deaths>>
    BY <1>2 DEF TaskEnd, agentVars
  <2>. QED BY <2>1, <2>2, <2>3, PatchKeepsInv
<1>3. CASE TaskTimeout(q)
  <2>1. \A p \in Requests : conn[p] = "none" <=> conn'[p] = "none"
    BY <1>3 DEF TaskTimeout, Close
  <2>2. /\ task[q] = "waiting" /\ task' = [task EXCEPT ![q] = "done"]
        /\ Patch(q, VerdictOf(q))
        /\ script' = script /\ UNCHANGED <<job, deaths>>
    BY <1>3 DEF TaskTimeout, Close
  <2>3. /\ VerdictOf(q) \in {"success", "failed"}
        /\ Crates /\ VerdictOf(q) = "success" => script[q] = "ok"
    BY <1>3 DEF VerdictOf, TaskTimeout
  <2>. QED BY <2>1, <2>2, <2>3, PatchKeepsInv
<1>4. CASE TaskPanics(q)
  BY <1>4
  DEF TaskPanics, DeployInv, TypeOK, AgentInv, TaskStates, PushedIsOnline, TaskFacts,
      HostFacts, RunFacts, TargetsOf, agentVars
<1>. QED BY <1>1, <1>2, <1>3, <1>4 DEF TaskStep

(* The verdict.                                                             *)
LEMMA FinishKeepsInv ==
  ASSUME DeployInv, AgentInv', NEW r \in Runs, FinishRun(r)
  PROVE  DeployInv'
<1>0. /\ \A q \in TargetsOf(r) : task[q] \in {"done", "panicked"}
      /\ \E verdict \in {"failed", "completed"} : runStatus' = [runStatus EXCEPT ![r] = verdict]
      /\ job[r] /\ job' = [job EXCEPT ![r] = FALSE]
      /\ UNCHANGED <<agentVars, result, task, deaths>>
  BY DEF FinishRun, Joined
<1>1. /\ runStatus'[r] \in {"failed", "completed"} /\ ~job'[r]
      /\ \A s \in Runs : s # r => runStatus'[s] = runStatus[s] /\ job'[s] = job[s]
  BY <1>0 DEF DeployInv, TypeOK
<1>2. TypeOK'
  BY <1>0 DEF DeployInv, TypeOK, AgentInv, RunStates
<1>3. PushedIsOnline'
  BY <1>0 DEF DeployInv, PushedIsOnline, agentVars
<1>4. TaskFacts'
  <2>1. \A q \in Requests : q[1] = r => task[q] \in {"none", "done", "panicked"}
    BY <1>0 DEF TargetsOf
  <2>. QED BY <2>1, <1>0, <1>1, TargetParts DEF DeployInv, TaskFacts, agentVars
<1>5. HostFacts'
  BY <1>0 DEF DeployInv, HostFacts, TargetsOf, agentVars
<1>6. RunFacts'
  BY <1>0, <1>1 DEF DeployInv, RunFacts, TargetsOf
<1>. QED BY <1>2, <1>3, <1>4, <1>5, <1>6 DEF DeployInv

(* A crash ends jobs and tasks and leaves the table as it is.               *)
LEMMA DeathKeepsInv ==
  ASSUME DeployInv, AgentInv', SupervisorDies
  PROVE  DeployInv'
<1>0. /\ task' = [q \in Requests |-> IF task[q] \in {"ready", "waiting"} THEN "gone" ELSE task[q]]
      /\ job' = [r \in Runs |-> FALSE]
      /\ script' = script /\ UNCHANGED <<runStatus, result>> /\ deaths' = deaths + 1
      /\ \A q \in Requests : conn[q] = "none" <=> conn'[q] = "none"
  BY DEF SupervisorDies, Close
<1>1. TypeOK'
  BY <1>0 DEF DeployInv, TypeOK, AgentInv, TaskStates
<1>2. PushedIsOnline' /\ TaskFacts'
  BY <1>0 DEF DeployInv, PushedIsOnline, TaskFacts
<1>3. HostFacts'
  BY <1>0 DEF DeployInv, HostFacts, TargetsOf
<1>4. RunFacts'
  BY <1>0 DEF DeployInv, RunFacts, TargetsOf
<1>. QED BY <1>1, <1>2, <1>3, <1>4 DEF DeployInv

LEMMA DeployInvStep == DeployInv /\ [Next]_vars => DeployInv'
<1> SUFFICES ASSUME DeployInv, [Next]_vars PROVE DeployInv'
  OBVIOUS
<1>0. AgentInv'
  BY DeployStepsAgents, AgentInvStep DEF DeployInv
<1>1. ASSUME NEW r \in Runs, NEW targets \in SUBSET { p \in Requests : p[1] = r },
             NEW up \in SUBSET Hosts, StartDeploy(r, targets, up)
      PROVE  DeployInv'
  BY <1>0, <1>1, StartKeepsInv
<1>2. ASSUME NEW q \in Requests, TaskStep(q) PROVE DeployInv'
  BY <1>0, <1>2, TaskKeepsInv
<1>3. ASSUME NEW r \in Runs, FinishRun(r) PROVE DeployInv'
  BY <1>0, <1>3, FinishKeepsInv
<1>4. CASE SupervisorDies
  BY <1>0, <1>4, DeathKeepsInv
<1>5. CASE AgentStep /\ UNCHANGED runVars
  <2>1. /\ conn' = conn
        /\ \A q \in Requests : script[q] = "ok" => script'[q] = "ok"
    BY <1>5, AgentStepKeeps DEF DeployInv
  <2>2. UNCHANGED <<runStatus, result, task, job, deaths>>
    BY <1>5 DEF runVars
  <2>3. TypeOK'
    BY <1>0, <2>2 DEF DeployInv, TypeOK, AgentInv
  <2>4. PushedIsOnline' /\ TaskFacts' /\ RunFacts'
    BY <2>1, <2>2 DEF DeployInv, PushedIsOnline, TaskFacts, RunFacts, TargetsOf
  <2>5. HostFacts'
    BY <2>1, <2>2 DEF DeployInv, HostFacts, TargetsOf
  <2>. QED BY <1>0, <2>3, <2>4, <2>5 DEF DeployInv
<1>6. CASE UNCHANGED vars
  BY <1>0, <1>6
  DEF vars, agentVars, runVars, DeployInv, TypeOK, AgentInv, PushedIsOnline, TaskFacts,
      HostFacts, RunFacts, TargetsOf
<1>. QED BY <1>1, <1>2, <1>3, <1>4, <1>5, <1>6 DEF Next

LEMMA DeployInvAlways == Spec => []DeployInv
BY DeployInvInit, DeployInvStep, PTL DEF Spec

(* The composed model is type correct.                                      *)
THEOREM DeployTypeCorrect == Spec => []TypeOK
<1>1. DeployInv => TypeOK
  BY DEF DeployInv
<1>. QED BY <1>1, DeployInvAlways, PTL

(* A run that was not started holds no results.                             *)
UnstartedEmpty ==
  \A r \in Runs, h \in Hosts : runStatus[r] = "none" => result[r][h] = "absent"

LEMMA UnstartedStep ==
  ASSUME DeployInv, UnstartedEmpty, [Next]_vars
  PROVE  UnstartedEmpty'
<1>1. ASSUME NEW r \in Runs, NEW targets \in SUBSET { p \in Requests : p[1] = r },
             NEW up \in SUBSET Hosts, StartDeploy(r, targets, up)
      PROVE  UnstartedEmpty'
  BY <1>1 DEF StartDeploy, UnstartedEmpty, DeployInv, TypeOK
<1>2. ASSUME NEW q \in Requests, NEW status, Patch(q, status) PROVE UnstartedEmpty'
  BY <1>2, TargetParts DEF Patch, UnstartedEmpty, DeployInv, TypeOK
<1>3. ASSUME NEW q \in Requests, TaskStep(q) PROVE UnstartedEmpty'
  <2>1. (\E status : Patch(q, status)) \/ UNCHANGED <<runStatus, result>>
    BY <1>3 DEF TaskStep, TaskStart, TaskEnd, TaskTimeout, TaskPanics
  <2>. QED BY <1>2, <2>1 DEF UnstartedEmpty
<1>4. ASSUME NEW r \in Runs, FinishRun(r) PROVE UnstartedEmpty'
  BY <1>4 DEF FinishRun, UnstartedEmpty, DeployInv, TypeOK
<1>5. CASE \/ SupervisorDies
           \/ AgentStep /\ UNCHANGED runVars
           \/ UNCHANGED vars
  BY <1>5 DEF SupervisorDies, runVars, vars, UnstartedEmpty
<1>. QED BY <1>1, <1>3, <1>4, <1>5 DEF Next

(* A step leaves the offline results of started runs alone.                 *)
LEMMA OfflineKept ==
  ASSUME DeployInv, UnstartedEmpty, [Next]_vars,
         NEW q \in Requests, result[q[1]][q[2]] = "offline"
  PROVE  result'[q[1]][q[2]] = "offline"
<1>1. ASSUME NEW r \in Runs, NEW targets \in SUBSET { p \in Requests : p[1] = r },
             NEW up \in SUBSET Hosts, StartDeploy(r, targets, up)
      PROVE  result'[q[1]][q[2]] = "offline"
  <2>1. q[1] # r
    BY <1>1, TargetParts DEF StartDeploy, UnstartedEmpty
  <2>. QED BY <1>1, <2>1, TargetParts DEF StartDeploy, DeployInv, TypeOK
<1>2. ASSUME NEW p \in Requests, TaskStep(p) PROVE result'[q[1]][q[2]] = "offline"
  <2>1. \/ UNCHANGED result
        \/ /\ result[p[1]][p[2]] # "offline"
           /\ \E status : Patch(p, status)
    BY <1>2 DEF TaskStep, TaskStart, TaskEnd, TaskTimeout, TaskPanics, DeployInv, TaskFacts
  <2>2. ASSUME NEW status, result[p[1]][p[2]] # "offline", Patch(p, status)
        PROVE  result'[q[1]][q[2]] = "offline"
    <3>1. ~(p[1] = q[1] /\ p[2] = q[2])
      BY <2>2
    <3>. QED BY <2>2, <3>1, TargetParts DEF Patch, DeployInv, TypeOK
  <2>. QED BY <2>1, <2>2
<1>3. CASE \/ \E r \in Runs : FinishRun(r)
           \/ SupervisorDies
           \/ AgentStep /\ UNCHANGED runVars
           \/ UNCHANGED vars
  BY <1>3 DEF FinishRun, SupervisorDies, runVars, vars
<1>. QED BY <1>1, <1>2, <1>3 DEF Next

(* An agent is never asked to update a host that its run holds for offline, *)
(* and that result is never overwritten (runDeployJob).                   *)
THEOREM DeploySkipsOffline == Spec => OfflineNeverPushed
<1>1. Init => UnstartedEmpty
  BY DEF Init, UnstartedEmpty
<1>2. DeployInv /\ UnstartedEmpty /\ [Next]_vars => UnstartedEmpty'
  BY UnstartedStep
<1>3. DeployInv /\ DeployInv' /\ UnstartedEmpty /\ [Next]_vars =>
        \A q \in Requests :
          result[q[1]][q[2]] = "offline" =>
            result'[q[1]][q[2]] = "offline" /\ conn'[q] = "none"
  BY OfflineKept DEF DeployInv, PushedIsOnline
<1>. QED BY <1>1, <1>2, <1>3, DeployInvAlways, PTL DEF Spec, OfflineNeverPushed

(* In the crates a host shown as updated ran the update script to its end   *)
(* in this run; a run of the model refutes it of Node.js.                   *)
THEOREM DeploySuccessTrue == Crates => (Spec => []SuccessMeansInstalled)
<1> SUFFICES ASSUME Crates PROVE Spec => []SuccessMeansInstalled
  OBVIOUS
<1>1. DeployInv => SuccessMeansInstalled
  BY DEF DeployInv, HostFacts, SuccessMeansInstalled
<1>. QED BY <1>1, DeployInvAlways, PTL

(* A Node.js agent says "already in progress" only while an update is at    *)
(* work, whatever clients, crashes and timeouts do (isUpdateInFlight).      *)
THEOREM DeployBusyMeansRunning == ~Crates => (Spec => []BusyMeansRunning)
<1> SUFFICES ASSUME ~Crates PROVE Spec => []BusyMeansRunning
  OBVIOUS
<1>. QED BY AgentsBusyMeansRunning, DeployImplementsAgents, PTL

(* A verdict accounts for every host of the run, also when tasks panic or   *)
(* a name is listed twice.                                                  *)
THEOREM DeployVerdictAccounts == Spec => []VerdictAccounts
<1>1. DeployInv => VerdictAccounts
  <2> SUFFICES ASSUME DeployInv, NEW r \in Runs, runStatus[r] \in {"completed", "failed"},
                      NEW h \in Hosts
      PROVE  /\ result[r][h] # "pending"
             /\ result[r][h] = "running" =>
                  \E q \in TargetsOf(r) : q[2] = h /\ task[q] = "panicked"
    BY DEF VerdictAccounts
  <2>1. \A q \in TargetsOf(r) : q \in Requests /\ q[1] = r /\ task[q] \in {"done", "panicked"}
    BY DEF DeployInv, RunFacts, TargetsOf
  <2>2. result[r][h] # "pending"
    BY <2>1 DEF DeployInv, HostFacts, TaskFacts
  <2>3. result[r][h] = "running" => \E q \in TargetsOf(r) : q[2] = h /\ task[q] = "panicked"
    BY <2>1 DEF DeployInv, HostFacts
  <2>. QED BY <2>2, <2>3
<1>. QED BY <1>1, DeployInvAlways, PTL
-----------------------------------------------------------------------------
(* A run's job: it lives as long as a task that may still write the row,    *)
(* its connections are closed by nobody but the task itself, and a run      *)
(* without it was ended or orphaned.                                        *)
JobFacts ==
  /\ \A q \in Requests :
       /\ task[q] \in {"ready", "waiting"} => job[q[1]]
       /\ task[q] = "waiting" => conn[q] # "closed"
       /\ task[q] = "gone" => ~job[q[1]]
  /\ \A r \in Runs : runStatus[r] = "running" => job[r] \/ deaths > 0

LEMMA JobFactsInit == Init => JobFacts
  BY TargetParts DEF Init, JobFacts

(* A step of a task.                                                        *)
LEMMA TaskKeepsJobFacts ==
  ASSUME DeployInv, JobFacts, NEW q \in Requests, TaskStep(q) PROVE JobFacts'
<1>0. UNCHANGED <<job, deaths>>
  BY DEF TaskStep, TaskStart, TaskEnd, TaskTimeout, TaskPanics
<1>1. /\ task[q] \in {"ready", "waiting"} /\ task'[q] \in {"waiting", "done", "panicked"}
      /\ \A p \in Requests \ {q} : task'[p] = task[p] /\ conn'[p] = conn[p]
      /\ task'[q] = "waiting" => conn'[q] # "closed"
  <2>1. CASE TaskStart(q)
    <3>1. conn[q] = "none"
      BY <2>1 DEF TaskStart, DeployInv, TaskFacts
    <3>. QED
      BY <2>1, <3>1
      DEF TaskStart, Open, agentVars, DeployInv, TypeOK, AgentInv, AgentTypeOK
  <2>2. CASE TaskEnd(q) \/ TaskPanics(q)
    BY <2>2 DEF TaskEnd, TaskPanics, agentVars, DeployInv, TypeOK
  <2>3. CASE TaskTimeout(q)
    BY <2>3 DEF TaskTimeout, Close, DeployInv, TypeOK, AgentInv, AgentTypeOK
  <2>. QED BY <2>1, <2>2, <2>3 DEF TaskStep
<1>2. runStatus' = runStatus \/ runStatus' = [runStatus EXCEPT ![q[1]] = "running"]
  BY DEF TaskStep, TaskStart, TaskEnd, TaskTimeout, TaskPanics, Patch
<1>3. job[q[1]]
  BY <1>1 DEF JobFacts
<1>4. \A r \in Runs : runStatus'[r] = "running" => job[r] \/ deaths > 0
  BY <1>2, <1>3 DEF JobFacts, DeployInv, TypeOK
<1>5. ASSUME NEW p \in Requests
      PROVE  /\ task'[p] \in {"ready", "waiting"} => job[p[1]]
             /\ task'[p] = "waiting" => conn'[p] # "closed"
             /\ task'[p] = "gone" => ~job[p[1]]
  <2>1. CASE p = q
    BY <2>1, <1>1, <1>3
  <2>2. CASE p # q
    BY <2>2, <1>1 DEF JobFacts
  <2>. QED BY <2>1, <2>2
<1>. QED BY <1>0, <1>4, <1>5 DEF JobFacts

LEMMA JobFactsStep ==
  ASSUME DeployInv, JobFacts, [Next]_vars PROVE JobFacts'
<1>1. ASSUME NEW r \in Runs, NEW targets \in SUBSET { p \in Requests : p[1] = r },
             NEW up \in SUBSET Hosts, StartDeploy(r, targets, up)
      PROVE  JobFacts'
  <2>1. /\ task' = [q \in Requests |-> IF q \in targets THEN "ready" ELSE task[q]]
        /\ runStatus' = [runStatus EXCEPT ![r] = "running"] /\ runStatus[r] = "none"
        /\ job' = [job EXCEPT ![r] = TRUE]
        /\ conn' = conn /\ deaths' = deaths
    BY <1>1 DEF StartDeploy, agentVars
  <2>2. \A q \in targets : q \in Requests /\ q[1] = r
    OBVIOUS
  <2>3. \A q \in Requests : q[1] = r => task[q] = "none"
    BY <2>1 DEF DeployInv, TaskFacts
  <2>4. /\ job'[r] = TRUE
        /\ \A s \in Runs : s # r => job'[s] = job[s] /\ runStatus'[s] = runStatus[s]
    BY <2>1 DEF DeployInv, TypeOK
  <2>5. \A s \in Runs : runStatus'[s] = "running" => job'[s] \/ deaths' > 0
    BY <2>1, <2>4 DEF JobFacts
  <2>. QED BY <2>1, <2>2, <2>3, <2>4, <2>5, TargetParts DEF JobFacts
<1>2. ASSUME NEW q \in Requests, TaskStep(q) PROVE JobFacts'
  BY <1>2, TaskKeepsJobFacts
<1>3. ASSUME NEW r \in Runs, FinishRun(r) PROVE JobFacts'
  <2>1. \A q \in Requests : q[1] = r => task[q] \in {"none", "done", "panicked"}
    BY <1>3 DEF FinishRun, Joined, TargetsOf
  <2>2. /\ UNCHANGED <<task, conn, deaths>>
        /\ runStatus'[r] # "running"
        /\ \A s \in Runs : s # r => job'[s] = job[s] /\ runStatus'[s] = runStatus[s]
        /\ ~job'[r]
    BY <1>3 DEF FinishRun, agentVars, DeployInv, TypeOK
  <2>. QED BY <2>1, <2>2, TargetParts DEF JobFacts
<1>4. CASE SupervisorDies
  <2>1. \A q \in Requests : task'[q] \notin {"ready", "waiting"}
    BY <1>4 DEF SupervisorDies
  <2>2. \A q \in Requests : ~job'[q[1]]
    BY <1>4, TargetParts DEF SupervisorDies
  <2>3. deaths' > 0
    BY <1>4 DEF SupervisorDies, DeployInv, TypeOK
  <2>. QED BY <2>1, <2>2, <2>3 DEF JobFacts
<1>5. CASE AgentStep /\ UNCHANGED runVars
  <2>1. conn' = conn
    BY <1>5, AgentStepKeeps DEF DeployInv
  <2>. QED BY <1>5, <2>1 DEF runVars, JobFacts
<1>6. CASE UNCHANGED vars
  BY <1>6 DEF vars, agentVars, runVars, JobFacts
<1>. QED BY <1>1, <1>2, <1>3, <1>4, <1>5, <1>6 DEF Next

LEMMA JobFactsAlways == Spec => []JobFacts
BY JobFactsInit, JobFactsStep, DeployInvAlways, PTL DEF Spec

(* A running run waits only for tasks that can end, or a crash orphaned it, *)
(* for any number of runs, hosts and copies of a name (runDeployJob).       *)
THEOREM DeployRunsCanEnd == Spec => []RunsCanEnd
<1>1. DeployInv /\ JobFacts => RunsCanEnd
  <2> SUFFICES ASSUME DeployInv, JobFacts, NEW r \in Runs, runStatus[r] = "running"
      PROVE  \/ ~job[r] /\ deaths > 0
             \/ job[r] /\ \A q \in TargetsOf(r) :
                  \/ task[q] \in {"ready", "done", "panicked"}
                  \/ task[q] = "waiting" /\ (conn[q] # "closed" \/ answer[q] # "none")
    BY DEF RunsCanEnd
  <2>1. \A q \in TargetsOf(r) :
          q \in Requests /\ q[1] = r /\ task[q] \in TaskStates \ {"none"}
    BY DEF TargetsOf, DeployInv, TypeOK
  <2>. QED BY <2>1 DEF JobFacts, TaskStates, DeployInv, TypeOK
<1>. QED BY <1>1, DeployInvAlways, JobFactsAlways, PTL

(* The row of a run without a job is never written again, neither after a   *)
(* verdict nor after a crash (patchHost, runDeployJob).                     *)
THEOREM DeployEndedStay == Spec => EndedRunsStay
<1>1. DeployInv /\ JobFacts /\ [Next]_vars =>
        [\A r \in Runs : runStatus[r] # "none" /\ ~job[r] =>
           UNCHANGED <<runStatus[r], result[r], job[r]>>]_vars
  <2> SUFFICES ASSUME DeployInv, JobFacts, [Next]_vars,
                      NEW r \in Runs, runStatus[r] # "none", ~job[r]
      PROVE  UNCHANGED <<runStatus[r], result[r], job[r]>>
    OBVIOUS
  <2>1. ASSUME NEW s \in Runs, NEW targets \in SUBSET { p \in Requests : p[1] = s },
               NEW up \in SUBSET Hosts, StartDeploy(s, targets, up)
        PROVE  UNCHANGED <<runStatus[r], result[r], job[r]>>
    BY <2>1 DEF StartDeploy, DeployInv, TypeOK
  <2>2. ASSUME NEW q \in Requests, TaskStep(q)
        PROVE  UNCHANGED <<runStatus[r], result[r], job[r]>>
    <3>1. task[q] \in {"ready", "waiting"} /\ job' = job
      BY <2>2 DEF TaskStep, TaskStart, TaskEnd, TaskTimeout, TaskPanics
    <3>2. q[1] # r
      BY <3>1 DEF JobFacts
    <3>3. (\E status : Patch(q, status)) \/ UNCHANGED <<runStatus, result>>
      BY <2>2 DEF TaskStep, TaskStart, TaskEnd, TaskTimeout, TaskPanics
    <3>. QED BY <3>1, <3>2, <3>3, TargetParts DEF Patch, DeployInv, TypeOK
  <2>3. ASSUME NEW s \in Runs, FinishRun(s)
        PROVE  UNCHANGED <<runStatus[r], result[r], job[r]>>
    <3>1. s # r
      BY <2>3 DEF FinishRun, Joined
    <3>. QED BY <2>3, <3>1 DEF FinishRun, DeployInv, TypeOK
  <2>4. CASE SupervisorDies
    BY <2>4 DEF SupervisorDies, DeployInv, TypeOK
  <2>5. CASE (AgentStep /\ UNCHANGED runVars) \/ UNCHANGED vars
    BY <2>5 DEF vars, runVars
  <2>. QED BY <2>1, <2>2, <2>3, <2>4, <2>5 DEF Next
<1>. QED BY <1>1, DeployInvAlways, JobFactsAlways, PTL DEF Spec, EndedRunsStay
-----------------------------------------------------------------------------
(* Refinement of DeployRuns.  It needs target lists without equal names:    *)
(* then the result of a host follows its one task.                          *)
OneCopy == \A c, d \in Copies : c = d

ResultFollowsTask ==
  \A q \in Requests :
    /\ task[q] = "ready" => result[q[1]][q[2]] \in {"pending", "offline"}
    /\ task[q] = "waiting" => result[q[1]][q[2]] = "running"

LEMMA OneTarget ==
  ASSUME OneCopy, NEW p \in Requests, NEW q \in Requests, p[1] = q[1], p[2] = q[2]
  PROVE  p = q
BY DeployAssumption DEF OneCopy

LEMMA FollowsStep ==
  ASSUME OneCopy, DeployInv, ResultFollowsTask, [Next]_vars
  PROVE  ResultFollowsTask'
<1>1. ASSUME NEW r \in Runs, NEW targets \in SUBSET { p \in Requests : p[1] = r },
             NEW up \in SUBSET Hosts, StartDeploy(r, targets, up)
      PROVE  ResultFollowsTask'
  <2> DEFINE named == { q[2] : q \in targets }
  <2>1. /\ runStatus[r] = "none"
        /\ result' = [result EXCEPT ![r] =
              [h \in Hosts |-> IF h \notin named THEN "absent"
                               ELSE IF h \in up THEN "pending" ELSE "offline"]]
        /\ task' = [q \in Requests |-> IF q \in targets THEN "ready" ELSE task[q]]
    BY <1>1 DEF StartDeploy
  <2>2. \A q \in Requests : q[1] = r => task[q] = "none"
    BY <2>1 DEF DeployInv, TaskFacts
  <2>3. \A q \in Requests : q[1] = r => task'[q] \in {"none", "ready"}
    BY <2>1, <2>2
  <2>4. \A q \in Requests : q[1] # r => task'[q] = task[q] /\ result'[q[1]] = result[q[1]]
    BY <2>1, TargetParts DEF DeployInv, TypeOK
  <2>5. \A q \in Requests : q[1] = r /\ q \in targets => result'[q[1]][q[2]] \in {"pending", "offline"}
    BY <2>1, TargetParts DEF DeployInv, TypeOK
  <2>6. \A q \in Requests : task'[q] = "ready" /\ q[1] = r => q \in targets
    BY <2>1, <2>2
  <2>. QED BY <2>3, <2>4, <2>5, <2>6 DEF ResultFollowsTask
<1>2. ASSUME NEW q \in Requests, NEW status, NEW next \in {"waiting", "done"},
             Patch(q, status), task' = [task EXCEPT ![q] = next],
             next = "waiting" => status = "running"
      PROVE  ResultFollowsTask'
  <2>1. result' = [result EXCEPT ![q[1]][q[2]] = status]
    BY <1>2 DEF Patch
  <2>2. ASSUME NEW p \in Requests, p # q
        PROVE  task'[p] = task[p] /\ result'[p[1]][p[2]] = result[p[1]][p[2]]
    <3>1. ~(p[1] = q[1] /\ p[2] = q[2])
      BY <2>2, OneTarget
    <3>2. task'[p] = task[p]
      BY <1>2, <2>2 DEF DeployInv, TypeOK
    <3>3. p[1] \in Runs /\ p[2] \in Hosts /\ q[1] \in Runs /\ q[2] \in Hosts
      BY TargetParts
    <3>. QED BY <2>1, <3>1, <3>2, <3>3 DEF DeployInv, TypeOK
  <2>3. task'[q] = next
    BY <1>2 DEF DeployInv, TypeOK
  <2>4. result'[q[1]][q[2]] = status
    BY <2>1, TargetParts DEF DeployInv, TypeOK
  <2>. QED BY <1>2, <2>2, <2>3, <2>4 DEF ResultFollowsTask
<1>3. ASSUME NEW q \in Requests, TaskStart(q) PROVE ResultFollowsTask'
  <2>1. CASE result[q[1]][q[2]] = "offline"
    BY <1>3, <2>1 DEF TaskStart, ResultFollowsTask, DeployInv, TypeOK
  <2>2. CASE result[q[1]][q[2]] # "offline"
    BY <1>2, <1>3, <2>2 DEF TaskStart
  <2>. QED BY <2>1, <2>2
<1>4. ASSUME NEW q \in Requests, TaskEnd(q) PROVE ResultFollowsTask'
  BY <1>2, <1>4 DEF TaskEnd
<1>5. ASSUME NEW q \in Requests, TaskTimeout(q) PROVE ResultFollowsTask'
  BY <1>2, <1>5 DEF TaskTimeout
<1>6. ASSUME NEW q \in Requests, TaskPanics(q) PROVE ResultFollowsTask'
  BY <1>6 DEF TaskPanics, ResultFollowsTask, DeployInv, TypeOK
<1>7. ASSUME NEW r \in Runs, FinishRun(r) PROVE ResultFollowsTask'
  BY <1>7 DEF FinishRun, ResultFollowsTask
<1>8. CASE SupervisorDies
  BY <1>8 DEF SupervisorDies, ResultFollowsTask
<1>9. CASE AgentStep /\ UNCHANGED runVars
  BY <1>9 DEF runVars, ResultFollowsTask
<1>10. CASE UNCHANGED vars
  BY <1>10 DEF vars, runVars, ResultFollowsTask
<1>. QED BY <1>1, <1>3, <1>4, <1>5, <1>6, <1>7, <1>8, <1>9, <1>10 DEF Next, TaskStep

(* Every step of the supervisor is a step of DeployRuns or none of its.     *)
LEMMA LifecycleStep ==
  ASSUME DeployInv, ResultFollowsTask, [Next]_vars
  PROVE  [Lifecycle!Next]_(Lifecycle!vars)
<1> USE DEF Lifecycle!vars
<1>1. ASSUME NEW r \in Runs, NEW targets \in SUBSET { p \in Requests : p[1] = r },
             NEW up \in SUBSET Hosts, StartDeploy(r, targets, up)
      PROVE  Lifecycle!Next
  <2> DEFINE named == { q[2] : q \in targets }
  <2>1. named \in SUBSET Hosts /\ named # {}
    BY <1>1, TargetParts DEF StartDeploy
  <2>2. Lifecycle!Start(r, named, up)
    BY <1>1, <2>1 DEF StartDeploy, Lifecycle!Start
  <2>. QED BY <2>1, <2>2 DEF Lifecycle!Next
<1>2. ASSUME NEW q \in Requests, TaskStart(q) PROVE [Lifecycle!Next]_(Lifecycle!vars)
  <2>1. CASE result[q[1]][q[2]] = "offline"
    BY <1>2, <2>1 DEF TaskStart
  <2>2. CASE result[q[1]][q[2]] # "offline"
    <3>1. result[q[1]][q[2]] = "pending" /\ runStatus[q[1]] = "running"
      BY <1>2, <2>2 DEF TaskStart, ResultFollowsTask, DeployInv, TaskFacts
    <3>2. Lifecycle!HostStarts(q[1], q[2])
      BY <1>2, <2>2, <3>1 DEF TaskStart, Patch, Lifecycle!HostStarts, DeployInv, TypeOK
    <3>. QED BY <3>2, TargetParts DEF Lifecycle!Next
  <2>. QED BY <2>1, <2>2
<1>3. ASSUME NEW q \in Requests, NEW final \in {"success", "failed"},
             task[q] = "waiting", Patch(q, final)
      PROVE  Lifecycle!Next
  <2>1. result[q[1]][q[2]] = "running" /\ runStatus[q[1]] = "running"
    BY <1>3 DEF ResultFollowsTask, DeployInv, TaskFacts
  <2>2. Lifecycle!HostEnds(q[1], q[2], final)
    BY <1>3, <2>1 DEF Patch, Lifecycle!HostEnds, DeployInv, TypeOK
  <2>. QED BY <2>2, TargetParts DEF Lifecycle!Next
<1>4. ASSUME NEW q \in Requests, TaskEnd(q) PROVE Lifecycle!Next
  BY <1>3, <1>4 DEF TaskEnd, VerdictOf
<1>5. ASSUME NEW q \in Requests, TaskTimeout(q) PROVE Lifecycle!Next
  BY <1>3, <1>5 DEF TaskTimeout, VerdictOf
<1>6. ASSUME NEW q \in Requests, TaskPanics(q) PROVE UNCHANGED Lifecycle!vars
  BY <1>6 DEF TaskPanics
<1>7. ASSUME NEW r \in Runs, FinishRun(r) PROVE Lifecycle!Next
  <2>1. \A q \in TargetsOf(r) : q \in Requests /\ q[1] = r /\ task[q] \in {"done", "panicked"}
    BY <1>7 DEF FinishRun, Joined, TargetsOf
  <2>2. \A h \in Hosts : result[r][h] # "pending"
    BY <2>1 DEF DeployInv, HostFacts, TaskFacts
  <2>3. runStatus[r] = "running"
    BY <1>7 DEF FinishRun, Joined, DeployInv, TypeOK, RunFacts, RunStates
  <2>4. Lifecycle!Finish(r)
    BY <1>7, <2>2, <2>3 DEF FinishRun, Tried, Lifecycle!Finish, Lifecycle!Verdict
  <2>. QED BY <2>4 DEF Lifecycle!Next
<1>8. CASE SupervisorDies
  BY <1>8 DEF SupervisorDies
<1>9. CASE AgentStep /\ UNCHANGED runVars
  BY <1>9 DEF runVars
<1>10. CASE UNCHANGED vars
  BY <1>10 DEF vars, runVars
<1>. QED BY <1>1, <1>2, <1>4, <1>5, <1>6, <1>7, <1>8, <1>9, <1>10 DEF Next, TaskStep

(* Without equal names in a target list, deploy runs keep every promise of  *)
(* DeployRuns: no result is lost or taken back, no verdict is early or      *)
(* reopened (runDeployJob, patchHost).                            *)
THEOREM DeployImplementsRuns == OneCopy => (Spec => RunLifecycle)
<1> SUFFICES ASSUME OneCopy PROVE Spec => RunLifecycle
  OBVIOUS
<1>1. Init => ResultFollowsTask
  BY DEF Init, ResultFollowsTask
<1>2. DeployInv /\ ResultFollowsTask /\ [Next]_vars => ResultFollowsTask'
  BY FollowsStep
<1>3. Init => Lifecycle!Init
  BY DEF Init, Lifecycle!Init
<1>4. DeployInv /\ ResultFollowsTask /\ [Next]_vars => [Lifecycle!Next]_(Lifecycle!vars)
  BY LifecycleStep
<1>. QED BY <1>1, <1>2, <1>3, <1>4, DeployInvAlways, PTL DEF Spec, RunLifecycle, Lifecycle!Spec
==============================================================================
