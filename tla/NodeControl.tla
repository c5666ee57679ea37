----------------------------- MODULE NodeControl -----------------------------
(***************************************************************************)
(* Remote control of one node: the buttons and the status line of the      *)
(* control panel (MachineControlsPanel.tsx), the routes of the supervisor  *)
(* (routes.ts, agent-control.ts), and on the node the agent's handlers     *)
(* (agent-http.ts, node-control.ts, fah-control.ts).                       *)
(*                                                                         *)
(* A handler starts systemctl, or opens a socket to the FAH client, and    *)
(* waits.  systemd works on a job whether or not its systemctl still       *)
(* lives; when the agent's own service stops, every process of it dies,    *)
(* the systemctl that asked for the stop included (external: systemd).     *)
(***************************************************************************)
EXTENDS Integers

CONSTANTS
  Commands,      \* commands that may ever be sent
  Panels,        \* open control panels (operators, browser tabs)
  PanelOf,       \* PanelOf[q]: the panel command q is sent from
  Buttons,       \* Buttons[q]: bound: the actions command q may be
  Loads,         \* status requests of the observed panel under way at once
  MaxOutside     \* bound: changes of the units by others

SystemctlActions ==
  {"agent.start", "agent.stop", "fah.start", "fah.stop", "fah.restart", "host.reboot"}
SocketActions == {"fah.pause", "fah.resume", "fah.finish"}
CONTROL_ACTIONS == SystemctlActions \cup SocketActions \cup {"agent.restart"}

ASSUME ControlAssumption ==
  /\ PanelOf \in [Commands -> Panels]
  /\ Buttons \in [Commands -> SUBSET CONTROL_ACTIONS]
  /\ MaxOutside \in Nat

VARIABLES
  agent,         \* foldops-agent: "up", "stopped", or "booting" with the host
  fah,           \* fah-client: "active" or "inactive"
  action,        \* action[q]: what command q asks for
  stage,         \* stage[q]: where its request stands
  job,           \* job[q]: the systemd job, or the message to the FAH client
  shown,         \* shown[q]: what the panel shows for it
  pending,       \* the restarts that are due: "agent", "host"
  load,          \* load[l]: a status request, or the answer under way
  status,        \* fah-client in the status line; "unknown" without one
  outside        \* changes by others so far

node == <<agent, fah, pending>>
request == <<action, stage, job, shown>>
panel == <<load, status>>
vars == <<node, request, panel, outside>>

UnitStates == {"active", "inactive"}

TypeOK ==
  /\ agent \in {"up", "stopped", "booting"}
  /\ fah \in UnitStates
  /\ pending \in SUBSET {"agent", "host"}
  /\ action \in [Commands -> CONTROL_ACTIONS \cup {"none"}]
  /\ stage \in [Commands -> {"none", "posted", "working", "over"}]
  /\ job \in [Commands -> {"none", "queued", "done", "failed"}]
  /\ shown \in [Commands -> {"none", "ok", "failed", "error"}]
  /\ load \in [Loads -> UnitStates \cup {"idle", "asked", "unknown"}]
  /\ status \in UnitStates \cup {"unknown"}
  /\ outside \in Nat

Init ==
  /\ agent = "up" /\ fah \in UnitStates /\ pending = {}
  /\ action = [q \in Commands |-> "none"]
  /\ stage = [q \in Commands |-> "none"]
  /\ job = [q \in Commands |-> "none"]
  /\ shown = [q \in Commands |-> "none"]
  /\ load = [l \in Loads |-> "idle"]
  /\ status = "unknown" /\ outside = 0

Waits(q) == stage[q] # "none" /\ shown[q] = "none"
Busy(p) == \E q \in Commands : PanelOf[q] = p /\ Waits(q)
-----------------------------------------------------------------------------
(* A button; all of a panel's are disabled while its command runs.          *)
run(q, a) ==
  /\ stage[q] = "none" /\ ~Busy(PanelOf[q])
  /\ stage' = [stage EXCEPT ![q] = "posted"]
  /\ action' = [action EXCEPT ![q] = a]
  /\ UNCHANGED <<node, job, shown, panel, outside>>

(* What a panel shows when the push fails: a broken or refused connection   *)
(* of agent.restart passes for the restart itself (likelyRestart).          *)
FailedPush(q) == IF action[q] = "agent.restart" THEN "ok" ELSE "error"
\* faulty: setBusy(null) is missing where the request fails
ShowsResult(q, what) ==
  shown' = [shown EXCEPT ![q] = IF @ = "none" /\ what # "error" THEN what ELSE @]
Shows(q, what) == shown' = [shown EXCEPT ![q] = IF @ = "none" THEN what ELSE @]

(* The route refuses (404, 403, 503 for an offline node), or the agent is   *)
(* not reached.                                                             *)
PushFails(q) ==
  /\ stage[q] = "posted"
  /\ Shows(q, "error") \/ (agent # "up" /\ Shows(q, FailedPush(q)))
  /\ stage' = [stage EXCEPT ![q] = "over"]
  /\ UNCHANGED <<node, action, job, panel, outside>>

\* faulty: the supervisor waits for an answer for ever
PushTimeoutNever(q) == stage[q] = "none" /\ shown[q] = "ok" /\ UNCHANGED vars
(* 120 s without an answer; its text is not one of likelyRestart.           *)
PushTimeout(q) ==
  /\ stage[q] = "working" /\ shown[q] = "none"
  /\ Shows(q, "error")
  /\ UNCHANGED <<node, action, stage, job, panel, outside>>

Respond(q, what) == stage' = [stage EXCEPT ![q] = "over"] /\ Shows(q, what)

\* faulty: agent.stop, like agent.restart, is answered before it is done
ExecuteStopLater(q) ==
  /\ stage[q] = "posted" /\ agent = "up"
  /\ IF action[q] \in {"agent.restart", "agent.stop"}
     THEN Respond(q, "ok") /\ pending' = pending \cup {"agent"} /\ job' = [job EXCEPT ![q] = "done"]
     ELSE /\ stage' = [stage EXCEPT ![q] = "working"]
          /\ job' = [job EXCEPT ![q] = "queued"]
          /\ UNCHANGED <<pending, shown>>
  /\ UNCHANGED <<agent, fah, action, panel, outside>>

(* executeControlAction as far as its first await: agent.restart is only    *)
(* scheduled, 400 ms after its answer; a reboot is refused where            *)
(* CONTROLS_ALLOW_REBOOT is off.                                            *)
Execute(q) ==
  /\ stage[q] = "posted" /\ agent = "up"
  /\ \/ /\ action[q] = "agent.restart"
        /\ Respond(q, "ok") /\ pending' = pending \cup {"agent"} /\ UNCHANGED job
     \/ action[q] = "host.reboot" /\ Respond(q, "failed") /\ UNCHANGED <<pending, job>>
     \/ /\ action[q] # "agent.restart"
        /\ stage' = [stage EXCEPT ![q] = "working"]
        /\ job' = [job EXCEPT ![q] = "queued"]
        /\ UNCHANGED <<pending, shown>>
  /\ UNCHANGED <<agent, fah, action, panel, outside>>

(* Every process of the agent's service dies: handlers and their children,  *)
(* the timer of the restart, and the connections that wait.                 *)
Dies ==
  LET cut == { q \in Commands : stage[q] = "working" }
  IN  /\ stage' = [q \in Commands |-> IF q \in cut THEN "over" ELSE stage[q]]
      /\ shown' = [q \in Commands |->
            IF q \in cut /\ shown[q] = "none" THEN FailedPush(q) ELSE shown[q]]

(* systemd does what a systemctl asked for.                                 *)
JobDone(q) ==
  /\ job[q] = "queued" /\ action[q] \in SystemctlActions
  /\ job' = [job EXCEPT ![q] = "done"]
  /\ fah' = CASE action[q] \in {"fah.start", "fah.restart"} -> "active"
              [] action[q] = "fah.stop" -> "inactive"
              [] OTHER -> fah
  /\ CASE action[q] = "agent.stop" ->
            agent' = "stopped" /\ Dies /\ pending' = pending \ {"agent"}
       [] action[q] = "agent.start" ->
            agent' = "up" /\ UNCHANGED <<stage, shown, pending>>
       [] action[q] = "host.reboot" ->
            pending' = pending \cup {"host"} /\ UNCHANGED <<stage, shown, agent>>
       [] OTHER -> UNCHANGED <<stage, shown, agent, pending>>
  /\ UNCHANGED <<action, panel, outside>>

(* The message went out as the socket opened; the client obeys in its time. *)
SocketOpens(q) ==
  /\ job[q] = "queued" /\ action[q] \in SocketActions
  /\ stage[q] = "working" /\ fah = "active"
  /\ job' = [job EXCEPT ![q] = "done"]
  /\ UNCHANGED <<node, action, stage, shown, panel, outside>>

(* A job that fails or is replaced by another, a socket that never opens.   *)
JobFails(q) ==
  /\ job[q] = "queued"
  /\ job' = [job EXCEPT ![q] = "failed"]
  /\ UNCHANGED <<node, action, stage, shown, panel, outside>>

\* faulty: the exit status of systemctl is not looked at
AnswerIgnoring(q) ==
  /\ stage[q] = "working" /\ job[q] \in {"done", "failed"}
  /\ Respond(q, "ok")
  /\ UNCHANGED <<node, action, job, panel, outside>>
(* The awaited systemctl has exited, or 400 ms have passed since the        *)
(* message was sent.                                                        *)
Answer(q) ==
  /\ stage[q] = "working" /\ job[q] \in {"done", "failed"}
  /\ Respond(q, IF job[q] = "done" THEN "ok" ELSE "failed")
  /\ UNCHANGED <<node, action, job, panel, outside>>

(* 60 s of systemctl (5 s for a reboot), 8 s of the socket, or its error:   *)
(* the answer is a failure, although the job may go on, or be done: the     *)
(* socket's timer may end right after its message was sent.                 *)
AnswerEarly(q) ==
  /\ stage[q] = "working"
  /\ job[q] = "queued" \/ action[q] \in SocketActions
  /\ Respond(q, "failed")
  /\ job' = [job EXCEPT ![q] = IF action[q] \in SocketActions /\ @ = "queued" THEN "failed" ELSE @]
  /\ UNCHANGED <<node, action, panel, outside>>
-----------------------------------------------------------------------------
(* restartFoldopsAgent: it may fail, which is only logged.                  *)
SelfRestart ==
  /\ "agent" \in pending /\ agent = "up"
  /\ pending' = pending \ {"agent"}
  /\ Dies \/ UNCHANGED <<stage, shown>>
  /\ UNCHANGED <<agent, fah, action, job, panel, outside>>

(* The reboot a command asked for: no job of systemd survives it.           *)
Reboot ==
  /\ "host" \in pending
  /\ agent' = "booting" /\ fah' = "inactive" /\ pending' = {}
  /\ Dies
  /\ job' = [q \in Commands |-> IF job[q] = "queued" THEN "failed" ELSE job[q]]
  /\ UNCHANGED <<action, panel, outside>>

Boots ==
  /\ agent = "booting"
  /\ agent' = "up" /\ fah' = "active"
  /\ UNCHANGED <<pending, request, panel, outside>>

(* Others: an operator at the node, the FAH client itself.                  *)
Outside ==
  /\ outside < MaxOutside
  /\ outside' = outside + 1
  /\ \/ agent # "up" /\ agent' = "up" /\ UNCHANGED fah
     \/ fah' \in UnitStates \ {fah} /\ UNCHANGED agent
  /\ UNCHANGED <<pending, request, panel>>
-----------------------------------------------------------------------------
\* faulty: the status is read once, when the panel opens
loadStatusOnce(l) ==
  /\ load = [k \in Loads |-> "idle"] /\ status = "unknown"
  /\ load' = [load EXCEPT ![l] = "asked"]
  /\ UNCHANGED <<node, request, status, outside>>
(* loadStatus: on opening, every 15 s, 2 s after a command, and by button;  *)
(* nothing keeps a second request from starting before the first is back.   *)
loadStatus(l) ==
  /\ load[l] = "idle"
  /\ load' = [load EXCEPT ![l] = "asked"]
  /\ UNCHANGED <<node, request, status, outside>>

(* systemdIsActive: systemctl exits with 3 for a unit that is not active,   *)
(* its output says which state it is in.                                    *)
systemdIsActive == fah

(* GET /control/status on the agent: it does not answer when it is down,    *)
(* and may take longer than the 8 s the supervisor waits.                   *)
getControlStatus(l) ==
  /\ load[l] = "asked"
  /\ \/ agent = "up" /\ load' = [load EXCEPT ![l] = systemdIsActive]
     \/ load' = [load EXCEPT ![l] = "unknown"]
  /\ UNCHANGED <<node, request, status, outside>>

(* Answers arrive in any order.                                             *)
setStatus(l) ==
  /\ load[l] \notin {"idle", "asked"}
  /\ status' = load[l]
  /\ load' = [load EXCEPT ![l] = "idle"]
  /\ UNCHANGED <<node, request, outside>>
-----------------------------------------------------------------------------
CommandStep(q) ==
  \/ \E a \in Buttons[q] : run(q, a)
  \/ PushFails(q) \/ PushTimeout(q) \/ Execute(q)
  \/ JobDone(q) \/ JobFails(q) \/ SocketOpens(q)
  \/ Answer(q) \/ AnswerEarly(q)

LoadStep(l) == loadStatus(l) \/ getControlStatus(l) \/ setStatus(l)

Next ==
  \/ \E q \in Commands : CommandStep(q)
  \/ \E l \in Loads : LoadStep(l)
  \/ SelfRestart \/ Reboot \/ Boots \/ Outside

Spec == Init /\ [][Next]_vars

(* The supervisor tries every push and has a timer for each; the panel's    *)
(* interval goes on, and every status request ends.  Of the node nothing is *)
(* assumed.                                                                 *)
FairSpec ==
  /\ Spec
  /\ \A q \in Commands : WF_vars(PushFails(q) \/ Execute(q)) /\ WF_vars(PushTimeout(q))
  /\ \A l \in Loads : WF_vars(LoadStep(l))
-----------------------------------------------------------------------------
(***************************************************************************)
(* Properties                                                              *)
(***************************************************************************)

(* A command shown as done was done: systemd ended its job, or the message  *)
(* to the FAH client was sent, whatever other panels, restarts, reboots and *)
(* timeouts did meanwhile.  Only agent.restart is shown before it happens   *)
(* (executeControlAction).                                                  *)
OkMeansDone ==
  \A q \in Commands :
    shown[q] = "ok" /\ action[q] # "agent.restart" => job[q] = "done"

(* agent.stop kills the handler that would confirm it: an operator never    *)
(* sees "foldops-agent stopped", though the agent may be (executeControl-   *)
(* Action, case agent.stop).                                                *)
StopNeverConfirmed == \A q \in Commands : action[q] = "agent.stop" => shown[q] # "ok"

(* A panel whose buttons are disabled waits for exactly one command, and    *)
(* that is still on its way, so a timer ends it: no restart, reboot, failed *)
(* job or late answer leaves a panel waiting for a request that is over.    *)
PanelWaitsForOne ==
  \A q \in Commands : Waits(q) =>
    /\ stage[q] \in {"posted", "working"}
    /\ \A p \in Commands \ {q} : PanelOf[p] = PanelOf[q] => ~Waits(p)

(* The buttons of a panel come back, whatever the node does.                *)
CommandsAnswered ==
  \A p \in Panels : Busy(p) ~> ~Busy(p)

(* In the end the status line does not show a state that fah-client is not  *)
(* in, whoever changed it and however late an answer comes.                  *)
StatusConverges == <>[](status \in {fah, "unknown"})
==============================================================================
