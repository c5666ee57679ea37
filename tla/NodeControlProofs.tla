--------------------------- MODULE NodeControlProofs ---------------------------
(***************************************************************************)
(* Theorems about remote control, for any number of commands, panels,      *)
(* status requests and changes from outside.                               *)
(*                                                                         *)
(* StopNeverConfirmed needs to know when systemd can have ended the job of *)
(* agent.stop: with it the handler is gone (StopOver), so it cannot answer.*)
(***************************************************************************)
EXTENDS NodeControl, TLAPS

(* A command that the agent has not begun has no job and shows nothing.     *)
NotBegun == \A q \in Commands :
  stage[q] \in {"none", "posted"} => job[q] = "none" /\ shown[q] = "none"

(* The end of the job of agent.stop is the end of its handler.              *)
StopOver == \A q \in Commands :
  action[q] = "agent.stop" /\ job[q] = "done" => stage[q] = "over"

ControlInv == NotBegun /\ StopOver /\ OkMeansDone /\ StopNeverConfirmed

Inv == TypeOK /\ ControlInv

LEMMA InvInit == Init => Inv
  BY DEF Init, Inv, TypeOK, ControlInv, NotBegun, StopOver, OkMeansDone, StopNeverConfirmed,
         UnitStates, CONTROL_ACTIONS

(* What the death of the agent does to the requests.                        *)
LEMMA DiesFacts ==
  ASSUME TypeOK, Dies
  PROVE  /\ stage' \in [Commands -> {"none", "posted", "working", "over"}]
         /\ shown' \in [Commands -> {"none", "ok", "failed", "error"}]
         /\ \A q \in Commands :
              /\ stage[q] = "working" => stage'[q] = "over"
              /\ stage[q] # "working" => stage'[q] = stage[q] /\ shown'[q] = shown[q]
              /\ shown'[q] = "ok" => shown[q] = "ok" \/ action[q] = "agent.restart"
<1>1. \A q \in Commands : FailedPush(q) \in {"ok", "error"}
  BY DEF FailedPush
<1>2. stage' = [q \in Commands |-> IF stage[q] = "working" THEN "over" ELSE stage[q]]
  BY DEF Dies
<1>3. shown' = [q \in Commands |->
        IF stage[q] = "working" /\ shown[q] = "none" THEN FailedPush(q) ELSE shown[q]]
  BY DEF Dies
<1>4. \A q \in Commands : FailedPush(q) = "ok" => action[q] = "agent.restart"
  BY DEF FailedPush
<1>. QED BY <1>1, <1>2, <1>3, <1>4 DEF TypeOK

(* Requests of the command stay while nothing but the node changes.         *)
LEMMA DeathKeepsInv ==
  ASSUME Inv, Dies \/ UNCHANGED <<stage, shown>>, action' = action,
         job' \in [Commands -> {"none", "queued", "done", "failed"}],
         \A q \in Commands :
           \/ job'[q] = job[q]
           \/ job[q] = "queued" /\ job'[q] = "failed"
           \/ /\ job[q] = "queued" /\ job'[q] = "done"
              /\ action[q] = "agent.stop" => Dies
  PROVE  ControlInv'
<1>1. CASE UNCHANGED <<stage, shown>> /\ ~Dies
  BY <1>1 DEF Inv, ControlInv, NotBegun, StopOver, OkMeansDone, StopNeverConfirmed, TypeOK
<1>2. CASE Dies
  <2>1. NotBegun'
    BY <1>2, DiesFacts DEF Inv, ControlInv, NotBegun, TypeOK
  <2>2. StopOver'
    BY <1>2, DiesFacts DEF Inv, ControlInv, NotBegun, StopOver, TypeOK
  <2>3. OkMeansDone' /\ StopNeverConfirmed'
    BY <1>2, DiesFacts DEF Inv, ControlInv, OkMeansDone, StopNeverConfirmed, TypeOK
  <2>. QED BY <2>1, <2>2, <2>3 DEF ControlInv
<1>. QED BY <1>1, <1>2

(* The steps of one request.                                                *)
LEMMA RequestKeepsInv ==
  ASSUME Inv, NEW q \in Commands,
         (\E a \in Buttons[q] : run(q, a)) \/ PushFails(q) \/ PushTimeout(q) \/ Execute(q)
  PROVE  Inv'
<1>1. ASSUME NEW a \in Buttons[q], run(q, a) PROVE Inv'
  <2>1. a \in CONTROL_ACTIONS
    BY ControlAssumption
  <2>. QED
    BY <1>1, <2>1
    DEF run, Inv, ControlInv, TypeOK, NotBegun, StopOver, OkMeansDone, StopNeverConfirmed,
        node, panel
<1>2. CASE PushFails(q)
  BY <1>2
  DEF PushFails, Shows, FailedPush, Inv, ControlInv, TypeOK, NotBegun, StopOver, OkMeansDone,
      StopNeverConfirmed, node, panel
<1>3. CASE PushTimeout(q)
  BY <1>3
  DEF PushTimeout, Shows, Inv, ControlInv, TypeOK, NotBegun, StopOver, OkMeansDone,
      StopNeverConfirmed, node, panel
<1>4. CASE Execute(q)
  <2>1. CASE action[q] = "agent.restart" /\ Respond(q, "ok")
             /\ pending' = pending \cup {"agent"} /\ UNCHANGED job
    BY <1>4, <2>1
    DEF Execute, Respond, Shows, Inv, ControlInv, TypeOK, NotBegun, StopOver, OkMeansDone,
        StopNeverConfirmed, panel
  <2>2. CASE Respond(q, "failed") /\ UNCHANGED <<pending, job>>
    BY <1>4, <2>2
    DEF Execute, Respond, Shows, Inv, ControlInv, TypeOK, NotBegun, StopOver, OkMeansDone,
        StopNeverConfirmed, panel
  <2>3. CASE /\ stage' = [stage EXCEPT ![q] = "working"]
             /\ job' = [job EXCEPT ![q] = "queued"]
             /\ UNCHANGED <<pending, shown>>
    BY <1>4, <2>3
    DEF Execute, Inv, ControlInv, TypeOK, NotBegun, StopOver, OkMeansDone,
        StopNeverConfirmed, panel
  <2>. QED BY <1>4, <2>1, <2>2, <2>3 DEF Execute
<1>. QED BY <1>1, <1>2, <1>3, <1>4

(* The ends of its job and of its handler.                                  *)
LEMMA AnswerKeepsInv ==
  ASSUME Inv, NEW q \in Commands, SocketOpens(q) \/ JobFails(q) \/ Answer(q) \/ AnswerEarly(q)
  PROVE  Inv'
<1>1. CASE SocketOpens(q)
  <2>1. action[q] # "agent.stop"
    BY <1>1 DEF SocketOpens, SocketActions
  <2>. QED
    BY <1>1, <2>1
    DEF SocketOpens, Inv, ControlInv, TypeOK, NotBegun, StopOver, OkMeansDone,
        StopNeverConfirmed, node, panel
<1>2. CASE JobFails(q)
  BY <1>2
  DEF JobFails, Inv, ControlInv, TypeOK, NotBegun, StopOver, OkMeansDone, StopNeverConfirmed,
      node, panel
<1>3. CASE Answer(q)
  BY <1>3
  DEF Answer, Respond, Shows, Inv, ControlInv, TypeOK, NotBegun, StopOver, OkMeansDone,
      StopNeverConfirmed, node, panel
<1>4. CASE AnswerEarly(q)
  BY <1>4
  DEF AnswerEarly, Respond, Shows, Inv, ControlInv, TypeOK, NotBegun, StopOver, OkMeansDone,
      StopNeverConfirmed, node, panel
<1>. QED BY <1>1, <1>2, <1>3, <1>4

LEMMA JobDoneKeepsInv == ASSUME Inv, NEW q \in Commands, JobDone(q) PROVE Inv'
<1>1. /\ job[q] = "queued" /\ job' = [job EXCEPT ![q] = "done"]
      /\ action' = action /\ UNCHANGED <<panel, outside>>
  BY DEF JobDone
<1>2. Dies \/ UNCHANGED <<stage, shown>>
  BY DEF JobDone
<1>3. action[q] = "agent.stop" => Dies
  BY DEF JobDone
<1>4. ControlInv'
  BY <1>1, <1>2, <1>3, DeathKeepsInv DEF Inv, TypeOK
<1>5. fah' \in UnitStates
  BY DEF JobDone, Inv, TypeOK, UnitStates
<1>6. agent' \in {"up", "stopped", "booting"} /\ pending' \in SUBSET {"agent", "host"}
  BY DEF JobDone, Inv, TypeOK
<1>7. TypeOK'
  BY <1>1, <1>2, <1>5, <1>6, DiesFacts DEF Inv, TypeOK, panel
<1>. QED BY <1>4, <1>7 DEF Inv

LEMMA NodeKeepsInv ==
  ASSUME Inv, SelfRestart \/ Reboot \/ Boots \/ Outside PROVE Inv'
<1>1. CASE SelfRestart
  <2>1. ControlInv'
    BY <1>1, DeathKeepsInv DEF SelfRestart, Inv, TypeOK
  <2>. QED BY <1>1, <2>1, DiesFacts DEF SelfRestart, Inv, TypeOK, panel
<1>2. CASE Reboot
  <2>1. ControlInv'
    BY <1>2, DeathKeepsInv DEF Reboot, Inv, TypeOK
  <2>. QED BY <1>2, <2>1, DiesFacts DEF Reboot, Inv, TypeOK, panel, UnitStates
<1>3. CASE Boots
  BY <1>3
  DEF Boots, Inv, ControlInv, TypeOK, NotBegun, StopOver, OkMeansDone, StopNeverConfirmed,
      request, panel, UnitStates
<1>4. CASE Outside
  BY <1>4
  DEF Outside, Inv, ControlInv, TypeOK, NotBegun, StopOver, OkMeansDone, StopNeverConfirmed,
      request, panel, UnitStates
<1>. QED BY <1>1, <1>2, <1>3, <1>4

LEMMA LoadKeepsInv == ASSUME Inv, NEW l \in Loads, LoadStep(l) PROVE Inv'
<1>1. request' = request /\ UNCHANGED <<node, outside>>
  BY DEF LoadStep, loadStatus, getControlStatus, setStatus
<1>2. load' \in [Loads -> UnitStates \cup {"idle", "asked", "unknown"}]
  BY DEF LoadStep, loadStatus, getControlStatus, setStatus, systemdIsActive, Inv, TypeOK
<1>3. status' \in UnitStates \cup {"unknown"}
  BY DEF LoadStep, loadStatus, getControlStatus, setStatus, Inv, TypeOK
<1>. QED
  BY <1>1, <1>2, <1>3
  DEF Inv, ControlInv, TypeOK, NotBegun, StopOver, OkMeansDone, StopNeverConfirmed, request, node

LEMMA InvStep == Inv /\ [Next]_vars => Inv'
<1> SUFFICES ASSUME Inv, [Next]_vars PROVE Inv'
  OBVIOUS
<1>1. CASE UNCHANGED vars
  BY <1>1
  DEF vars, node, request, panel, Inv, ControlInv, TypeOK, NotBegun, StopOver, OkMeansDone,
      StopNeverConfirmed
<1>2. ASSUME NEW q \in Commands, CommandStep(q) PROVE Inv'
  BY <1>2, RequestKeepsInv, AnswerKeepsInv, JobDoneKeepsInv DEF CommandStep
<1>. QED BY <1>1, <1>2, LoadKeepsInv, NodeKeepsInv DEF Next

LEMMA InvHolds == Spec => []Inv
  BY InvInit, InvStep, PTL DEF Spec

(* The state of control keeps its types.                                    *)
THEOREM ControlTypeCorrect == Spec => []TypeOK
<1>1. Inv => TypeOK
  BY DEF Inv
<1>. QED BY <1>1, InvHolds, PTL

(* A command that is shown as done was done, whatever other panels,         *)
(* restarts, reboots and timeouts do (executeControlAction).                *)
THEOREM ControlOkMeansDone == Spec => []OkMeansDone
<1>1. Inv => OkMeansDone
  BY DEF Inv, ControlInv
<1>. QED BY <1>1, InvHolds, PTL

(* The stop of the agent is never confirmed: the handler that would do it   *)
(* dies with the agent (executeControlAction, case agent.stop).             *)
THEOREM ControlStopNeverConfirmed == Spec => []StopNeverConfirmed
<1>1. Inv => StopNeverConfirmed
  BY DEF Inv, ControlInv
<1>. QED BY <1>1, InvHolds, PTL
-----------------------------------------------------------------------------
(* Only a button makes a panel wait; every other step leaves a command that *)
(* waits on its way, or shows something for it.                             *)
StillUnderWay == \A q \in Commands : Waits(q)' => Waits(q) /\ stage'[q] \in {"posted", "working"}

LEMMA DiesEndsWaiting ==
  ASSUME TypeOK, PanelWaitsForOne, Dies PROVE StillUnderWay
<1>1. \A q \in Commands : FailedPush(q) # "none"
  BY DEF FailedPush
<1>. QED BY <1>1 DEF Dies, StillUnderWay, Waits, PanelWaitsForOne, TypeOK

LEMMA CommandEndsWaiting ==
  ASSUME Inv, PanelWaitsForOne, NEW q \in Commands,
         \/ PushFails(q) \/ PushTimeout(q) \/ Execute(q) \/ JobDone(q) \/ JobFails(q)
         \/ SocketOpens(q) \/ Answer(q) \/ AnswerEarly(q)
  PROVE  StillUnderWay
<1> USE DEF StillUnderWay, Waits, PanelWaitsForOne, Inv, TypeOK
<1>1. CASE JobDone(q)
  <2>1. CASE Dies
    BY <2>1, DiesEndsWaiting
  <2>2. CASE ~Dies
    BY <1>1, <2>2 DEF JobDone
  <2>. QED BY <2>1, <2>2
<1>2. CASE PushFails(q)
  <2>1. FailedPush(q) # "none"
    BY DEF FailedPush
  <2>. QED BY <1>2, <2>1 DEF PushFails, Shows
<1>3. CASE PushTimeout(q)
  BY <1>3 DEF PushTimeout, Shows
<1>4. CASE Execute(q)
  BY <1>4 DEF Execute, Respond, Shows
<1>5. CASE JobFails(q) \/ SocketOpens(q)
  BY <1>5 DEF JobFails, SocketOpens
<1>6. CASE Answer(q)
  BY <1>6 DEF Answer, Respond, Shows
<1>7. CASE AnswerEarly(q)
  BY <1>7 DEF AnswerEarly, Respond, Shows
<1>. QED BY <1>1, <1>2, <1>3, <1>4, <1>5, <1>6, <1>7

LEMMA WaitingStep ==
  ASSUME Inv, PanelWaitsForOne, [Next]_vars PROVE PanelWaitsForOne'
<1>1. ASSUME NEW q \in Commands, NEW a \in Buttons[q], run(q, a) PROVE PanelWaitsForOne'
  <2>1. \A p \in Commands : PanelOf[p] = PanelOf[q] => ~Waits(p)
    BY <1>1 DEF run, Busy
  <2>2. \A p \in Commands \ {q} : stage'[p] = stage[p] /\ (Waits(p)' <=> Waits(p))
    BY <1>1 DEF run, Waits, Inv, TypeOK
  <2>3. stage'[q] = "posted"
    BY <1>1 DEF run, Inv, TypeOK
  <2>. QED BY <2>1, <2>2, <2>3 DEF PanelWaitsForOne
<1>2. ASSUME StillUnderWay PROVE PanelWaitsForOne'
  BY <1>2 DEF StillUnderWay, PanelWaitsForOne
<1>3. CASE \/ \E l \in Loads : LoadStep(l)
           \/ Boots \/ Outside \/ UNCHANGED vars
  <2>1. UNCHANGED <<stage, shown>>
    BY <1>3
    DEF LoadStep, loadStatus, getControlStatus, setStatus, Boots, Outside, request, vars
  <2>. QED BY <2>1 DEF PanelWaitsForOne, Waits
<1>4. CASE SelfRestart \/ Reboot
  <2>1. Dies \/ UNCHANGED <<stage, shown>>
    BY <1>4 DEF SelfRestart, Reboot
  <2>2. CASE UNCHANGED <<stage, shown>>
    BY <2>2 DEF PanelWaitsForOne, Waits
  <2>. QED BY <1>2, <2>1, <2>2, DiesEndsWaiting DEF Inv
<1>5. ASSUME NEW q \in Commands, CommandStep(q) PROVE PanelWaitsForOne'
  BY <1>1, <1>2, <1>5, CommandEndsWaiting DEF CommandStep
<1>. QED BY <1>3, <1>4, <1>5 DEF Next

(* A panel waits for one command that is still on its way, for any number   *)
(* of panels and commands: no death of the agent, reboot, timeout or failed *)
(* job leaves its buttons disabled for a request that is over (run,         *)
(* executeControlAction).                                                   *)
THEOREM ControlPanelWaits == Spec => []PanelWaitsForOne
<1>1. Init => PanelWaitsForOne
  BY DEF Init, PanelWaitsForOne, Waits
<1>2. Inv /\ PanelWaitsForOne /\ [Next]_vars => PanelWaitsForOne'
  BY WaitingStep
<1>. QED BY <1>1, <1>2, InvHolds, PTL DEF Spec
================================================================================
