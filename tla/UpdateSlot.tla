------------------------------ MODULE UpdateSlot ------------------------------
(***************************************************************************)
(* What an agent promises the clients of POST /update, whatever its        *)
(* handlers, its flag and their connections do: it runs one update script  *)
(* at a time, each request's at most once, and a script that ended or was  *)
(* killed stays so.  A request gets at most one answer, and the answer     *)
(* tells how its script ended.                                             *)
(***************************************************************************)
CONSTANTS Agents, Requests, AgentOf

VARIABLES
  script,    \* script[q]: "none", "running", "ok", "failed", "killed"
  answer     \* answer[q]: what the client of q got, "none" while it waits

vars == <<script, answer>>

Init ==
  /\ script = [q \in Requests |-> "none"]
  /\ answer = [q \in Requests |-> "none"]

Mine(a) == { q \in Requests : AgentOf[q] = a }

Start(q) ==
  /\ script[q] = "none" /\ answer[q] = "none"
  /\ \A p \in Mine(AgentOf[q]) : script[p] # "running"
  /\ script' = [script EXCEPT ![q] = "running"]
  /\ UNCHANGED answer

End(q, result) ==
  /\ script[q] = "running"
  /\ script' = [script EXCEPT ![q] = result]
  /\ UNCHANGED answer

(* What may be said of a script: refusals and errors only of one that never *)
(* ran; Node says "failed" of a script it did not find.                     *)
Truthful(q, status) ==
  \/ status \in {"ok", "failed"} /\ script[q] = status
  \/ status \in {"busy", "error", "failed"} /\ script[q] = "none"

Answer(q, status) ==
  /\ answer[q] = "none" /\ Truthful(q, status)
  /\ answer' = [answer EXCEPT ![q] = status]
  /\ UNCHANGED script

(* The service restarts: its script dies, clients lose their answers.       *)
Restart(a, lost) ==
  /\ \A q \in lost : answer[q] = "none"
  /\ script' = [q \in Requests |->
        IF q \in Mine(a) /\ script[q] = "running" THEN "killed" ELSE script[q]]
  /\ answer' = [q \in Requests |-> IF q \in lost THEN "lost" ELSE answer[q]]

Next ==
  \/ \E q \in Requests :
        \/ Start(q)
        \/ \E result \in {"ok", "failed"} : End(q, result)
        \/ \E status \in {"ok", "failed", "busy", "error"} : Answer(q, status)
  \/ \E a \in Agents : \E lost \in SUBSET Mine(a) : Restart(a, lost)

Spec == Init /\ [][Next]_vars
===============================================================================
