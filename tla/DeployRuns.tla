----------------------------- MODULE DeployRuns ------------------------------
(***************************************************************************)
(* What deploy runs promise to the page that polls them: the hosts of a    *)
(* run are fixed when it starts, each of them goes from pending to running *)
(* to one final result that is never taken back, an offline one is left    *)
(* alone, and the run gets its verdict once, when no host waits to start.  *)
(* Runs do not touch each other.  A host may stay "running" for ever, and  *)
(* so may a run: the task that would have ended it died.                   *)
(***************************************************************************)
CONSTANTS Runs, Hosts

VARIABLES
  status,    \* status[r]: "none", "running", "completed" or "failed"
  result     \* result[r][h]: the result of host h in run r

vars == <<status, result>>

Init ==
  /\ status = [r \in Runs |-> "none"]
  /\ result = [r \in Runs |-> [h \in Hosts |-> "absent"]]

Start(r, targets, up) ==
  /\ status[r] = "none" /\ targets # {}
  /\ status' = [status EXCEPT ![r] = "running"]
  /\ result' = [result EXCEPT ![r] =
        [h \in Hosts |-> IF h \notin targets THEN "absent"
                         ELSE IF h \in up THEN "pending" ELSE "offline"]]

HostStarts(r, h) ==
  /\ status[r] = "running" /\ result[r][h] = "pending"
  /\ result' = [result EXCEPT ![r][h] = "running"]
  /\ UNCHANGED status

HostEnds(r, h, final) ==
  /\ status[r] = "running" /\ result[r][h] = "running"
  /\ result' = [result EXCEPT ![r][h] = final]
  /\ UNCHANGED status

(* Failed means that every host that was tried failed, and one was tried.   *)
Verdict(r) ==
  LET tried == { h \in Hosts : result[r][h] \notin {"absent", "offline"} }
  IN  IF tried # {} /\ \A h \in tried : result[r][h] = "failed" THEN "failed" ELSE "completed"

Finish(r) ==
  /\ status[r] = "running"
  /\ \A h \in Hosts : result[r][h] # "pending"
  /\ status' = [status EXCEPT ![r] = Verdict(r)]
  /\ UNCHANGED result

Next ==
  \E r \in Runs :
    \/ \E targets, up \in SUBSET Hosts : Start(r, targets, up)
    \/ \E h \in Hosts : HostStarts(r, h) \/ \E final \in {"success", "failed"} : HostEnds(r, h, final)
    \/ Finish(r)

Spec == Init /\ [][Next]_vars
==============================================================================
