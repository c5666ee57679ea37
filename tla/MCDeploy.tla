------------------------------ MODULE MCDeploy -------------------------------
(* Small instances of Deploy for TLC.                                       *)
EXTENDS Deploy, TLC

MCRequests == Runs \X Hosts \X Copies
MCAgentOf == [q \in MCRequests |-> q[2]]

(* The first run may name every host, any other one only the first host,    *)
(* whose agent may then still be busy.                                      *)
MCTargets == { q \in MCRequests : q[1] = "r1" \/ q[2] = "h1" }
MCTargetAgents == [q \in MCTargets |-> q[2]]

RunSymmetry == Permutations(Runs)
==============================================================================
