---------------------------- MODULE NodeReporting -----------------------------
(***************************************************************************)
(* An agent's loop and the supervisor's alert engine together: what the    *)
(* agent of the host Node posts is what the engine ingests, with the time  *)
(* it was stamped at.  The clocks of the two agree; other hosts report as  *)
(* they like.                                                              *)
(*                                                                         *)
(* The steps are those of AlertEngine and AgentLoop.  The tables are the   *)
(* engine's: the loop's view of them is computed from the rows of Node.    *)
(***************************************************************************)
EXTENDS AlertEngine

CONSTANTS
  Node,          \* the host whose agent is modelled
  Interval, Collect, Delay, MaxFaults   \* of AgentLoop

ASSUME ReportingAssumption ==
  /\ Node \in Hosts
  /\ Interval \in Nat \ {0} /\ Collect \in Nat /\ Delay \in Nat /\ MaxFaults \in Nat
  /\ (-Delay)..0 \subseteq Offsets

VARIABLES next, collecting, posting, replying, faults   \* of AgentLoop

loopVars == <<next, collecting, posting, replying, faults>>

Agent == INSTANCE AgentLoop WITH
  stored <- { snapshots[Node][i].at : i \in DOMAIN snapshots[Node] },
  newest <- IF snapshots[Node] = <<>> THEN -1 ELSE LatestOf(Node).at,
  lastSeen <- IF lastSeen[Node] = Never THEN -1 ELSE lastSeen[Node]

ReportingInit ==
  /\ Init
  /\ next = -1 /\ collecting = {0} /\ posting = {} /\ replying = -1 /\ faults = 0
-----------------------------------------------------------------------------
\* faulty: the snapshot is stamped when it arrives
ReportStamped(p, r, t) ==
  /\ Ingest(Node, r, 0, t)
  /\ Agent!Arrives(p) /\ UNCHANGED faults

(* A post arrives at POST /api/ingest, with the time it was stamped at.     *)
Report(p, r, t) ==
  /\ Ingest(Node, r, p[2] - now, t)
  /\ Agent!Arrives(p) /\ UNCHANGED faults

(* The rest of the agent: a tick, the end of a collection, the response of  *)
(* an awaited post, a post that fails, a restart.                           *)
AgentStep ==
  /\ UNCHANGED vars
  /\ \/ Agent!tick
     \/ \E s \in collecting : Agent!collectSnapshot(s)
     \/ Agent!Responded
     \/ \E p \in posting : Agent!postFails(p)
     \/ Agent!Restart

(* The rest of the supervisor, and the other hosts: a step of the engine    *)
(* that takes no time and stores nothing of Node.                           *)
EngineStep ==
  /\ Next
  /\ now' = now /\ snapshots'[Node] = snapshots[Node] /\ lastSeen'[Node] = lastSeen[Node]
  /\ UNCHANGED loopVars

(* Time passes for both.                                                    *)
Passes == Tick /\ Agent!Elapse

ReportingNext ==
  \/ \E p \in posting, r \in Readings, t \in Workers : Report(p, r, t)
  \/ AgentStep
  \/ EngineStep
  \/ Passes

ReportingSpec == ReportingInit /\ [][ReportingNext]_<<vars, loopVars>>
-----------------------------------------------------------------------------
(* What the two together promise: a node whose agent works and whose posts  *)
(* arrive is never reported as offline, however collections overlap, posts  *)
(* overtake each other and evaluations interleave, if OFFLINE_THRESHOLD_MS  *)
(* is more than the age that last_seen can reach (alerts.md:51, isOnline).  *)
WorkingNeverOffline ==
  Threshold > Agent!MaxAge /\ faults = 0 => <<Node, "node_offline">> \notin active

(* Over the rows the engine writes the loop keeps its own specification:    *)
(* the engine's tables are the store AgentLoop speaks of (getLatestSnapshot *)
(* and last_seen of rows that arrive out of order, while others post).      *)
AgentKept == Agent!Spec
===============================================================================
