-------------------------- MODULE NodeReportingProofs --------------------------
(***************************************************************************)
(* Theorems about an agent's loop and the alert engine together, for any   *)
(* farm, interval and threshold.  Each of the two keeps its own invariant, *)
(* for each does in the composition only what its own module allows; what  *)
(* neither shows alone is that the posts of the one keep the other quiet.  *)
(***************************************************************************)
EXTENDS NodeReporting, AlertEngineProofs

(* The theorems of the loop, about the loop's view of the engine's tables.  *)
LP == INSTANCE AgentLoopProofs WITH
  stored <- { snapshots[Node][i].at : i \in DOMAIN snapshots[Node] },
  newest <- IF snapshots[Node] = <<>> THEN -1 ELSE LatestOf(Node).at,
  lastSeen <- IF lastSeen[Node] = Never THEN -1 ELSE lastSeen[Node]

(* The clock of the agent is the supervisor's, so that no stored time is    *)
(* ahead of it.                                                             *)
SeenInTime == lastSeen[Node] = Never \/ lastSeen[Node] \in 0..now

ReportingInv ==
  /\ EngineInv
  /\ LP!LoopInv
  /\ SeenInTime
  /\ WorkingNeverOffline

(* What AgentLoop assumes of its constants.                                 *)
LEMMA LoopConstants ==
  /\ Crates \in BOOLEAN /\ Interval \in Nat \ {0} /\ Collect \in Nat /\ Delay \in Nat
  /\ MaxTime \in Nat /\ MaxFaults \in Nat
  BY ReportingAssumption, EngineAssumption

(* Both instances of the loop say the same.                                 *)
LEMMA SameLoop ==
  /\ Agent!Init <=> LP!Init
  /\ [Agent!Next]_(Agent!vars) <=> [LP!Next]_(LP!vars)
  /\ Agent!MaxAge = LP!MaxAge
<1>1. Agent!Init <=> LP!Init
  BY DEF Agent!Init, LP!Init
<1>2. Agent!tick <=> LP!tick
  BY DEF Agent!tick, LP!tick
<1>3. \A s \in collecting : Agent!collectSnapshot(s) <=> LP!collectSnapshot(s)
  BY DEF Agent!collectSnapshot, LP!collectSnapshot
<1>4. \A p \in posting : /\ Agent!ingestSnapshot(p) <=> LP!ingestSnapshot(p)
                         /\ Agent!postFails(p) <=> LP!postFails(p)
  BY DEF Agent!ingestSnapshot, LP!ingestSnapshot, Agent!postFails, LP!postFails,
         Agent!Arrives, LP!Arrives, Agent!TickEnds, LP!TickEnds, Agent!getLatestSnapshot, LP!getLatestSnapshot,
         Agent!lastSeenOf, LP!lastSeenOf
<1>5. (Agent!Restart <=> LP!Restart) /\ (Agent!Responded <=> LP!Responded)
  BY DEF Agent!Restart, LP!Restart, Agent!Responded, LP!Responded, Agent!TickEnds, LP!TickEnds
<1>6. Agent!Elapse <=> LP!Elapse
  BY DEF Agent!Elapse, LP!Elapse
<1>7. Agent!Next <=> LP!Next
  BY <1>2, <1>3, <1>4, <1>5, <1>6 DEF Agent!Next, LP!Next
<1>8. UNCHANGED Agent!vars <=> UNCHANGED LP!vars
  BY DEF Agent!vars, LP!vars
<1>9. Agent!MaxAge = LP!MaxAge
  BY DEF Agent!MaxAge, LP!MaxAge
<1>. QED BY <1>1, <1>7, <1>8, <1>9
-----------------------------------------------------------------------------
(* A post arrives with a time that is one of the engine's offsets.          *)
LEMMA PostsInTime ==
  ASSUME LP!LoopInv, NEW p \in posting
  PROVE  p[2] - now \in Offsets /\ p[2] \in 0..now /\ now \in Nat
<1>1. p[2] \in 0..now /\ now \in Nat /\ now <= p[2] + Delay
  BY DEF LP!LoopInv, LP!TypeOK, LP!OnTime
<1>. QED BY <1>1, ReportingAssumption

(* Every step of the two is a step of the engine.                           *)
LEMMA ReportingStepsEngine ==
  ASSUME LP!LoopInv, [ReportingNext]_<<vars, loopVars>>
  PROVE  [Next]_vars
<1>1. ASSUME NEW p \in posting, NEW r \in Readings, NEW t \in Workers, Report(p, r, t)
      PROVE  Next
  <2>1. p[2] - now \in Offsets /\ Node \in Hosts
    BY PostsInTime, ReportingAssumption
  <2>. QED BY <1>1, <2>1 DEF Report, Next
<1>. QED BY <1>1 DEF ReportingNext, AgentStep, EngineStep, Passes, Next

(* The row that is read as the latest is a youngest one.                    *)
LEMMA LatestIsYoungest ==
  ASSUME NEW rows \in Seq(Snapshots), NEW k \in Nat, IsLatest(rows, k)
  PROVE  LET times == { rows[i].at : i \in DOMAIN rows }
             c == rows[Latest(rows)].at
         IN  c \in times /\ \A d \in times : d <= c
<1>1. IsLatest(rows, Latest(rows))
  <2>1. k \in DOMAIN rows
    BY DEF IsLatest
  <2>. QED BY <2>1 DEF Latest
<1>2. \A i \in DOMAIN rows : rows[i].at \in Int
  <2>1. \A i \in DOMAIN rows : rows[i] \in Snapshots
    OBVIOUS
  <2>. QED BY <2>1 DEF Snapshots
<1>. QED BY <1>1, <1>2 DEF IsLatest

(* A post is an ingest of the loop: it adds its row to the store, the       *)
(* youngest row is the latest, last_seen is its stamp.                      *)
LEMMA ReportIsIngest ==
  ASSUME EngineInv, LP!LoopInv, NEW p \in posting, NEW r \in Readings, NEW t \in Workers,
         Report(p, r, t)
  PROVE  Agent!ingestSnapshot(p)
<1> USE EngineAssumption, ReportingAssumption
<1> DEFINE snaps == snapshots[Node]
           row == [at |-> now + (p[2] - now), svc |-> r.svc, progress |-> r.progress,
                   hot |-> r.hot, errors |-> r.errors]
           old == { snaps[i].at : i \in DOMAIN snaps }
<1>0. PICK d \in Nat : d = p[2]
  BY PostsInTime
<1>1. d \in Nat /\ now \in Nat /\ now + (d - now) = d
  BY PostsInTime
<1>2. row \in Snapshots /\ row.at = d
  BY <1>0, <1>1 DEF Snapshots, Errors
<1>3. snaps \in Seq(Snapshots) /\ lastSeen \in [Hosts -> Int \cup {Never}]
  BY DEF EngineInv, TypeOK
<1>4. snapshots'[Node] = Append(snaps, row) /\ lastSeen'[Node] = d
  BY <1>0, <1>1, <1>3 DEF Report, Ingest, EngineInv, TypeOK
<1> HIDE DEF row
<1>5. PICK rows \in Seq(Snapshots) : rows = Append(snaps, row)
  <2>1. Append(snaps, row) \in Seq(Snapshots)
    BY <1>2, <1>3
  <2>. QED BY <2>1, Zenon
<1>6. /\ DOMAIN rows = 1..(Len(snaps) + 1) /\ DOMAIN snaps = 1..Len(snaps)
      /\ Len(snaps) \in Nat /\ rows # <<>> /\ rows[Len(snaps) + 1] = row
      /\ \A i \in 1..Len(snaps) : rows[i] = snaps[i]
  BY <1>2, <1>3, <1>5
<1>7. { rows[i].at : i \in DOMAIN rows } = old \cup {d}
  <2>1. \A i \in DOMAIN rows : i = Len(snaps) + 1 \/ i \in DOMAIN snaps
    BY <1>6
  <2>2. Len(snaps) + 1 \in DOMAIN rows /\ \A i \in DOMAIN snaps : i \in DOMAIN rows
    BY <1>6
  <2>3. \A i \in DOMAIN rows : rows[i].at \in old \cup {d}
    BY <1>2, <1>6, <2>1
  <2>4. \A e \in old \cup {d} : \E i \in DOMAIN rows : e = rows[i].at
    BY <1>2, <1>6, <2>2
  <2>5. { rows[i].at : i \in DOMAIN rows } \subseteq old \cup {d}
    BY <2>3
  <2>6. old \cup {d} \subseteq { rows[i].at : i \in DOMAIN rows }
    BY <2>4
  <2>. QED BY <2>5, <2>6
<1> DEFINE c == rows[Latest(rows)].at
<1>8. c \in old \cup {d} /\ \A e \in old \cup {d} : e <= c
  <2>1. PICK i \in Nat : IsLatest(rows, i)
    BY <1>2, <1>3, <1>5, LatestAfterAppend DEF EngineInv, LatestExists
  <2>. QED BY <2>1, <1>7, LatestIsYoungest
<1>9. (IF snapshots[Node] = <<>> THEN -1 ELSE LatestOf(Node).at)' = c
  BY <1>4, <1>5, <1>6 DEF LatestOf
<1>10. (IF lastSeen[Node] = Never THEN -1 ELSE lastSeen[Node])' = d
  BY <1>1, <1>4
<1>11. { snapshots'[Node][i].at : i \in DOMAIN snapshots'[Node] } = old \cup {d}
  BY <1>4, <1>5, <1>7
<1>12. Agent!Arrives(p) /\ UNCHANGED faults
  BY DEF Report
<1>. QED
  BY <1>0, <1>8, <1>9, <1>10, <1>11, <1>12
  DEF Agent!ingestSnapshot, Agent!getLatestSnapshot, Agent!lastSeenOf

(* What leaves the rows of Node alone leaves the loop's view alone.         *)
LEMMA SameRowsSameView ==
  ASSUME UNCHANGED loopVars, now' = now, snapshots'[Node] = snapshots[Node],
         lastSeen'[Node] = lastSeen[Node]
  PROVE  UNCHANGED Agent!vars
<1>1. LatestOf(Node)' = LatestOf(Node)
  BY DEF LatestOf
<1>. QED BY <1>1 DEF Agent!vars, loopVars

(* Every step of the two is a step of the loop.                             *)
LEMMA ReportingStepsLoop ==
  ASSUME EngineInv, LP!LoopInv, [ReportingNext]_<<vars, loopVars>>
  PROVE  [Agent!Next]_(Agent!vars)
<1>1. ASSUME NEW p \in posting, NEW r \in Readings, NEW t \in Workers, Report(p, r, t)
      PROVE  Agent!Next
  BY <1>1, ReportIsIngest DEF Agent!Next
<1>2. CASE AgentStep
  BY <1>2 DEF AgentStep, Agent!Next
<1>3. CASE EngineStep
  BY <1>3, SameRowsSameView DEF EngineStep
<1>4. CASE Passes
  BY <1>4 DEF Passes, Agent!Next
<1>5. CASE UNCHANGED <<vars, loopVars>>
  BY <1>5, SameRowsSameView DEF vars, db
<1>. QED BY <1>1, <1>2, <1>3, <1>4, <1>5 DEF ReportingNext
-----------------------------------------------------------------------------
(* Both start as the loop does: nothing of Node is stored.                  *)
LEMMA ReportingInitLoop == ReportingInit => LP!Init
<1> SUFFICES ASSUME ReportingInit PROVE LP!Init
  OBVIOUS
<1>1. Node \in Hosts /\ snapshots[Node] = <<>> /\ lastSeen[Node] = Never
  BY ReportingAssumption DEF ReportingInit, Init
<1>. QED BY <1>1 DEF ReportingInit, Init, LP!Init

(* The joint invariant.                                                     *)
LEMMA ReportingInvInit == ReportingInit => ReportingInv
<1> SUFFICES ASSUME ReportingInit PROVE ReportingInv
  OBVIOUS
<1>1. Node \in Hosts /\ lastSeen[Node] = Never /\ active = {}
  BY ReportingAssumption DEF ReportingInit, Init
<1>2. LP!Init
  BY ReportingInitLoop
<1>3. SeenInTime /\ WorkingNeverOffline
  BY <1>1 DEF SeenInTime, WorkingNeverOffline
<1>4. LP!LoopInv
  BY <1>2, LoopConstants, LP!LoopInvInit
<1>. QED BY <1>3, <1>4, EngineInvInit DEF ReportingInit, ReportingInv

(* No step declares the node offline while it reports in time.              *)
LEMMA StepIsQuiet ==
  ASSUME ReportingInv, [Next]_vars, Threshold > Agent!MaxAge, faults = 0
  PROVE  <<Node, "node_offline">> \notin active' \ active
<1> SUFFICES ASSUME <<Node, "node_offline">> \in active' \ active PROVE FALSE
  OBVIOUS
<1>1. Node \in Machines /\ "node_offline" \in EvaluateMachine(Node)
  BY RaisedIsCandidate DEF ReportingInv
<1>2. lastSeen[Node] # Never /\ ~IsOnline(Node)
  BY <1>1 DEF EvaluateMachine, Holds, Machines
<1>3. lastSeen[Node] \in 0..now /\ now \in Nat
  BY <1>2 DEF ReportingInv, SeenInTime, EngineInv, TypeOK
<1>4. now - lastSeen[Node] <= LP!MaxAge
  BY <1>2, <1>3, LoopConstants, LP!LoopInvAge DEF ReportingInv, LP!AgeBounded
<1>5. LP!MaxAge \in Int
  BY ReportingAssumption DEF LP!MaxAge
<1>. QED BY <1>2, <1>3, <1>4, <1>5, SameLoop, EngineAssumption DEF IsOnline

LEMMA ReportingInvStep ==
  ReportingInv /\ [ReportingNext]_<<vars, loopVars>> => ReportingInv'
<1> SUFFICES ASSUME ReportingInv, [ReportingNext]_<<vars, loopVars>> PROVE ReportingInv'
  OBVIOUS
<1>1. EngineInv /\ LP!LoopInv /\ SeenInTime
  BY DEF ReportingInv
<1>2. [Next]_vars
  BY <1>1, ReportingStepsEngine
<1>3. [Agent!Next]_(Agent!vars)
  BY <1>1, ReportingStepsLoop
<1>4. EngineInv'
  BY <1>1, <1>2, EngineInvStep
<1>5. LP!LoopInv'
  BY <1>1, <1>3, SameLoop, LoopConstants, LP!LoopInvStep
<1>6. SeenInTime'
  <2>0. now \in Nat
    BY <1>1 DEF EngineInv, TypeOK
  <2>1. ASSUME NEW p \in posting, NEW r \in Readings, NEW t \in Workers, Report(p, r, t)
        PROVE  SeenInTime'
    <3>1. p[2] \in 0..now /\ now + (p[2] - now) = p[2]
      BY <1>1, PostsInTime
    <3>2. lastSeen'[Node] = now + (p[2] - now) /\ now' = now
      BY <1>1, <2>1, ReportingAssumption DEF Report, Ingest, EngineInv, TypeOK
    <3>. QED BY <3>1, <3>2 DEF SeenInTime
  <2>2. CASE now' \in {now, now + 1} /\ lastSeen'[Node] = lastSeen[Node]
    BY <1>1, <2>0, <2>2 DEF SeenInTime
  <2>3. (\E p \in posting, r \in Readings, t \in Workers : Report(p, r, t))
        \/ (now' \in {now, now + 1} /\ lastSeen'[Node] = lastSeen[Node])
    BY DEF ReportingNext, AgentStep, EngineStep, Passes, Tick, vars, db
  <2>. QED BY <2>1, <2>2, <2>3
<1>7. WorkingNeverOffline'
  <2> SUFFICES ASSUME Threshold > Agent!MaxAge, faults' = 0
               PROVE  <<Node, "node_offline">> \notin active'
    BY DEF WorkingNeverOffline, Agent!MaxAge
  <2>1. faults = 0
    <3>0. faults \in Nat
      BY <1>1 DEF LP!LoopInv, LP!TypeOK
    <3>1. faults' = faults \/ faults' = faults + 1
      BY <1>3
      DEF Agent!Next, Agent!vars, Agent!tick, Agent!collectSnapshot, Agent!ingestSnapshot,
          Agent!Responded, Agent!postFails, Agent!Restart, Agent!Elapse
    <3>. QED BY <3>0, <3>1
  <2>2. <<Node, "node_offline">> \notin active
    BY <2>1 DEF ReportingInv, WorkingNeverOffline
  <2>. QED BY <1>2, <2>1, <2>2, StepIsQuiet
<1>. QED BY <1>4, <1>5, <1>6, <1>7 DEF ReportingInv

LEMMA ReportingInvHolds == ReportingSpec => []ReportingInv
  BY ReportingInvInit, ReportingInvStep, PTL DEF ReportingSpec
-----------------------------------------------------------------------------
(* A node whose agent works and whose posts arrive is never reported as     *)
(* offline when the threshold is more than MaxAge, for any number of hosts, *)
(* evaluations under way, crashes of the supervisor and webhook outcomes    *)
(* (isOnline, evaluateMachine, docs/alerts.md:51).                          *)
THEOREM ReportingNeverOffline == ReportingSpec => []WorkingNeverOffline
<1>1. ReportingInv => WorkingNeverOffline
  BY DEF ReportingInv
<1>. QED BY <1>1, ReportingInvHolds, PTL

(* The composition is an engine: every theorem about AlertEngine holds of a *)
(* supervisor that a real agent reports to.                                 *)
THEOREM ReportingImplementsEngine == ReportingSpec => Spec
<1>1. ReportingInit => Init
  BY DEF ReportingInit
<1>2. ReportingInv /\ [ReportingNext]_<<vars, loopVars>> => [Next]_vars
  BY ReportingStepsEngine DEF ReportingInv
<1>. QED BY <1>1, <1>2, ReportingInvHolds, PTL DEF ReportingSpec, Spec

(* The composition is an agent's loop: the store the loop speaks of is the  *)
(* two tables the engine writes and reads (ingestSnapshot,                  *)
(* getLatestSnapshot, machines.last_seen).                                  *)
THEOREM ReportingImplementsLoop == ReportingSpec => AgentKept
<1>1. ReportingInit => Agent!Init
  BY ReportingInitLoop, SameLoop
<1>2. ReportingInv /\ [ReportingNext]_<<vars, loopVars>> => [Agent!Next]_(Agent!vars)
  BY ReportingStepsLoop DEF ReportingInv
<1>. QED BY <1>1, <1>2, ReportingInvHolds, PTL DEF ReportingSpec, AgentKept, Agent!Spec
================================================================================
