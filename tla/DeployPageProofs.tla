--------------------------- MODULE DeployPageProofs ----------------------------
(***************************************************************************)
(* Theorems about the deploy page, for any number of runs, hosts and polls.*)
(*                                                                         *)
(* A row that is shown was read some time ago; it may be in the history or *)
(* in an answer under way.  The invariant is therefore about every row     *)
(* there ever was: with a verdict it is still the row of its run.          *)
(***************************************************************************)
EXTENDS DeployPage, TLAPS

StatusType ==
  /\ status \in [Runs -> {"none", "running", "completed", "failed"}]
  /\ result \in [Runs -> [Hosts -> {"absent", "pending", "offline", "running", "success", "failed"}]]

(* Rows that are shown were read, and only runs that exist are asked for.   *)
Known ==
  /\ Shown \subseteq past /\ past \subseteq Rows
  /\ \A row \in past : status[row.id] # "none"
  /\ active \subseteq past /\ \A a, b \in active : a = b
  /\ req \in [Slots -> {Idle} \cup { Asked(r) : r \in Runs } \cup { Read(row) : row \in past }]
  /\ \A s \in Slots : req[s].phase = "asked" => status[req[s].id] # "none"

Final == \A row \in past : row.status # "running" => row = Row(row.id)

PageInv == StatusType /\ Known /\ Final

LEMMA PageInvInit == PageInit => PageInv
  BY DEF PageInit, Init, PageInv, StatusType, Known, Final, Shown, Idle

(* What the promises of DeployRuns are used for: no step changes a run that *)
(* has its verdict, or makes a run disappear.                               *)
RunsKept ==
  \A r \in Runs :
    /\ status[r] # "none" => status'[r] # "none"
    /\ status[r] \in {"completed", "failed"} => status'[r] = status[r] /\ result'[r] = result[r]

LEMMA RunsStep ==
  ASSUME StatusType, Next PROVE StatusType' /\ RunsKept
<1>1. ASSUME NEW r \in Runs, NEW targets \in SUBSET Hosts, NEW up \in SUBSET Hosts,
             Start(r, targets, up)
      PROVE  StatusType' /\ RunsKept
  BY <1>1 DEF Start, StatusType, RunsKept
<1>2. ASSUME NEW r \in Runs, NEW h \in Hosts, HostStarts(r, h)
      PROVE  StatusType' /\ RunsKept
  BY <1>2 DEF HostStarts, StatusType, RunsKept
<1>3. ASSUME NEW r \in Runs, NEW h \in Hosts, NEW final \in {"success", "failed"},
             HostEnds(r, h, final)
      PROVE  StatusType' /\ RunsKept
  BY <1>3 DEF HostEnds, StatusType, RunsKept
<1>4. ASSUME NEW r \in Runs, Finish(r)
      PROVE  StatusType' /\ RunsKept
  <2>1. Verdict(r) \in {"completed", "failed"}
    BY DEF Verdict
  <2>. QED BY <1>4, <2>1 DEF Finish, StatusType, RunsKept
<1>. QED BY <1>1, <1>2, <1>3, <1>4 DEF Next

(* The rows after a step of the runs.                                       *)
LEMMA RowsStep ==
  ASSUME PageInv, Next, Remember
  PROVE  StatusType' /\ RunsKept /\ past \subseteq past' /\ Shown' \subseteq past'
         /\ past' \subseteq Rows /\ Final'
         /\ \A row \in past' : status'[row.id] # "none"
<1>1. StatusType' /\ RunsKept
  BY RunsStep DEF PageInv
<1>2. past' = past \cup Shown'
  BY DEF Remember
<1>3. \A row \in Shown' : row \in Rows /\ row = Row(row.id)'
  BY <1>1 DEF Shown, Row, Rows, StatusType
<1>4. ASSUME NEW row \in past, row.status # "running" PROVE row = Row(row.id)'
  <2>1. row = Row(row.id) /\ row.id \in Runs /\ row.status \in {"completed", "failed"}
    BY <1>4 DEF PageInv, Final, Known, Rows
  <2>2. row.status = status[row.id]
    BY <2>1 DEF Row
  <2>. QED BY <1>1, <2>1, <2>2 DEF RunsKept, Row
<1>5. Final'
  BY <1>2, <1>3, <1>4 DEF Final
<1>6. past' \subseteq Rows
  BY <1>2, <1>3 DEF PageInv, Known
<1>7. \A row \in past' : status'[row.id] # "none"
  <2>1. \A row \in past : row.id \in Runs /\ status[row.id] # "none"
    BY DEF PageInv, Known, Rows
  <2>2. \A row \in Shown' : status'[row.id] # "none"
    BY DEF Shown, Row
  <2>. QED BY <1>1, <1>2, <2>1, <2>2 DEF RunsKept
<1>. QED BY <1>1, <1>2, <1>5, <1>6, <1>7

LEMMA PageInvStep == PageInv /\ [PageNext]_pageVars => PageInv'
<1> SUFFICES ASSUME PageInv, [PageNext]_pageVars PROVE PageInv'
  OBVIOUS
<1>1. CASE RunsGoOn
  <2>1. Next /\ Remember /\ UNCHANGED <<active, req>>
    BY <1>1 DEF RunsGoOn
  <2>2. Known'
    <3>1. /\ active' \subseteq past' /\ \A a, b \in active' : a = b
          /\ req' \in [Slots -> {Idle} \cup { Asked(r) : r \in Runs }
                                       \cup { Read(row) : row \in past' }]
      BY <2>1, RowsStep DEF PageInv, Known
    <3>2. \A s \in Slots : req'[s].phase = "asked" => status'[req'[s].id] # "none"
      <4> SUFFICES ASSUME NEW s \in Slots, req[s].phase = "asked"
                   PROVE  status'[req[s].id] # "none"
        BY <2>1
      <4>1. req[s].id \in Runs
        BY DEF PageInv, Known, Idle, Asked, Read
      <4>. QED BY <2>1, <4>1, RowsStep DEF PageInv, Known, RunsKept
    <3>. QED BY <2>1, <3>1, <3>2, RowsStep DEF Known
  <2>. QED BY <2>1, <2>2, RowsStep DEF PageInv
<1>2. ASSUME NEW r \in Runs, deploy(r) PROVE PageInv'
  <2>1. PICK targets, up \in SUBSET Hosts : Start(r, targets, up)
    BY <1>2 DEF deploy
  <2>2. /\ Next /\ Remember /\ active' = active
        /\ req' = [req EXCEPT !["deploy"] = Asked(r)]
    BY <1>2, <2>1 DEF deploy, Next
  <2>3. status'[r] # "none"
    BY <2>1 DEF Start, PageInv, StatusType
  <2>4. Known'
    <3>1. /\ active' \subseteq past' /\ \A a, b \in active' : a = b
          /\ req' \in [Slots -> {Idle} \cup { Asked(q) : q \in Runs }
                                       \cup { Read(row) : row \in past' }]
      BY <2>2, RowsStep DEF PageInv, Known
    <3>2. \A s \in Slots : req'[s].phase = "asked" => status'[req'[s].id] # "none"
      <4> SUFFICES ASSUME NEW s \in Slots, req'[s].phase = "asked"
                   PROVE  status'[req'[s].id] # "none"
        OBVIOUS
      <4>1. CASE s = "deploy"
        BY <2>2, <2>3, <4>1 DEF PageInv, Known, Asked
      <4>2. CASE s # "deploy"
        <5>1. req'[s] = req[s]
          BY <2>2, <4>2 DEF PageInv, Known
        <5>2. req[s].id \in Runs
          BY <5>1 DEF PageInv, Known, Idle, Asked, Read
        <5>. QED BY <2>2, <5>1, <5>2, RowsStep DEF PageInv, Known, RunsKept
      <4>. QED BY <4>1, <4>2
    <3>. QED BY <2>2, <3>1, <3>2, RowsStep DEF Known
  <2>. QED BY <2>2, <2>4, RowsStep DEF PageInv
<1>3. ASSUME UNCHANGED <<status, result, past>>, Known' PROVE PageInv'
  BY <1>3 DEF PageInv, StatusType, Final, Row
<1>4. UNCHANGED <<status, result, past>> => Shown' = Shown
  BY DEF Shown, Row
<1>5. ASSUME NEW s \in Polls, Poll(s) PROVE PageInv'
  <2>1. PICK row \in active : req' = [req EXCEPT ![s] = Asked(row.id)]
    BY <1>5 DEF Poll
  <2>2. row.id \in Runs /\ status[row.id] # "none" /\ s \in Slots
    <3>1. row \in past /\ row.id \in Runs
      BY DEF PageInv, Known, Rows
    <3>. QED BY <3>1, <1>5 DEF Slots, PageInv, Known
  <2>. QED BY <1>3, <1>4, <1>5, <2>1, <2>2 DEF Poll, PageInv, Known, Asked
<1>6. ASSUME NEW s \in Slots, fetchDeployRun(s) PROVE PageInv'
  <2>1. req[s].id \in Runs /\ status[req[s].id] # "none"
    BY <1>6 DEF fetchDeployRun, PageInv, Known, Idle, Asked, Read
  <2>2. Row(req[s].id) \in past
    BY <2>1 DEF PageInv, Known, Shown
  <2>. QED BY <1>3, <1>4, <1>6, <2>2 DEF fetchDeployRun, PageInv, Known, Read
<1>7. ASSUME NEW s \in Slots, Arrive(s) PROVE PageInv'
  <2>1. req[s].row \in past
    BY <1>7 DEF Arrive, PageInv, Known, Idle, Asked, Read
  <2>. QED BY <1>3, <1>4, <1>7, <2>1 DEF Arrive, PageInv, Known, Idle
<1>8. ASSUME NEW s \in Slots, RequestFails(s) PROVE PageInv'
  BY <1>3, <1>4, <1>8 DEF RequestFails, PageInv, Known, Idle
<1>9. CASE Pick
  BY <1>3, <1>4, <1>9 DEF Pick, PageInv, Known
<1>10. CASE UNCHANGED pageVars
  BY <1>3, <1>4, <1>10 DEF pageVars, PageInv, Known
<1>. QED BY <1>1, <1>2, <1>5, <1>6, <1>7, <1>8, <1>9, <1>10 DEF PageNext

LEMMA PageInvHolds == PageSpec => []PageInv
  BY PageInvInit, PageInvStep, PTL DEF PageSpec

(* The page's state keeps its types.                                        *)
THEOREM DeployPageTypeCorrect == PageSpec => []TypeOK
<1>1. PageInv => TypeOK
  BY DEF PageInv, Known, TypeOK
<1>. QED BY <1>1, PageInvHolds, PTL

(* A verdict that the page shows is final and true of every host of its     *)
(* run, however late the answer and whichever run it belongs to             *)
(* (Deploy.tsx, the interval).                                              *)
THEOREM DeployPageVerdict == PageSpec => []ShownVerdictIsFinal
<1>1. PageInv => ShownVerdictIsFinal
  BY DEF PageInv, Known, Final, ShownVerdictIsFinal
<1>. QED BY <1>1, PageInvHolds, PTL
================================================================================
