-------------------------- MODULE AlertEngineProofs --------------------------
(***************************************************************************)
(* Theorems about the alert engine, for any farm, any number of concurrent *)
(* evaluations, any readings, clock offsets, crashes and webhook outcomes. *)
(***************************************************************************)
EXTENDS AlertEngine, FiniteSetTheorems, TLAPS

(* ORDER BY created_at DESC LIMIT 1 finds a row when there is one.          *)
LatestExists ==
  \A h \in Hosts : snapshots[h] # <<>> => \E i \in Nat : IsLatest(snapshots[h], i)

(* The appended row is the latest one unless an older row has its timestamp *)
(* or a greater one.                                                        *)
LEMMA LatestAfterAppend ==
  ASSUME NEW snaps \in Seq(Snapshots), NEW row \in Snapshots,
         snaps # <<>> => \E i \in Nat : IsLatest(snaps, i)
  PROVE  \E i \in Nat : IsLatest(Append(snaps, row), i)
<1> DEFINE next == Append(snaps, row)
           n == Len(snaps) + 1
<1>1. /\ next \in Seq(Snapshots) /\ Len(next) = n /\ n \in Nat
      /\ DOMAIN next = 1 .. n /\ DOMAIN snaps = 1 .. Len(snaps) /\ Len(snaps) \in Nat
      /\ next[n] = row
      /\ \A j \in 1 .. Len(snaps) : next[j] = snaps[j] /\ snaps[j] \in Snapshots
  OBVIOUS
<1>2. \A j \in 1 .. n : next[j].at \in Int
  BY <1>1 DEF Snapshots
<1>3. CASE snaps = <<>>
  <2>1. n = 1
    BY <1>3
  <2>2. IsLatest(next, 1)
    BY <1>1, <1>2, <2>1 DEF IsLatest
  <2>. QED BY <2>2
<1>4. CASE snaps # <<>>
  <2>1. PICK i \in Nat : IsLatest(snaps, i)
    BY <1>4
  <2>2. /\ i \in 1 .. Len(snaps)
        /\ \A j \in 1 .. Len(snaps) :
              snaps[j].at < snaps[i].at \/ (snaps[j].at = snaps[i].at /\ i <= j)
    BY <2>1, <1>1 DEF IsLatest
  <2>3. CASE row.at <= snaps[i].at
    <3>1. i \in 1 .. n /\ next[i] = snaps[i] /\ i <= n
      BY <1>1, <2>2
    <3>2. next[n].at < next[i].at \/ (next[n].at = next[i].at /\ i <= n)
      BY <1>1, <1>2, <2>3, <3>1
    <3>3. \A j \in 1 .. Len(snaps) :
             next[j].at < next[i].at \/ (next[j].at = next[i].at /\ i <= j)
      BY <1>1, <2>2, <3>1
    <3>4. \A j \in 1 .. n : j = n \/ j \in 1 .. Len(snaps)
      BY <1>1
    <3>5. IsLatest(next, i)
      BY <1>1, <3>1, <3>2, <3>3, <3>4 DEF IsLatest
    <3>. QED BY <3>5
  <2>4. CASE ~(row.at <= snaps[i].at)
    <3>1. \A j \in 1 .. Len(snaps) : next[j].at < next[n].at
      BY <1>1, <1>2, <2>2, <2>4
    <3>2. IsLatest(next, n)
      BY <1>1, <1>2, <3>1 DEF IsLatest
    <3>. QED BY <1>1, <3>2
  <2>. QED BY <2>3, <2>4
<1>. QED BY <1>3, <1>4
-----------------------------------------------------------------------------
(* What an evaluation computes, before it writes.                           *)
LEMMA CandidateFacts ==
  ASSUME TypeOK, LatestExists
  PROVE  /\ Candidates \subseteq AlertIds
         /\ \A a \in Candidates : a[1] \in Machines /\ a[2] \in EvaluateMachine(a[1])
         /\ \A h \in Machines, k \in Kinds : k \in EvaluateMachine(h) => <<h, k>> \in Candidates
         /\ \A a \in Candidates : DetailsOf(a) \in Errors
<1>1. \A h \in Machines : EvaluateMachine(h) \subseteq Kinds
  BY DEF EvaluateMachine, Kinds
<1>2. Candidates \subseteq AlertIds
  BY <1>1 DEF Candidates, AlertIds, Machines
<1>3. \A a \in Candidates : a[1] \in Machines /\ a[2] \in EvaluateMachine(a[1])
  BY DEF Candidates
<1>4. \A h \in Machines, k \in Kinds : k \in EvaluateMachine(h) => <<h, k>> \in Candidates
  BY DEF Candidates
<1>5. ASSUME NEW a \in Candidates PROVE DetailsOf(a) \in Errors
  <2>1. CASE a[2] # "fah_errors"
    BY <2>1 DEF DetailsOf, Errors
  <2>2. CASE a[2] = "fah_errors"
    <3>1. a[1] \in Hosts /\ "fah_errors" \in EvaluateMachine(a[1])
      BY <1>3, <2>2 DEF Machines
    <3>4. snapshots[a[1]] # <<>>
      BY <3>1 DEF EvaluateMachine
    <3>2. IsLatest(snapshots[a[1]], Latest(snapshots[a[1]]))
      <4>1. PICK i \in Nat : IsLatest(snapshots[a[1]], i)
        BY <3>1, <3>4 DEF LatestExists
      <4>2. i \in DOMAIN snapshots[a[1]]
        BY <4>1 DEF IsLatest
      <4>. QED BY <4>1, <4>2 DEF Latest
    <3>3. LatestOf(a[1]) \in Snapshots
      BY <3>1, <3>2 DEF LatestOf, IsLatest, TypeOK
    <3>. QED BY <2>2, <3>3 DEF DetailsOf, Snapshots
  <2>. QED BY <2>1, <2>2
<1>. QED BY <1>2, <1>3, <1>4, <1>5

(* The events of what is written: one per fired, resolved or recovered one. *)
LEMMA EventFacts ==
  ASSUME NEW back, NEW fire, NEW clear
  PROVE  LET new == NotifyEvents(back, fire, clear)
         IN  /\ \A e \in new : e.epoch = epoch + 1
             /\ \A e \in new : \/ e.type = "Fired" /\ e.id \in fire
                               \/ e.type = "Resolved" /\ e.id \in clear
                               \/ e.type = "Recovery" /\ e.id \in back
             /\ \A a \in fire : Event("Fired", a, DetailsOf(a)) \in new
             /\ \A a \in clear : Event("Resolved", a, NoErrors) \in new
             /\ \A a \in back : Event("Recovery", a, NoErrors) \in new
             /\ \A e, f \in new : e.type = f.type /\ e.id = f.id => e = f
<1> DEFINE new == NotifyEvents(back, fire, clear)
<1>1. \A e \in new :
        \/ e.type = "Fired" /\ e.id \in fire /\ e = Event("Fired", e.id, DetailsOf(e.id))
        \/ e.type = "Resolved" /\ e.id \in clear /\ e = Event("Resolved", e.id, NoErrors)
        \/ e.type = "Recovery" /\ e.id \in back /\ e = Event("Recovery", e.id, NoErrors)
  BY DEF NotifyEvents, Event
<1>2. \A e \in new : e.epoch = epoch + 1
  BY DEF NotifyEvents, Event
<1>3. \A e, f \in new : e.type = f.type /\ e.id = f.id => e = f
  BY <1>1
<1>4. /\ \A a \in fire : Event("Fired", a, DetailsOf(a)) \in new
      /\ \A a \in clear : Event("Resolved", a, NoErrors) \in new
      /\ \A a \in back : Event("Recovery", a, NoErrors) \in new
  BY DEF NotifyEvents
<1>. QED BY <1>1, <1>2, <1>3, <1>4
-----------------------------------------------------------------------------
(* The invariant.  The rows: their times are not ahead of the clock, an     *)
(* active alert belongs to a known host, only error alerts carry text.      *)
RowFacts ==
  /\ \A a \in AlertIds : firedAt[a] # Never => firedAt[a] <= now
  /\ \A a \in active : a[1] \in Machines /\ (a[2] # "fah_errors" => details[a] = NoErrors)

(* The stream: epochs only grow, deliveries were announced, and what is     *)
(* ahead of a waiting event in its message waits with it or is delivered.   *)
StreamFacts ==
  /\ \A e \in announced : e.epoch <= epoch
  /\ delivered \subseteq announced
  /\ \A t \in Tasks : \A e \in queue[t], f \in announced :
       f.epoch = e.epoch /\ Rank(f) < Rank(e) => f \in queue[t] \cup delivered

EngineInv ==
  /\ TypeOK
  /\ LatestExists
  /\ RowFacts
  /\ RowTimes
  /\ ExclusiveAlerts
  /\ ActiveAsAnnounced
  /\ StreamFacts
  /\ SentAtMostOnce
  /\ DeliveredInOrder

LEMMA EngineInvInit == Init => EngineInv
<1> SUFFICES ASSUME Init PROVE EngineInv
  OBVIOUS
<1> USE DEF Init
<1>1. TypeOK
  <2>1. pc \in [Tasks -> {"idle", "spawned", "sending", "dead"}]
    BY DEF Started
  <2>2. webhook \in [error : BOOLEAN, success : BOOLEAN]
    BY DEF NoStatus
  <2>3. snapshots \in [Hosts -> Seq(Snapshots)]
    OBVIOUS
  <2>. QED BY <2>1, <2>2, <2>3 DEF TypeOK, Errors
<1>2. LatestExists
  BY DEF LatestExists
<1>3. RowFacts /\ RowTimes
  BY DEF RowFacts, RowTimes
<1>4. ExclusiveAlerts
  <2>1. \A h \in Hosts : { k \in Kinds : <<h, k>> \in active } = {}
    OBVIOUS
  <2>2. Exclusive({})
    <3>1. {} \cap {"fah_failed", "fah_inactive", "fah_stuck"} = {}
      OBVIOUS
    <3>2. Cardinality({}) = 0
      BY FS_EmptySet
    <3>. QED BY <3>1, <3>2 DEF Exclusive
  <2>. QED BY <2>1, <2>2 DEF ExclusiveAlerts
<1>5. ActiveAsAnnounced /\ StreamFacts /\ SentAtMostOnce /\ DeliveredInOrder
  BY DEF ActiveAsAnnounced, StreamFacts, SentAtMostOnce, DeliveredInOrder
<1>. QED BY <1>1, <1>2, <1>3, <1>4, <1>5 DEF EngineInv

(* What is written to the table: part of what an evaluation computed, all   *)
(* of it unless a crash cuts it short.                                      *)
Writes(back, fire, clear) ==
  /\ back \subseteq Recovered(Candidates)
  /\ fire \subseteq ToFire(Candidates)
  /\ clear \subseteq ToResolve(Candidates)
  /\ Write(back, fire, clear)
  /\ UNCHANGED <<now, db, delivered>>

LEMMA EvaluateWrites ==
  ASSUME NEW t \in Tasks, Evaluate(t)
  PROVE  Writes(Recovered(Candidates), ToFire(Candidates), ToResolve(Candidates))
BY DEF Evaluate, Writes

LEMMA CutShortWrites ==
  ASSUME Crash, CutShort
  PROVE  \E back, fire, clear :
           /\ Writes(back, fire, clear)
           /\ NotifyEvents(back, fire, clear) # {}
           /\ clear # {} => back = Recovered(Candidates)
<1>1. PICK back \in SUBSET Recovered(Candidates), fire \in SUBSET ToFire(Candidates),
           clear \in SUBSET ToResolve(Candidates) :
        /\ back \cup fire \cup clear # {}
        /\ clear # {} => back = Recovered(Candidates)
        /\ Write(back, fire, clear)
  BY DEF CutShort
<1>2. UNCHANGED <<now, db, delivered>>
  BY DEF Crash
<1>3. NotifyEvents(back, fire, clear) # {}
  BY <1>1, EventFacts
<1>. QED BY <1>1, <1>2, <1>3 DEF Writes

(* Steps other than an evaluation, complete or cut, leave alerts and        *)
(* announcements alone.                                                     *)
LEMMA OnlyWritesChange ==
  ASSUME [Next]_vars
  PROVE  /\ (\E t \in Tasks : Evaluate(t)) \/ Crash \/ UNCHANGED alerts
         /\ (\E back, fire, clear : Writes(back, fire, clear)) \/ UNCHANGED alerts
<1>1. ASSUME NEW t \in Tasks, Send(t) PROVE UNCHANGED alerts
  BY <1>1 DEF Send, PostEmbed, AllPosted, PostBatch, PostFails, Panics
<1>2. (\E t \in Tasks : Evaluate(t)) \/ Crash \/ UNCHANGED alerts
  BY <1>1 DEF Next, vars, Tick, Ingest, TestWebhook
<1>3. ASSUME NEW t \in Tasks, Evaluate(t) PROVE \E back, fire, clear : Writes(back, fire, clear)
  BY <1>3, EvaluateWrites
<1>4. CASE Crash
  BY <1>4, CutShortWrites DEF Crash
<1>. QED BY <1>2, <1>3, <1>4

(* What is written, as sets of alerts.                                      *)
LEMMA WriteFacts ==
  ASSUME EngineInv, NEW back, NEW fire, NEW clear, Writes(back, fire, clear)
  PROVE  /\ fire \subseteq Candidates /\ Candidates \subseteq AlertIds
         /\ clear \subseteq active /\ clear \cap Candidates = {}
         /\ back \subseteq Candidates /\ back \cap fire = {} /\ back \cap active = {}
         /\ \A a \in active \cup fire : a[2] # "node_online"
         /\ active' = (active \ clear) \cup fire
         /\ announced' = announced \cup NotifyEvents(back, fire, clear)
         /\ NotifyEvents(back, fire, clear) = {} =>
              fire = {} /\ clear = {} /\ back = {} /\ epoch' = epoch
         /\ NotifyEvents(back, fire, clear) # {} => epoch' = epoch + 1
<1> DEFINE cand == Candidates
           new == NotifyEvents(back, fire, clear)
<1>1. cand \subseteq AlertIds
  BY CandidateFacts DEF EngineInv
<1>2. fire \subseteq cand /\ \A a \in fire : a[2] # "node_online"
  BY DEF ToFire, Writes
<1>3. clear \subseteq active /\ clear \cap cand = {}
  BY DEF ToResolve, Writes
<1>4. back \subseteq cand /\ \A a \in back : a[2] = "node_online"
  BY DEF Recovered, Writes
<1>5. active \subseteq AlertIds /\ \A a \in active : a[2] # "node_online"
  <2> SUFFICES ASSUME NEW a \in active PROVE a \in AlertIds /\ a[2] # "node_online"
    OBVIOUS
  <2>1. a \in AlertIds /\ a[1] \in Hosts /\ a[2] \in Kinds /\ a = <<a[1], a[2]>>
    BY DEF EngineInv, TypeOK, AlertIds
  <2>2. "node_online" \notin { k \in Kinds : <<a[1], k>> \in active }
    BY <2>1 DEF EngineInv, ExclusiveAlerts
  <2>. QED BY <2>1, <2>2
<1>6. /\ active' = (active \ clear) \cup fire
      /\ announced' = announced \cup new
      /\ epoch' = IF new = {} THEN epoch ELSE epoch + 1
  BY DEF Writes, Write
<1>7. new = {} => fire = {} /\ clear = {} /\ back = {}
  BY EventFacts
<1>. QED BY <1>1, <1>2, <1>3, <1>4, <1>5, <1>6, <1>7

(* A complete evaluation makes the table the candidates.                    *)
LEMMA EvaluateFacts ==
  ASSUME EngineInv, NEW t \in Tasks, Evaluate(t)
  PROVE  active' = { a \in Candidates : a[2] # "node_online" }
<1> DEFINE fire == ToFire(Candidates)
           clear == ToResolve(Candidates)
<1>1. /\ active' = (active \ clear) \cup fire /\ fire \subseteq Candidates
      /\ \A a \in active \cup fire : a[2] # "node_online"
  BY EvaluateWrites, WriteFacts
<1>2. clear = active \ Candidates
  BY DEF ToResolve
<1>3. \A a \in Candidates : a[2] # "node_online" /\ a \notin active => a \in fire
  BY DEF ToFire
<1>. QED BY <1>1, <1>2, <1>3

(* The types of what is written.                                            *)
LEMMA WriteKeepsTypes ==
  ASSUME EngineInv, NEW back, NEW fire, NEW clear, Writes(back, fire, clear)
  PROVE  /\ NotifyEvents(back, fire, clear) \subseteq Events
         /\ active' \subseteq AlertIds /\ announced' \subseteq Events /\ epoch' \in Nat
         /\ firedAt' \in [AlertIds -> Nat \cup {Never}]
         /\ resolvedAt' \in [AlertIds -> Nat \cup {Never}]
         /\ details' \in [AlertIds -> Errors]
<1> DEFINE cand == Candidates
           new == NotifyEvents(back, fire, clear)
<1> USE EngineAssumption
<1>1. /\ fire \subseteq cand /\ cand \subseteq AlertIds
      /\ clear \subseteq active /\ back \subseteq cand
      /\ active' = (active \ clear) \cup fire
      /\ announced' = announced \cup new
  BY WriteFacts
<1>2. active \subseteq AlertIds /\ now \in Nat /\ epoch \in Nat
  BY DEF EngineInv, TypeOK
<1>3. active' \subseteq AlertIds
  BY <1>1, <1>2
<1>4. firedAt' \in [AlertIds -> Nat \cup {Never}] /\ resolvedAt' \in [AlertIds -> Nat \cup {Never}]
  BY DEF Writes, Write, FiredAtAfter, ResolvedAtAfter, EngineInv, TypeOK
<1>5. \A a \in fire : DetailsOf(a) \in Errors
  BY <1>1, CandidateFacts DEF EngineInv
<1>6. details' \in [AlertIds -> Errors]
  BY <1>5 DEF Writes, Write, EngineInv, TypeOK
<1>7. new \subseteq Events
  <2>1. NoErrors \in Errors
    BY DEF Errors
  <2>2. \A a \in AlertIds, text \in Errors, type \in {"Recovery", "Fired", "Resolved"} :
          Event(type, a, text) \in Events
    BY <1>2 DEF Event, Events
  <2>. QED BY <1>1, <1>2, <1>5, <2>1, <2>2 DEF NotifyEvents
<1>8. epoch' \in Nat
  BY <1>2 DEF Writes, Write
<1>9. announced' \subseteq Events
  BY <1>1, <1>7 DEF EngineInv, TypeOK
<1>. QED BY <1>3, <1>4, <1>6, <1>7, <1>8, <1>9

(* The rows of the table after a write.                                     *)
LEMMA WriteKeepsRows ==
  ASSUME EngineInv, NEW back, NEW fire, NEW clear, Writes(back, fire, clear)
  PROVE  LatestExists' /\ RowFacts' /\ RowTimes'
<1> DEFINE cand == Candidates
<1> USE EngineAssumption
<1>1. /\ fire \subseteq cand /\ cand \subseteq AlertIds
      /\ clear \subseteq active /\ clear \cap cand = {}
      /\ back \subseteq cand /\ back \cap fire = {} /\ back \cap active = {}
      /\ active' = (active \ clear) \cup fire
  BY WriteFacts
<1>2. \A a \in AlertIds :
        /\ firedAt'[a] = FiredAtAfter(a, fire, back)
        /\ resolvedAt'[a] = ResolvedAtAfter(a, fire, clear \cup back)
        /\ details'[a] = IF a \in fire THEN DetailsOf(a) ELSE details[a]
  BY DEF Writes, Write
<1>3. /\ now \in Nat
      /\ \A a \in AlertIds : firedAt[a] \in Nat \cup {Never} /\ resolvedAt[a] \in Nat \cup {Never}
      /\ active \subseteq AlertIds
  BY DEF EngineInv, TypeOK
<1>4. snapshots' = snapshots /\ lastSeen' = lastSeen /\ now' = now
  BY DEF Writes, db
<1>5. LatestExists'
  BY <1>4 DEF EngineInv, LatestExists
<1>6. RowFacts'
  <2>1. \A a \in AlertIds : firedAt'[a] # Never => firedAt'[a] <= now'
    BY <1>2, <1>3, <1>4 DEF FiredAtAfter, EngineInv, RowFacts
  <2>2. ASSUME NEW a \in active'
        PROVE  a[1] \in Machines' /\ (a[2] # "fah_errors" => details'[a] = NoErrors)
    <3>1. a \in AlertIds /\ (a \in fire \/ a \in active)
      BY <1>1, <1>3, <2>2
    <3>2. a[1] \in Machines
      BY <3>1, <1>1, CandidateFacts DEF EngineInv, RowFacts
    <3>3. a[1] \in Machines'
      BY <3>2, <1>4 DEF Machines
    <3>4. a[2] # "fah_errors" => details'[a] = NoErrors
      BY <3>1, <1>2 DEF DetailsOf, EngineInv, RowFacts
    <3>. QED BY <3>3, <3>4
  <2>. QED BY <2>1, <2>2 DEF RowFacts
<1>7. RowTimes'
  <2> SUFFICES ASSUME NEW a \in AlertIds
      PROVE  /\ a \in active' => firedAt'[a] # Never /\ resolvedAt'[a] = Never
             /\ a \notin active' /\ firedAt'[a] # Never =>
                  resolvedAt'[a] # Never /\ resolvedAt'[a] >= firedAt'[a]
    BY DEF RowTimes
  <2>1. /\ a \in active => firedAt[a] # Never /\ resolvedAt[a] = Never
        /\ a \notin active /\ firedAt[a] # Never =>
             resolvedAt[a] # Never /\ resolvedAt[a] >= firedAt[a]
        /\ firedAt[a] # Never => firedAt[a] <= now
    BY DEF EngineInv, RowTimes, RowFacts
  <2>2. CASE a \in fire
    BY <2>1, <2>2, <1>1, <1>2, <1>3 DEF FiredAtAfter, ResolvedAtAfter
  <2>3. CASE a \in clear
    BY <2>1, <2>3, <1>1, <1>2, <1>3 DEF FiredAtAfter, ResolvedAtAfter
  <2>4. CASE a \in back
    BY <2>1, <2>4, <1>1, <1>2, <1>3 DEF FiredAtAfter, ResolvedAtAfter
  <2>5. CASE a \notin fire \cup clear \cup back
    BY <2>1, <2>5, <1>1, <1>2, <1>3 DEF FiredAtAfter, ResolvedAtAfter
  <2>. QED BY <2>2, <2>3, <2>4, <2>5
<1>. QED BY <1>5, <1>6, <1>7

(* The rows of one host after a complete evaluation.                        *)
LEMMA EvaluateExcludes ==
  ASSUME EngineInv, NEW t \in Tasks, Evaluate(t)
  PROVE  ExclusiveAlerts'
<1> SUFFICES ASSUME NEW h \in Hosts
    PROVE  LET on == { k \in Kinds : <<h, k>> \in active' }
           IN  "node_online" \notin on /\ Exclusive(on)
  BY DEF ExclusiveAlerts
<1> DEFINE on == { k \in Kinds : <<h, k>> \in active' }
           three == on \cap {"fah_failed", "fah_inactive", "fah_stuck"}
<1>1. \A k \in on : k \in EvaluateMachine(h) /\ k # "node_online"
  BY EvaluateFacts, CandidateFacts DEF EngineInv
<1>2. "node_offline" \in on => on = {"node_offline"}
  BY <1>1 DEF EvaluateMachine, Holds
<1>3. \A j, k \in three : j = k
  BY <1>1 DEF EvaluateMachine, Holds
<1>4. ASSUME NEW k \in three PROVE Cardinality(three) = 1
  <2>1. three = {k}
    BY <1>3, <1>4
  <2>. QED BY <2>1, FS_Singleton
<1>5. Cardinality(three) <= 1
  <2>1. CASE three = {}
    <3>1. Cardinality(three) = 0
      BY <2>1, FS_EmptySet
    <3>. QED BY <3>1
  <2>. QED BY <1>4, <2>1
<1>. QED BY <1>1, <1>2, <1>5 DEF Exclusive

(* The stream of events after a write.  The one that wrote has its events   *)
(* to send, or none; the others keep theirs, or lose them in the crash.     *)
LEMMA WriteKeepsStream ==
  ASSUME EngineInv, NEW back, NEW fire, NEW clear, Writes(back, fire, clear),
         NEW t \in Tasks, queue'[t] \in {NotifyEvents(back, fire, clear), {}},
         \A u \in Tasks \ {t} : queue'[u] \in {queue[u], {}}
  PROVE  ActiveAsAnnounced' /\ StreamFacts' /\ SentAtMostOnce' /\ DeliveredInOrder'
<1> DEFINE cand == Candidates
           new == NotifyEvents(back, fire, clear)
<1>1. /\ fire \subseteq cand /\ cand \subseteq AlertIds
      /\ clear \subseteq active /\ clear \cap cand = {}
      /\ back \subseteq cand /\ back \cap fire = {} /\ back \cap active = {}
      /\ active' = (active \ clear) \cup fire
      /\ announced' = announced \cup new
      /\ new = {} => fire = {} /\ clear = {} /\ back = {} /\ epoch' = epoch
      /\ new # {} => epoch' = epoch + 1
      /\ delivered' = delivered
  BY WriteFacts DEF Writes
<1>2. /\ \A e \in new : e.epoch = epoch + 1
      /\ \A e \in new : \/ e.type = "Fired" /\ e.id \in fire
                        \/ e.type = "Resolved" /\ e.id \in clear
                        \/ e.type = "Recovery" /\ e.id \in back
  BY EventFacts
<1>3. epoch \in Nat /\ \A e \in announced : e.epoch \in Nat /\ e.epoch <= epoch
  BY DEF EngineInv, TypeOK, Events, StreamFacts
<1>4. \A e \in new : e \notin announced
  BY <1>2, <1>3
<1>5. ActiveAsAnnounced'
  <2> SUFFICES ASSUME NEW a \in AlertIds
      PROVE  a \in active' <=> \E e \in announced' :
               /\ e.id = a /\ e.type = "Fired"
               /\ \A f \in announced' : f.id = a => f.epoch <= e.epoch
    BY DEF ActiveAsAnnounced
  <2>1. a \in active <=> \E e \in announced :
               /\ e.id = a /\ e.type = "Fired"
               /\ \A f \in announced : f.id = a => f.epoch <= e.epoch
    BY DEF EngineInv, ActiveAsAnnounced
  <2>2. CASE a \in fire
    <3> DEFINE e == Event("Fired", a, DetailsOf(a))
    <3>1. e \in new
      BY <2>2, EventFacts
    <3>2. e.id = a /\ e.type = "Fired" /\ e.epoch = epoch + 1
      BY DEF Event
    <3>3. \A f \in announced' : f.epoch <= e.epoch
      BY <1>1, <1>2, <1>3, <3>2
    <3>. QED BY <1>1, <2>2, <3>1, <3>2, <3>3
  <2>3. CASE a \in clear \cup back
    <3>1. a \notin active' /\ a \notin fire
      BY <1>1, <2>3
    <3>2. PICK f \in new : f.id = a
      <4>1. CASE a \in clear
        <5>1. Event("Resolved", a, NoErrors) \in new
          BY <4>1, EventFacts
        <5>. QED BY <5>1 DEF Event
      <4>2. CASE a \in back
        <5>1. Event("Recovery", a, NoErrors) \in new
          BY <4>2, EventFacts
        <5>. QED BY <5>1 DEF Event
      <4>. QED BY <4>1, <4>2, <2>3
    <3>3. \A e \in announced' : e.id = a /\ e.type = "Fired" => e.epoch < f.epoch
      BY <1>1, <1>2, <1>3, <3>1, <3>2
    <3>4. \A e \in announced' : e.epoch \in Nat
      BY <1>1, <1>2, <1>3
    <3>. QED BY <1>1, <3>1, <3>2, <3>3, <3>4
  <2>4. CASE a \notin fire \cup clear \cup back
    <3>1. \A e \in announced' : e.id = a => e \in announced
      BY <1>1, <1>2, <2>4
    <3>2. a \in active' <=> a \in active
      BY <1>1, <2>4
    <3>. QED BY <1>1, <2>1, <3>1, <3>2
  <2>. QED BY <2>2, <2>3, <2>4
<1>6. /\ queue'[t] \in {new, {}}
      /\ \A u \in Tasks \ {t} : queue'[u] \in {queue[u], {}}
  OBVIOUS
<1>7. \A u \in Tasks : queue[u] \subseteq announced
  BY DEF EngineInv, SentAtMostOnce
<1>8. delivered \subseteq announced
  BY DEF EngineInv, StreamFacts
<1>9. StreamFacts'
  <2>1. \A e \in announced' : e.epoch <= epoch'
    <3>1. CASE new = {}
      BY <3>1, <1>1, <1>3
    <3>2. CASE new # {}
      BY <3>2, <1>1, <1>2, <1>3
    <3>. QED BY <3>1, <3>2
  <2>2. delivered' \subseteq announced'
    BY <1>1, <1>8
  <2>3. ASSUME NEW u \in Tasks, NEW e \in queue'[u], NEW f \in announced',
               f.epoch = e.epoch, Rank(f) < Rank(e)
        PROVE  f \in queue'[u] \cup delivered'
    <3>1. CASE u = t
      BY <2>3, <3>1, <1>1, <1>2, <1>3, <1>6
    <3>2. CASE u # t
      <4>1. e \in queue[u] /\ e \in announced
        BY <2>3, <3>2, <1>6, <1>7
      <4>2. f \in announced
        BY <2>3, <4>1, <1>1, <1>2, <1>3
      <4>. QED BY <2>3, <3>2, <4>1, <4>2, <1>1, <1>6 DEF EngineInv, StreamFacts
    <3>. QED BY <3>1, <3>2
  <2>. QED BY <2>1, <2>2, <2>3 DEF StreamFacts
<1>10. SentAtMostOnce'
  <2>1. ASSUME NEW u \in Tasks PROVE queue'[u] \subseteq announced' \ delivered'
    BY <1>1, <1>4, <1>6, <1>8 DEF EngineInv, SentAtMostOnce
  <2>2. ASSUME NEW u \in Tasks, NEW v \in Tasks \ {u} PROVE queue'[u] \cap queue'[v] = {}
    <3>1. CASE u = t
      BY <3>1, <1>4, <1>6, <1>7
    <3>2. CASE v = t
      BY <3>2, <1>4, <1>6, <1>7
    <3>3. CASE u # t /\ v # t
      BY <3>3, <1>6 DEF EngineInv, SentAtMostOnce
    <3>. QED BY <3>1, <3>2, <3>3
  <2>. QED BY <2>1, <2>2 DEF SentAtMostOnce
<1>11. DeliveredInOrder'
  BY <1>1, <1>2, <1>3, <1>8 DEF EngineInv, DeliveredInOrder
<1>. QED BY <1>5, <1>9, <1>10, <1>11

(* An evaluation keeps the invariant.                                       *)
LEMMA EvaluateKeepsInv ==
  ASSUME EngineInv, NEW t \in Tasks, Evaluate(t)
  PROVE  EngineInv'
<1> DEFINE new == NotifyEvents(Recovered(Candidates), ToFire(Candidates), ToResolve(Candidates))
<1>1. new \subseteq Events
  BY EvaluateWrites, WriteKeepsTypes
<1>2. /\ pc' \in [Tasks -> {"idle", "spawned", "sending", "dead"}]
      /\ queue' \in [Tasks -> SUBSET Events]
      /\ queue'[t] \in {new, {}} /\ \A u \in Tasks \ {t} : queue'[u] = queue[u]
      /\ torn' = FALSE
  BY <1>1 DEF Evaluate, EngineInv, TypeOK
<1>3. UNCHANGED <<now, snapshots, lastSeen, heardAt, webhook, delivered, crashes>>
  BY DEF Evaluate, db
<1>4. TypeOK'
  BY <1>2, <1>3, EvaluateWrites, WriteKeepsTypes DEF EngineInv, TypeOK
<1>5. LatestExists' /\ RowFacts' /\ RowTimes'
  BY EvaluateWrites, WriteKeepsRows
<1>6. ActiveAsAnnounced' /\ StreamFacts' /\ SentAtMostOnce' /\ DeliveredInOrder'
  BY <1>2, EvaluateWrites, WriteKeepsStream
<1>. QED BY <1>4, <1>5, <1>6, EvaluateExcludes DEF EngineInv
-----------------------------------------------------------------------------
(* A message with the events `sent' of task t is accepted; the task keeps   *)
(* the rest or drops it.  With `sent' empty, the message failed.            *)
LEMMA SendingKeepsInv ==
  ASSUME EngineInv, NEW t \in Tasks, NEW sent \in SUBSET queue[t], NEW rest,
         \A e \in sent, f \in queue[t] \ sent : Rank(e) <= Rank(f),
         rest = {} \/ rest = queue[t] \ sent,
         queue' = [queue EXCEPT ![t] = rest], delivered' = delivered \cup sent,
         pc' \in [Tasks -> {"idle", "spawned", "sending", "dead"}],
         \A u \in Tasks : pc[u] = "spawned" => pc'[u] = "spawned",
         webhook' \in [error : BOOLEAN, success : BOOLEAN],
         UNCHANGED <<now, db, alerts, crashes>>
  PROVE  EngineInv'
<1>1. /\ UNCHANGED <<now, snapshots, lastSeen, heardAt, crashes>>
      /\ UNCHANGED <<active, firedAt, resolvedAt, details, announced, epoch, torn>>
  BY DEF db, alerts
<1>2. /\ queue'[t] = rest /\ queue'[t] \subseteq queue[t] \ sent
      /\ \A u \in Tasks \ {t} : queue'[u] = queue[u]
      /\ \A u \in Tasks : queue[u] \subseteq Events
      /\ delivered \subseteq announced
  BY DEF EngineInv, TypeOK, StreamFacts
<1>3. /\ queue[t] \subseteq announced \ delivered
      /\ \A u \in Tasks \ {t} : queue[u] \cap queue[t] = {}
  BY DEF EngineInv, SentAtMostOnce
<1>4. \A e \in Events : Rank(e) \in Nat
  BY DEF Rank
<1>5. TypeOK'
  BY <1>1, <1>2 DEF EngineInv, TypeOK
<1>6. LatestExists' /\ RowFacts' /\ RowTimes' /\ ExclusiveAlerts' /\ ActiveAsAnnounced'
  <2>1. LatestExists' /\ RowFacts'
    BY <1>1 DEF EngineInv, LatestExists, RowFacts, Machines
  <2>2. RowTimes'
    BY <1>1 DEF EngineInv, RowTimes
  <2>3. ExclusiveAlerts'
    BY <1>1 DEF EngineInv, ExclusiveAlerts, Tasks
  <2>4. ActiveAsAnnounced'
    BY <1>1 DEF EngineInv, ActiveAsAnnounced
  <2>. QED BY <2>1, <2>2, <2>3, <2>4
<1>7. StreamFacts'
  <2>1. ASSUME NEW u \in Tasks, NEW e \in queue'[u], NEW f \in announced,
               f.epoch = e.epoch, Rank(f) < Rank(e)
        PROVE  f \in queue'[u] \cup delivered'
    <3>1. e \in queue[u] /\ f \in queue[u] \cup delivered
      BY <2>1, <1>2 DEF EngineInv, StreamFacts
    <3>2. CASE u # t
      BY <3>1, <3>2, <1>2
    <3>3. CASE u = t
      BY <2>1, <3>1, <3>3, <1>2
    <3>. QED BY <3>2, <3>3
  <2>2. delivered' \subseteq announced
    BY <1>2, <1>3
  <2>. QED BY <2>1, <2>2, <1>1 DEF EngineInv, StreamFacts
<1>8. SentAtMostOnce'
  <2>1. ASSUME NEW u \in Tasks PROVE queue'[u] \subseteq announced \ delivered'
    BY <1>2, <1>3 DEF EngineInv, SentAtMostOnce
  <2>2. ASSUME NEW u \in Tasks, NEW v \in Tasks \ {u} PROVE queue'[u] \cap queue'[v] = {}
    BY <1>2 DEF EngineInv, SentAtMostOnce
  <2>. QED BY <2>1, <2>2, <1>1 DEF SentAtMostOnce
<1>9. DeliveredInOrder'
  <2> SUFFICES ASSUME NEW e \in delivered', NEW f \in announced,
                      f.epoch = e.epoch, Rank(f) < Rank(e)
      PROVE  f \in delivered'
    BY <1>1 DEF DeliveredInOrder
  <2>1. CASE e \in delivered
    BY <2>1 DEF EngineInv, DeliveredInOrder
  <2>2. CASE e \in sent
    <3>1. f \in queue[t] \cup delivered
      BY <2>2 DEF EngineInv, StreamFacts
    <3>2. f \in queue[t] \ sent => Rank(e) <= Rank(f)
      BY <2>2
    <3>3. Rank(e) \in Nat /\ Rank(f) \in Nat
      BY <2>2, <1>1, <1>2, <1>4 DEF EngineInv, TypeOK
    <3>. QED BY <3>1, <3>2, <3>3
  <2>. QED BY <2>1, <2>2
<1>. QED BY <1>5, <1>6, <1>7, <1>8, <1>9 DEF EngineInv

(* What is written to WEBHOOK_STATUS.                                       *)
LEMMA StatusTypes ==
  ASSUME TypeOK, Succeeded \/ Failed
  PROVE  webhook' \in [error : BOOLEAN, success : BOOLEAN]
<1>1. CASE Succeeded
  <2>1. [error |-> FALSE, success |-> TRUE] \in [error : BOOLEAN, success : BOOLEAN]
    OBVIOUS
  <2>. QED BY <1>1, <2>1 DEF Succeeded
<1>2. CASE Failed
  BY <1>2 DEF Failed, TypeOK
<1>. QED BY <1>1, <1>2

LEMMA SendKeepsInv ==
  ASSUME EngineInv, NEW t \in Tasks, Send(t)
  PROVE  EngineInv'
<1>0. /\ pc \in [Tasks -> {"idle", "spawned", "sending", "dead"}]
      /\ webhook \in [error : BOOLEAN, success : BOOLEAN]
      /\ pc[t] = "sending"
  BY DEF EngineInv, TypeOK, Send, PostEmbed, NextToSend, AllPosted, PostBatch, PostFails,
         Panics, Sending
<1>1. ASSUME NEW state \in {"idle", "dead"}, pc' = [pc EXCEPT ![t] = state],
             queue' = [queue EXCEPT ![t] = {}],
             webhook' \in [error : BOOLEAN, success : BOOLEAN],
             UNCHANGED <<now, db, alerts, delivered, crashes>>
      PROVE  EngineInv'
  <2>1. /\ pc' \in [Tasks -> {"idle", "spawned", "sending", "dead"}]
        /\ \A u \in Tasks : pc[u] = "spawned" => pc'[u] = "spawned"
    BY <1>0, <1>1
  <2> DEFINE sent == {}
             rest == {}
  <2>2. /\ delivered' = delivered \cup sent /\ sent \in SUBSET queue[t]
        /\ queue' = [queue EXCEPT ![t] = rest]
        /\ rest = {} \/ rest = queue[t] \ sent
        /\ \A e \in sent, f \in queue[t] \ sent : Rank(e) <= Rank(f)
    BY <1>1
  <2>3. webhook' \in [error : BOOLEAN, success : BOOLEAN] /\ UNCHANGED <<now, db, alerts, crashes>>
    BY <1>1
  <2> HIDE DEF sent, rest
  <2>. QED BY <2>1, <2>2, <2>3, SendingKeepsInv
<1>2. ASSUME NEW e \in queue[t], PostEmbed(t, e) PROVE EngineInv'
  <2>1. /\ \A f \in queue[t] : Rank(e) <= Rank(f)
        /\ delivered' = delivered \cup {e}
        /\ UNCHANGED <<now, db, alerts, crashes>>
    BY <1>2 DEF PostEmbed, NextToSend
  <2>2. queue' = [queue EXCEPT ![t] = queue[t] \ {e}]
    BY <1>2 DEF PostEmbed
  <2>3. /\ pc' \in [Tasks -> {"idle", "spawned", "sending", "dead"}]
        /\ \A u \in Tasks : pc[u] = "spawned" => pc'[u] = "spawned"
        /\ webhook' \in [error : BOOLEAN, success : BOOLEAN]
    BY <1>0, <1>2 DEF PostEmbed
  <2> DEFINE sent == {e}
             rest == queue[t] \ sent
  <2>4. sent \in SUBSET queue[t]
    OBVIOUS
  <2>5. \A d \in sent, f \in queue[t] \ sent : Rank(d) <= Rank(f)
    BY <2>1
  <2>6. /\ delivered' = delivered \cup sent
        /\ queue' = [queue EXCEPT ![t] = rest] /\ rest = queue[t] \ sent
    BY <2>1, <2>2
  <2> HIDE DEF sent, rest
  <2>. QED BY <2>1, <2>3, <2>4, <2>5, <2>6, SendingKeepsInv
<1>3. ASSUME NEW kept \in SUBSET queue[t], PostBatch(t, kept) PROVE EngineInv'
  <2>1. /\ \A e \in kept, f \in queue[t] \ kept : Rank(e) <= Rank(f)
        /\ delivered' = delivered \cup kept
        /\ UNCHANGED <<now, db, alerts, crashes>>
        /\ queue' = [queue EXCEPT ![t] = {}]
    BY <1>3 DEF PostBatch, Finish
  <2>2. /\ pc' \in [Tasks -> {"idle", "spawned", "sending", "dead"}]
        /\ \A u \in Tasks : pc[u] = "spawned" => pc'[u] = "spawned"
        /\ webhook' \in [error : BOOLEAN, success : BOOLEAN]
    BY <1>0, <1>3 DEF PostBatch, Finish, Succeeded
  <2>. QED BY <2>1, <2>2, SendingKeepsInv
<1>4. CASE AllPosted(t)
  <2>1. webhook' \in [error : BOOLEAN, success : BOOLEAN]
    BY <1>4, StatusTypes DEF AllPosted, EngineInv
  <2>. QED BY <1>1, <1>4, <2>1 DEF AllPosted, Finish
<1>5. CASE PostFails(t)
  <2>1. webhook' \in [error : BOOLEAN, success : BOOLEAN]
    BY <1>0, <1>5, StatusTypes DEF PostFails, EngineInv
  <2>. QED BY <1>1, <1>5, <2>1 DEF PostFails, Finish
<1>6. CASE Panics(t)
  BY <1>0, <1>1, <1>6 DEF Panics
<1>. QED BY <1>2, <1>3, <1>4, <1>5, <1>6 DEF Send

(* An accepted snapshot: the rows of a host grow, the alerts stay.          *)
LEMMA IngestKeepsInv ==
  ASSUME EngineInv, NEW h \in Hosts, NEW r \in Readings, NEW offset \in Offsets,
         NEW t \in Workers, Ingest(h, r, offset, t)
  PROVE  EngineInv'
<1> USE EngineAssumption
<1> DEFINE row == [at |-> now + offset, svc |-> r.svc, progress |-> r.progress,
                   hot |-> r.hot, errors |-> r.errors]
<1>1. row \in Snapshots /\ now \in Nat /\ now + offset \in Int
  BY DEF EngineInv, TypeOK, Snapshots, Errors
<1>2. /\ snapshots' = [snapshots EXCEPT ![h] = Append(@, row)]
      /\ lastSeen' = [lastSeen EXCEPT ![h] = now + offset]
      /\ heardAt' = [heardAt EXCEPT ![h] = now]
      /\ pc' = [pc EXCEPT ![t] = "spawned"]
      /\ UNCHANGED <<now, alerts, queue, webhook, delivered, crashes>>
  BY DEF Ingest
<1>3. UNCHANGED <<now, active, firedAt, resolvedAt, details, announced, epoch, torn, queue,
                  webhook, delivered, crashes>>
  BY <1>2 DEF alerts
<1>4. TypeOK'
  <2>1. snapshots' \in [Hosts -> Seq(Snapshots)]
    BY <1>1, <1>2 DEF EngineInv, TypeOK
  <2>. QED BY <2>1, <1>1, <1>2, <1>3 DEF EngineInv, TypeOK, Tasks
<1>5. LatestExists'
  <2> SUFFICES ASSUME NEW g \in Hosts, snapshots'[g] # <<>>
      PROVE  \E i \in Nat : IsLatest(snapshots'[g], i)
    BY DEF LatestExists
  <2>1. CASE g = h
    <3>1. snapshots'[h] = Append(snapshots[h], row) /\ snapshots[h] \in Seq(Snapshots)
      BY <1>2 DEF EngineInv, TypeOK
    <3>2. \E i \in Nat : IsLatest(Append(snapshots[h], row), i)
      BY <1>1, <3>1, LatestAfterAppend DEF EngineInv, LatestExists
    <3>. QED BY <2>1, <3>1, <3>2
  <2>2. CASE g # h
    BY <2>2, <1>2 DEF EngineInv, TypeOK, LatestExists
  <2>. QED BY <2>1, <2>2
<1>6. \A g \in Machines : g \in Machines'
  BY <1>1, <1>2 DEF EngineInv, TypeOK, Machines
<1>7. RowFacts'
  BY <1>3, <1>6 DEF EngineInv, RowFacts
<1>8. RowTimes' /\ ActiveAsAnnounced' /\ StreamFacts' /\ SentAtMostOnce' /\ DeliveredInOrder'
  BY <1>3 DEF EngineInv, RowTimes, ActiveAsAnnounced, StreamFacts, SentAtMostOnce, DeliveredInOrder
<1>9. ExclusiveAlerts'
  <2>1. \A u \in Workers : pc[u] = "spawned" => pc'[u] = "spawned"
    BY <1>2 DEF EngineInv, TypeOK, Tasks
  <2>. QED BY <1>3, <2>1 DEF EngineInv, ExclusiveAlerts
<1>. QED BY <1>4, <1>5, <1>7, <1>8, <1>9 DEF EngineInv

(* A crash empties the tasks' queues; if it left the rows of an evaluation  *)
(* incomplete, the evaluation at the start has yet to run.                  *)
LEMMA CrashKeepsInv ==
  ASSUME EngineInv, Crash
  PROVE  EngineInv'
<1> USE EngineAssumption
<1>1. /\ UNCHANGED <<now, snapshots, lastSeen, heardAt, delivered>>
      /\ queue' = [t \in Tasks |-> {}]
      /\ crashes' = crashes + 1 /\ webhook' = NoStatus
  BY DEF Crash, db
<1>2. /\ pc' \in [Tasks -> {"idle", "spawned", "sending", "dead"}]
      /\ \E t \in Workers : pc'[t] = "spawned"
  BY DEF Crash, Started, Tasks
<1>3. CASE UNCHANGED alerts
  <2>1. UNCHANGED <<active, firedAt, resolvedAt, details, announced, epoch, torn>>
    BY <1>3 DEF alerts
  <2>2. TypeOK'
    BY <1>1, <1>2, <2>1 DEF EngineInv, TypeOK, NoStatus
  <2>3. LatestExists' /\ RowFacts' /\ RowTimes' /\ ActiveAsAnnounced'
    BY <1>1, <2>1 DEF EngineInv, LatestExists, RowFacts, Machines, RowTimes, ActiveAsAnnounced
  <2>4. ExclusiveAlerts'
    BY <1>2, <2>1 DEF EngineInv, ExclusiveAlerts
  <2>5. StreamFacts' /\ SentAtMostOnce' /\ DeliveredInOrder'
    BY <1>1, <2>1 DEF EngineInv, StreamFacts, SentAtMostOnce, DeliveredInOrder
  <2>. QED BY <2>2, <2>3, <2>4, <2>5 DEF EngineInv
<1>4. CASE CutShort
  <2>1. PICK back, fire, clear : Writes(back, fire, clear)
    BY <1>4, CutShortWrites
  <2>2. torn' = TRUE
    BY <1>4 DEF CutShort
  <2>3. TypeOK'
    BY <1>1, <1>2, <2>1, <2>2, WriteKeepsTypes DEF EngineInv, TypeOK, NoStatus
  <2>4. LatestExists' /\ RowFacts' /\ RowTimes'
    BY <2>1, WriteKeepsRows
  <2>5. ActiveAsAnnounced' /\ StreamFacts' /\ SentAtMostOnce' /\ DeliveredInOrder'
    <3>1. Loop \in Tasks /\ \A u \in Tasks : queue'[u] = {}
      BY <1>1 DEF Tasks
    <3>. QED BY <2>1, <3>1, WriteKeepsStream
  <2>6. ExclusiveAlerts'
    <3>1. \A a \in active' : a[2] # "node_online"
      BY <2>1, WriteFacts
    <3>2. \A h \in Hosts : "node_online" \notin { k \in Kinds : <<h, k>> \in active' }
      BY <3>1
    <3>. QED BY <1>2, <2>2, <3>2 DEF ExclusiveAlerts
  <2>. QED BY <2>3, <2>4, <2>5, <2>6 DEF EngineInv
<1>. QED BY <1>3, <1>4 DEF Crash

LEMMA EngineInvStep == EngineInv /\ [Next]_vars => EngineInv'
<1> SUFFICES ASSUME EngineInv, [Next]_vars PROVE EngineInv'
  OBVIOUS
<1>1. CASE Tick
  <2>1. now' = now + 1 /\ now \in Nat
        /\ UNCHANGED <<snapshots, lastSeen, heardAt, active, firedAt, resolvedAt, details,
                       announced, epoch, torn, pc, queue, webhook, delivered, crashes>>
    BY <1>1 DEF Tick, db, alerts, EngineInv, TypeOK
  <2>2. TypeOK'
    BY <2>1 DEF EngineInv, TypeOK
  <2>3. RowFacts'
    BY <2>1 DEF EngineInv, TypeOK, RowFacts, Machines
  <2>4. LatestExists' /\ RowTimes' /\ ExclusiveAlerts'
    BY <2>1 DEF EngineInv, LatestExists, RowTimes, ExclusiveAlerts
  <2>5. ActiveAsAnnounced' /\ StreamFacts' /\ SentAtMostOnce' /\ DeliveredInOrder'
    BY <2>1 DEF EngineInv, ActiveAsAnnounced, StreamFacts, SentAtMostOnce, DeliveredInOrder
  <2>. QED BY <2>2, <2>3, <2>4, <2>5 DEF EngineInv
<1>2. ASSUME NEW h \in Hosts, NEW r \in Readings, NEW offset \in Offsets, NEW t \in Workers,
             Ingest(h, r, offset, t)
      PROVE  EngineInv'
  BY <1>2, IngestKeepsInv
<1>3. ASSUME NEW t \in Tasks, Evaluate(t) PROVE EngineInv'
  BY <1>3, EvaluateKeepsInv
<1>4. ASSUME NEW t \in Tasks, Send(t) PROVE EngineInv'
  BY <1>4, SendKeepsInv
<1>5. CASE TestWebhook \/ UNCHANGED vars
  <2>1. /\ UNCHANGED <<now, snapshots, lastSeen, heardAt, active, firedAt, resolvedAt, details,
                       announced, epoch, torn, pc, queue, delivered, crashes>>
        /\ webhook' \in [error : BOOLEAN, success : BOOLEAN]
    <3>1. CASE TestWebhook
      <4>1. webhook' \in [error : BOOLEAN, success : BOOLEAN]
        BY <3>1, StatusTypes DEF TestWebhook, EngineInv
      <4>. QED BY <3>1, <4>1 DEF TestWebhook, db, alerts
    <3>2. CASE UNCHANGED vars
      BY <3>2 DEF vars, db, alerts, EngineInv, TypeOK
    <3>. QED BY <1>5, <3>1, <3>2
  <2>2. TypeOK'
    BY <2>1 DEF EngineInv, TypeOK
  <2>3. LatestExists' /\ RowFacts'
    BY <2>1 DEF EngineInv, LatestExists, RowFacts, Machines
  <2>4. RowTimes' /\ ExclusiveAlerts'
    BY <2>1 DEF EngineInv, RowTimes, ExclusiveAlerts
  <2>5. ActiveAsAnnounced' /\ SentAtMostOnce'
    BY <2>1 DEF EngineInv, ActiveAsAnnounced, SentAtMostOnce
  <2>6. StreamFacts' /\ DeliveredInOrder'
    BY <2>1 DEF EngineInv, StreamFacts, DeliveredInOrder
  <2>. QED BY <2>2, <2>3, <2>4, <2>5, <2>6 DEF EngineInv
<1>6. CASE Crash
  BY <1>6, CrashKeepsInv
<1>. QED BY <1>1, <1>2, <1>3, <1>4, <1>5, <1>6 DEF Next

LEMMA EngineInvAlways == Spec => []EngineInv
BY EngineInvInit, EngineInvStep, PTL DEF Spec
-----------------------------------------------------------------------------
(***************************************************************************)
(* Theorems                                                                *)
(***************************************************************************)

(* The model is type correct.                                               *)
THEOREM EngineTypeCorrect == Spec => []TypeOK
<1>1. EngineInv => TypeOK
  BY DEF EngineInv
<1>. QED BY <1>1, EngineInvAlways, PTL

(* An alert is active exactly when the last event produced for it is Fired, *)
(* however evaluations, ingests, failures and restarts interleave.          *)
THEOREM EngineActiveAsAnnounced == Spec => []ActiveAsAnnounced
<1>1. EngineInv => ActiveAsAnnounced
  BY DEF EngineInv
<1>. QED BY <1>1, EngineInvAlways, PTL

(* No event is ever waiting in two tasks, or still waiting once delivered.  *)
THEOREM EngineSendsOnce == Spec => []SentAtMostOnce
<1>1. EngineInv => SentAtMostOnce
  BY DEF EngineInv
<1>. QED BY <1>1, EngineInvAlways, PTL

(* What was delivered of one evaluation is a prefix of its events.          *)
THEOREM EngineDeliversInOrder == Spec => []DeliveredInOrder
<1>1. EngineInv => DeliveredInOrder
  BY DEF EngineInv
<1>. QED BY <1>1, EngineInvAlways, PTL

(* The active alerts of a host never contradict each other, but for what a  *)
(* crash between two rows left, until the first evaluation after it.        *)
THEOREM EngineExclusive == Spec => []ExclusiveAlerts
<1>1. EngineInv => ExclusiveAlerts
  BY DEF EngineInv
<1>. QED BY <1>1, EngineInvAlways, PTL

(* The timestamps of a row agree with its active flag.                      *)
THEOREM EngineRowTimes == Spec => []RowTimes
<1>1. EngineInv => RowTimes
  BY DEF EngineInv
<1>. QED BY <1>1, EngineInvAlways, PTL

(* An alert that stays active keeps the time it was first fired at          *)
(* (upsert_active_alert).                                                   *)
THEOREM EngineKeepsFiredAt == Spec => FiredAtKept
<1>1. EngineInv /\ [Next]_vars =>
        [\A a \in active \cap active' : firedAt'[a] = firedAt[a]]_vars
  <2> SUFFICES ASSUME EngineInv, [Next]_vars, NEW a \in active \cap active'
      PROVE  firedAt'[a] = firedAt[a]
    OBVIOUS
  <2>1. CASE UNCHANGED alerts
    BY <2>1 DEF alerts
  <2>2. ASSUME NEW back, NEW fire, NEW clear, Writes(back, fire, clear)
        PROVE  firedAt'[a] = firedAt[a]
    <3>1. back \cap active = {} /\ a \in AlertIds
      BY <2>2, WriteFacts DEF EngineInv, TypeOK
    <3>2. firedAt'[a] = FiredAtAfter(a, fire, back)
      BY <2>2, <3>1 DEF Writes, Write
    <3>. QED BY <3>1, <3>2 DEF FiredAtAfter
  <2>. QED BY <2>1, <2>2, OnlyWritesChange
<1>. QED BY <1>1, EngineInvAlways, PTL DEF Spec, FiredAtKept

(* A task that no longer waits for its evaluation had it, or crashed.       *)
LEMMA EvaluatedByEvaluate ==
  ASSUME EngineInv, [Next]_vars, Evaluated PROVE \E t \in Tasks : Evaluate(t)
<1>0. /\ pc \in [Tasks -> {"idle", "spawned", "sending", "dead"}]
      /\ crashes \in Nat /\ crashes' = crashes
  BY DEF EngineInv, TypeOK, Evaluated
<1>1. ~Crash
  BY <1>0 DEF Crash
<1>2. CASE epoch' # epoch
  BY <1>1, <1>2, OnlyWritesChange DEF alerts
<1>3. ASSUME NEW t \in Tasks, pc[t] = "spawned", pc'[t] # "spawned",
             ~\E u \in Tasks : Evaluate(u)
      PROVE  FALSE
  <2>1. ASSUME NEW u \in Tasks, Send(u) PROVE FALSE
    <3>1. pc[u] = "sending" /\ \A v \in Tasks \ {u} : pc'[v] = pc[v]
      BY <1>0, <2>1
      DEF Send, PostEmbed, NextToSend, AllPosted, PostBatch, PostFails, Panics, Sending, Finish
    <3>. QED BY <1>3, <3>1
  <2>2. ASSUME NEW h \in Hosts, NEW r \in Readings, NEW offset \in Offsets, NEW u \in Workers,
               Ingest(h, r, offset, u)
        PROVE  FALSE
    BY <1>3, <1>0, <2>2 DEF Ingest, Tasks
  <2>3. CASE Tick \/ TestWebhook \/ UNCHANGED vars
    BY <1>3, <2>3 DEF Tick, TestWebhook, vars
  <2>. QED BY <1>1, <1>3, <2>1, <2>2, <2>3 DEF Next
<1>. QED BY <1>2, <1>3 DEF Evaluated

(* After the evaluation of an ingest, and every one that wrote rows and was *)
(* not cut by a crash, the table is exactly the farm as the rules see it    *)
(* (runAlertEvaluation).                                                    *)
THEOREM EngineSettles == Spec => EvaluationSettles
<1>1. EngineInv /\ [Next]_vars =>
        [Evaluated =>
           /\ active' = { a \in Candidates : a[2] # "node_online" }
           /\ \A a \in active' : details'[a] = DetailsOf(a)]_vars
  <2> SUFFICES ASSUME EngineInv, [Next]_vars, Evaluated
      PROVE  /\ active' = { a \in Candidates : a[2] # "node_online" }
             /\ \A a \in active' : details'[a] = DetailsOf(a)
    OBVIOUS
  <2>1. PICK t \in Tasks : Evaluate(t)
    BY EvaluatedByEvaluate
  <2> DEFINE fire == ToFire(Candidates)
  <2>2. /\ active' = { a \in Candidates : a[2] # "node_online" }
        /\ Candidates \subseteq AlertIds
        /\ \A a \in AlertIds : details'[a] = IF a \in fire THEN DetailsOf(a) ELSE details[a]
    <3>1. details' = [a \in AlertIds |-> IF a \in fire THEN DetailsOf(a) ELSE details[a]]
      BY <2>1 DEF Evaluate, Write
    <3>2. Candidates \subseteq AlertIds
      BY CandidateFacts DEF EngineInv
    <3>. QED BY <2>1, <3>1, <3>2, EvaluateFacts
  <2>3. ASSUME NEW a \in active' PROVE details'[a] = DetailsOf(a)
    <3>1. a \in Candidates /\ a \in AlertIds /\ a[2] # "node_online"
      BY <2>2
    <3>2. details'[a] = IF a \in fire THEN DetailsOf(a) ELSE details[a]
      BY <2>2, <3>1
    <3>3. CASE a \notin fire
      <4>1. a \in active /\ (a[2] = "fah_errors" => DetailsOf(a) = details[a])
        BY <3>1, <3>3 DEF ToFire
      <4>2. a[2] # "fah_errors" => details[a] = NoErrors /\ DetailsOf(a) = NoErrors
        BY <4>1 DEF EngineInv, RowFacts, DetailsOf
      <4>. QED BY <3>2, <3>3, <4>1, <4>2
    <3>. QED BY <3>2, <3>3
  <2>. QED BY <2>2, <2>3
<1>. QED BY <1>1, EngineInvAlways, PTL DEF Spec, EvaluationSettles

(* What recovers in an evaluation is what its offline alerts announce when  *)
(* they end.                                                                *)
LEMMA RecoveredFacts ==
  ASSUME EngineInv
  PROVE  Recovered(Candidates) = Ledger!RecoveriesOf(ToResolve(Candidates))
<1> DEFINE cand == Candidates
           clear == ToResolve(cand)
           back == Recovered(cand)
           Rec == [a \in AlertIds |->
                     IF a[2] = "node_offline" THEN {<<a[1], "node_online">>} ELSE {}]
<1>1. active \subseteq AlertIds /\ \A a \in active : a[1] \in Machines
  BY DEF EngineInv, TypeOK, RowFacts
<1>2. clear \subseteq active /\ clear \cap cand = {} /\ back \subseteq cand
  BY DEF ToResolve, Recovered
<1>3. ASSUME NEW b \in back PROVE \E a \in clear : b \in Rec[a]
  <2>1. b[1] \in Machines /\ b[2] = "node_online" /\ b[2] \in EvaluateMachine(b[1]) /\ b \in AlertIds
    BY <1>2, CandidateFacts DEF Recovered, EngineInv
  <2>2. IsOnline(b[1]) /\ WasOffline(b[1])
    BY <2>1 DEF EvaluateMachine, Holds
  <2>3. "node_offline" \notin EvaluateMachine(b[1])
    BY <2>2 DEF EvaluateMachine, Holds
  <2>4. <<b[1], "node_offline">> \notin cand
    BY <2>3, CandidateFacts DEF EngineInv
  <2>5. <<b[1], "node_offline">> \in clear
    BY <2>2, <2>4 DEF ToResolve, WasOffline
  <2>6. b = <<b[1], "node_online">>
    BY <2>1 DEF AlertIds
  <2>. QED BY <1>1, <1>2, <2>5, <2>6
<1>4. ASSUME NEW a \in clear, NEW b \in Rec[a] PROVE b \in back
  <2>1. a \in AlertIds /\ a \in active /\ a[2] = "node_offline" /\ b = <<a[1], "node_online">>
    BY <1>1, <1>2, <1>4
  <2>2. a[1] \in Machines /\ a = <<a[1], "node_offline">> /\ a[1] \in Hosts
    BY <1>1, <2>1 DEF AlertIds
  <2>3. "node_offline" \notin EvaluateMachine(a[1])
    BY <1>2, <2>2, CandidateFacts DEF EngineInv, Kinds
  <2>4. IsOnline(a[1]) /\ WasOffline(a[1])
    BY <2>1, <2>2, <2>3 DEF EvaluateMachine, WasOffline
  <2>5. "node_online" \in EvaluateMachine(a[1]) /\ "node_online" \in Kinds
    BY <2>4 DEF EvaluateMachine, Kinds
  <2>6. <<a[1], "node_online">> \in cand
    BY <2>2, <2>5, CandidateFacts DEF EngineInv
  <2>. QED BY <2>1, <2>6 DEF Recovered
<1>5. back = UNION { Rec[a] : a \in clear }
  BY <1>3, <1>4
<1>. QED BY <1>5 DEF Ledger!RecoveriesOf

(* What is written is announced, each change by one event.                  *)
LEMMA WriteIsAnnounced ==
  ASSUME EngineInv, NEW back, NEW fire, NEW clear, Writes(back, fire, clear),
         NotifyEvents(back, fire, clear) # {}
  PROVE  Ledger!Announce /\ Ledger!Announces("Recovery") = back /\ Ledger!Cleared = clear
<1> DEFINE cand == Candidates
           new == NotifyEvents(back, fire, clear)
           Ids(type) == { e.id : e \in { f \in announced' \ announced : f.type = type } }
<1>1. /\ fire \subseteq cand /\ cand \subseteq AlertIds
      /\ clear \subseteq active /\ clear \cap cand = {}
      /\ active' = (active \ clear) \cup fire
      /\ announced' = announced \cup new
      /\ epoch' = epoch + 1
      /\ delivered' = delivered
  BY WriteFacts DEF Writes
<1>2. /\ \A e \in new : e.epoch = epoch + 1
      /\ \A e \in new : \/ e.type = "Fired" /\ e.id \in fire
                        \/ e.type = "Resolved" /\ e.id \in clear
                        \/ e.type = "Recovery" /\ e.id \in back
      /\ \A a \in fire : Event("Fired", a, DetailsOf(a)) \in new
      /\ \A a \in clear : Event("Resolved", a, NoErrors) \in new
      /\ \A a \in back : Event("Recovery", a, NoErrors) \in new
      /\ \A e, f \in new : e.type = f.type /\ e.id = f.id => e = f
  BY EventFacts
<1>3. \A e \in new : e \notin announced
  BY <1>2 DEF EngineInv, TypeOK, Events, StreamFacts
<1>4. announced' \ announced = new
  BY <1>1, <1>3
<1>5. \A type, a, text : Event(type, a, text).id = a /\ Event(type, a, text).type = type
  BY DEF Event
<1>6. Ids("Fired") = fire
  <2>1. \A a \in fire : a \in Ids("Fired")
    <3> SUFFICES ASSUME NEW a \in fire PROVE a \in Ids("Fired")
      OBVIOUS
    <3>. QED BY <1>2, <1>4, <1>5
  <2>2. Ids("Fired") \subseteq fire
    BY <1>2, <1>4
  <2>. QED BY <2>1, <2>2
<1>7. Ids("Resolved") = clear
  <2>1. \A a \in clear : a \in Ids("Resolved")
    <3> SUFFICES ASSUME NEW a \in clear PROVE a \in Ids("Resolved")
      OBVIOUS
    <3>. QED BY <1>2, <1>4, <1>5
  <2>2. Ids("Resolved") \subseteq clear
    BY <1>2, <1>4
  <2>. QED BY <2>1, <2>2
<1>8. Ids("Recovery") = back
  <2>1. \A a \in back : a \in Ids("Recovery")
    <3> SUFFICES ASSUME NEW a \in back PROVE a \in Ids("Recovery")
      OBVIOUS
    <3>. QED BY <1>2, <1>4, <1>5
  <2>2. Ids("Recovery") \subseteq back
    BY <1>2, <1>4
  <2>. QED BY <2>1, <2>2
<1>9. active \subseteq AlertIds
  BY DEF EngineInv, TypeOK
<1>10. active \ active' = clear /\ active' \ active = fire \ active /\ active' \subseteq AlertIds
  BY <1>1, <1>9
<1>11. fire \cap active \subseteq { a \in AlertIds : a[2] = "fah_errors" }
  BY <1>1 DEF Writes, ToFire
<1>12. /\ \A e, f \in announced' \ announced : e.type = f.type /\ e.id = f.id => e = f
       /\ \A e \in announced' \ announced : e.epoch = epoch'
  BY <1>1, <1>2, <1>4
<1>13. /\ active' \ active \subseteq Ids("Fired")
       /\ Ids("Fired") \ (active' \ active) \subseteq
            { a \in AlertIds : a[2] = "fah_errors" } \cap active \cap active'
  BY <1>1, <1>6, <1>10, <1>11
<1>14. Ids("Resolved") = active \ active'
  BY <1>7, <1>10
<1>15. Ledger!Announce
  BY <1>1, <1>10, <1>12, <1>13, <1>14 DEF Ledger!Announce, Ledger!Announces, Ledger!Cleared
<1>. QED BY <1>8, <1>10, <1>15 DEF Ledger!Announces, Ledger!Cleared

(* An evaluation is one change of the ledger, or none of its steps.         *)
LEMMA EvaluateIsChange ==
  ASSUME EngineInv, NEW t \in Tasks, Evaluate(t)
  PROVE  Ledger!Change \/ UNCHANGED Ledger!vars
<1> DEFINE back == Recovered(Candidates)
           fire == ToFire(Candidates)
           clear == ToResolve(Candidates)
<1>1. Writes(back, fire, clear) /\ UNCHANGED <<delivered, crashes>>
  BY EvaluateWrites DEF Evaluate
<1>2. CASE NotifyEvents(back, fire, clear) = {}
  <2>1. /\ active' = (active \ clear) \cup fire
        /\ announced' = announced \cup NotifyEvents(back, fire, clear)
        /\ epoch' = epoch /\ clear = {} /\ fire = {}
    BY <1>1, <1>2, WriteFacts
  <2>. QED BY <1>1, <1>2, <2>1 DEF Ledger!vars
<1>3. CASE NotifyEvents(back, fire, clear) # {}
  <2>1. /\ Ledger!Announce /\ Ledger!Announces("Recovery") = back
        /\ Ledger!Cleared = clear
    BY <1>1, <1>3, WriteIsAnnounced
  <2>2. back = Ledger!RecoveriesOf(clear)
    BY RecoveredFacts
  <2>. QED BY <1>1, <2>1, <2>2 DEF Ledger!Change
<1>. QED BY <1>2, <1>3

(* A crash is one of the ledger: what it cuts loses no recovery, and none   *)
(* that it announces early belongs to no offline alert.                     *)
LEMMA CrashIsCrash ==
  ASSUME EngineInv, Crash
  PROVE  Ledger!Crash
<1>1. crashes' = crashes + 1 /\ delivered' = delivered
  BY DEF Crash
<1>2. CASE UNCHANGED alerts
  BY <1>1, <1>2 DEF alerts, Ledger!Crash
<1>3. CASE CutShort
  <2>1. PICK back, fire, clear :
          /\ Writes(back, fire, clear)
          /\ NotifyEvents(back, fire, clear) # {}
          /\ clear # {} => back = Recovered(Candidates)
    BY <1>3, CutShortWrites
  <2>2. /\ Ledger!Announce /\ Ledger!Announces("Recovery") = back
        /\ Ledger!Cleared = clear
    BY <2>1, WriteIsAnnounced
  <2>3. /\ back \subseteq Ledger!RecoveriesOf(ToResolve(Candidates))
        /\ clear # {} => back = Ledger!RecoveriesOf(ToResolve(Candidates))
        /\ clear \subseteq ToResolve(Candidates) /\ ToResolve(Candidates) \subseteq active
    BY <2>1, RecoveredFacts DEF Writes, ToResolve
  <2>4. \A S, T : S \subseteq T => Ledger!RecoveriesOf(S) \subseteq Ledger!RecoveriesOf(T)
    BY DEF Ledger!RecoveriesOf
  <2>5. Ledger!RecoveriesOf(clear) \subseteq back
    <3>1. CASE clear = {}
      <4>1. Ledger!RecoveriesOf({}) = {}
        BY DEF Ledger!RecoveriesOf
      <4>. QED BY <3>1, <4>1
    <3>. QED BY <2>3, <2>4, <3>1
  <2>6. back \subseteq Ledger!RecoveriesOf(active)
    BY <2>3, <2>4
  <2>. QED BY <1>1, <2>2, <2>5, <2>6 DEF Ledger!Crash
<1>. QED BY <1>2, <1>3 DEF Crash

(* A message that is accepted is a delivery; the other steps of a task      *)
(* deliver nothing.                                                         *)
LEMMA SendIsDelivery ==
  ASSUME EngineInv, NEW t \in Tasks, Send(t)
  PROVE  Ledger!Deliver \/ UNCHANGED Ledger!vars
<1>1. queue[t] \subseteq announced /\ delivered \subseteq announced
  BY DEF EngineInv, SentAtMostOnce, StreamFacts
<1>2. ASSUME NEW e \in queue[t], PostEmbed(t, e) PROVE Ledger!Deliver
  BY <1>1, <1>2 DEF PostEmbed, alerts, Ledger!Deliver
<1>3. ASSUME NEW kept \in SUBSET queue[t], PostBatch(t, kept) PROVE Ledger!Deliver
  BY <1>1, <1>3 DEF PostBatch, alerts, Ledger!Deliver
<1>4. ASSUME UNCHANGED <<alerts, delivered, crashes>> PROVE UNCHANGED Ledger!vars
  BY <1>4 DEF alerts, Ledger!vars
<1>. QED BY <1>2, <1>3, <1>4 DEF Send, AllPosted, PostFails, Panics

(* The engine keeps every promise of AlertLedger: the table, the            *)
(* announcements and the deliveries agree, also when a crash cuts an        *)
(* evaluation between two rows (run_alert_evaluation,                       *)
(* send_alert_notifications).                                               *)
THEOREM EngineImplementsLedger == Spec => LedgerSpec
<1>1. Init => Ledger!Init
  BY DEF Init, Ledger!Init
<1>2. EngineInv /\ [Next]_vars => [Ledger!Next]_(Ledger!vars)
  <2> SUFFICES ASSUME EngineInv, [Next]_vars PROVE Ledger!Next \/ UNCHANGED Ledger!vars
    OBVIOUS
  <2>1. ASSUME NEW t \in Tasks, Evaluate(t) PROVE Ledger!Next \/ UNCHANGED Ledger!vars
    BY <2>1, EvaluateIsChange DEF Ledger!Next
  <2>2. ASSUME NEW t \in Tasks, Send(t) PROVE Ledger!Next \/ UNCHANGED Ledger!vars
    BY <2>2, SendIsDelivery DEF Ledger!Next
  <2>3. ASSUME UNCHANGED <<alerts, delivered, crashes>> PROVE UNCHANGED Ledger!vars
    BY <2>3 DEF alerts, Ledger!vars
  <2>4. CASE Crash
    BY <2>4, CrashIsCrash DEF Ledger!Next
  <2>5. \/ \E t \in Tasks : Evaluate(t) \/ Send(t)
        \/ Crash
        \/ UNCHANGED <<alerts, delivered, crashes>>
    BY DEF Next, vars, Tick, Ingest, TestWebhook
  <2>. QED BY <2>1, <2>2, <2>3, <2>4, <2>5
<1>. QED BY <1>1, <1>2, EngineInvAlways, PTL DEF Spec, LedgerSpec, Ledger!Spec
-----------------------------------------------------------------------------
(* The last report of a host was stamped with one of the offsets.           *)
Stamped ==
  \A h \in Hosts : lastSeen[h] # Never =>
    heardAt[h] # Never /\ \E o \in Offsets : lastSeen[h] = heardAt[h] + o

LEMMA StampedStep == EngineInv /\ Stamped /\ [Next]_vars => Stamped'
<1> SUFFICES ASSUME EngineInv, Stamped, [Next]_vars PROVE Stamped'
  OBVIOUS
<1>1. now \in Nat /\ lastSeen \in [Hosts -> Int \cup {Never}] /\ heardAt \in [Hosts -> Nat \cup {Never}]
  BY DEF EngineInv, TypeOK
<1>2. ASSUME NEW h \in Hosts, NEW r \in Readings, NEW offset \in Offsets, NEW t \in Workers,
             Ingest(h, r, offset, t)
      PROVE  Stamped'
  <2>1. /\ lastSeen' = [lastSeen EXCEPT ![h] = now + offset]
        /\ heardAt' = [heardAt EXCEPT ![h] = now]
    BY <1>2 DEF Ingest
  <2>. QED BY <1>1, <2>1, EngineAssumption DEF Stamped
<1>3. CASE UNCHANGED db
  BY <1>3 DEF db, Stamped
<1>4. ASSUME NEW t \in Tasks, Evaluate(t) \/ Send(t) PROVE UNCHANGED db
  BY <1>4 DEF Evaluate, Send, PostEmbed, AllPosted, PostBatch, PostFails, Panics
<1>. QED BY <1>2, <1>3, <1>4 DEF Next, vars, Tick, TestWebhook, Crash

(* What is newly active was a candidate.                                    *)
LEMMA RaisedIsCandidate ==
  ASSUME EngineInv, [Next]_vars, NEW a \in active' \ active
  PROVE  a \in Candidates /\ a[1] \in Machines /\ a[2] \in EvaluateMachine(a[1])
<1>1. PICK back, fire, clear : Writes(back, fire, clear)
  BY OnlyWritesChange DEF alerts
<1>2. a \in Candidates
  BY <1>1, WriteFacts
<1>. QED BY <1>2, CandidateFacts DEF EngineInv

(* Every host that is declared offline was silent for the threshold less    *)
(* the lag of its reports; the crates also declare one offline whose report *)
(* is ahead of the supervisor's clock (isOnline, evaluateMachine).          *)
THEOREM EngineNoFalseOffline == Spec => NoFalseOffline
<1>1. Init => Stamped
  BY EngineAssumption DEF Init, Stamped
<1>2. EngineInv /\ Stamped /\ [Next]_vars =>
        [\A h \in Hosts :
           <<h, "node_offline">> \in active' \ active =>
             \E o \in Offsets :
               now - heardAt[h] >= Threshold + o \/ (Crates /\ now - heardAt[h] < o)]_vars
  <2> SUFFICES ASSUME EngineInv, Stamped, [Next]_vars, NEW h \in Hosts,
                      <<h, "node_offline">> \in active' \ active
      PROVE  \E o \in Offsets :
               now - heardAt[h] >= Threshold + o \/ (Crates /\ now - heardAt[h] < o)
    OBVIOUS
  <2>1. h \in Machines /\ "node_offline" \in EvaluateMachine(h)
    BY RaisedIsCandidate
  <2>2. lastSeen[h] # Never /\ ~IsOnline(h)
    BY <2>1 DEF EvaluateMachine, Holds, Machines
  <2>3. PICK o \in Offsets : lastSeen[h] = heardAt[h] + o
    BY <2>2 DEF Stamped
  <2>4. heardAt[h] \in Nat /\ now \in Nat /\ o \in Int
    BY <2>2, EngineAssumption DEF EngineInv, TypeOK, Stamped
  <2>. QED BY <2>2, <2>3, <2>4, EngineAssumption DEF IsOnline
<1>3. Spec => []Stamped
  BY <1>1, StampedStep, EngineInvAlways, PTL DEF Spec
<1>. QED BY <1>2, <1>3, EngineInvAlways, PTL DEF Spec, NoFalseOffline

(* A host that is declared stuck showed the same progress in all reports of *)
(* a stretch as long as promised (detectStuckProgress).                     *)
THEOREM EngineStuckMeansStill == Spec => StuckMeansStill
<1> DEFINE Still(h) ==
      LET rows == snapshots[h]
          folding == { i \in DOMAIN rows :
                         rows[i].svc = "active" /\ rows[i].progress >= MinProgress }
      IN  \E first, last \in folding :
            /\ \A i \in DOMAIN rows : rows[i].at <= rows[last].at
            /\ 100 * (rows[last].at - rows[first].at) >= SpanPercent * StuckPeriod
            /\ \A i \in folding :
                  rows[i].at >= rows[first].at =>
                    /\ rows[i].progress - rows[last].progress <= Epsilon
                    /\ rows[last].progress - rows[i].progress <= Epsilon
<1>1. EngineInv /\ [Next]_vars =>
        [\A h \in Hosts : <<h, "fah_stuck">> \in active' \ active => Still(h)]_vars
  <2> SUFFICES ASSUME EngineInv, [Next]_vars, NEW h \in Hosts,
                      <<h, "fah_stuck">> \in active' \ active
      PROVE  Still(h)
    OBVIOUS
  <2> DEFINE rows == snapshots[h]
             last == Latest(rows)
             since == now - StuckPeriod
             window == Window(rows, since, StuckPeriod)
             folding == { i \in DOMAIN rows :
                            rows[i].svc = "active" /\ rows[i].progress >= MinProgress }
  <2>1. "fah_stuck" \in EvaluateMachine(h)
    BY RaisedIsCandidate
  <2>2. rows # <<>> /\ StuckProgress(rows, since, StuckPeriod)
    BY <2>1 DEF EvaluateMachine, Holds
  <2>3. IsLatest(rows, last)
    <3>1. PICK i \in Nat : IsLatest(rows, i)
      BY <2>2 DEF EngineInv, LatestExists
    <3>2. i \in DOMAIN rows
      BY <3>1 DEF IsLatest
    <3>. QED BY <3>1, <3>2 DEF Latest
  <2>4. /\ \A i \in DOMAIN rows : rows[i].at \in Int /\ rows[i].progress \in Int
        /\ now \in Nat /\ last \in DOMAIN rows
    <3>1. rows \in Seq(Snapshots) /\ now \in Nat
      BY DEF EngineInv, TypeOK
    <3>2. \A i \in DOMAIN rows : rows[i] \in Snapshots
      BY <3>1
    <3>. QED BY <2>3, <3>1, <3>2 DEF Snapshots, NoProgress, IsLatest
  <2>5. \A i \in DOMAIN rows : rows[i].at <= rows[last].at
    BY <2>3, <2>4 DEF IsLatest
  <2>6. /\ rows[last].at >= since /\ rows[last].svc = "active"
        /\ rows[last].progress # NoProgress /\ rows[last].progress >= MinProgress
        /\ \A i, j \in window : rows[i].progress - rows[j].progress <= Epsilon
    BY <2>2 DEF StuckProgress
  <2>7. PICK first \in window : 100 * (rows[last].at - rows[first].at) >= StuckPeriod * SpanPercent
    BY <2>2 DEF StuckProgress
  <2>8. last \in window /\ last \in folding /\ first \in folding
    BY <2>4, <2>6, EngineAssumption DEF Window
  <2>9. ASSUME NEW i \in folding, rows[i].at >= rows[first].at PROVE i \in window
    <3>1. rows[first].at >= since /\ rows[first].at >= rows[last].at - StuckPeriod
      BY DEF Window
    <3>2. rows[i].progress # NoProgress
      BY <2>4, StuckAssumption DEF NoProgress
    <3>3. first \in DOMAIN rows
      BY DEF Window
    <3>. QED BY <2>4, <2>9, <3>1, <3>2, <3>3, EngineAssumption DEF Window
  <2>10. \A i \in folding :
           rows[i].at >= rows[first].at =>
             /\ rows[i].progress - rows[last].progress <= Epsilon
             /\ rows[last].progress - rows[i].progress <= Epsilon
    BY <2>6, <2>8, <2>9
  <2>11. 100 * (rows[last].at - rows[first].at) >= SpanPercent * StuckPeriod
    BY <2>7, StuckAssumption, EngineAssumption
  <2>. QED BY <2>5, <2>8, <2>10, <2>11
<1>. QED BY <1>1, EngineInvAlways, PTL DEF Spec, StuckMeansStill
-----------------------------------------------------------------------------
(* Only a task that is sending has something to send.                       *)
QueuesOfSenders == \A t \in Tasks : queue[t] # {} => pc[t] = "sending"

LEMMA QueuesStep == EngineInv /\ QueuesOfSenders /\ [Next]_vars => QueuesOfSenders'
<1> SUFFICES ASSUME EngineInv, QueuesOfSenders, [Next]_vars PROVE QueuesOfSenders'
  OBVIOUS
<1> USE DEF QueuesOfSenders
<1>0. /\ pc \in [Tasks -> {"idle", "spawned", "sending", "dead"}]
      /\ queue \in [Tasks -> SUBSET Events]
  BY DEF EngineInv, TypeOK
<1>1. CASE UNCHANGED <<pc, queue>>
  BY <1>1
<1>2. ASSUME NEW h \in Hosts, NEW r \in Readings, NEW offset \in Offsets, NEW t \in Workers,
             Ingest(h, r, offset, t)
      PROVE  QueuesOfSenders'
  BY <1>0, <1>2 DEF Ingest, Tasks
<1>3. ASSUME NEW t \in Tasks, Evaluate(t) PROVE QueuesOfSenders'
  <2>1. \E send \in BOOLEAN : \E new :
          /\ pc' = [pc EXCEPT ![t] = IF send THEN "sending" ELSE "idle"]
          /\ queue' = [queue EXCEPT ![t] = IF send THEN new ELSE {}]
    BY <1>3 DEF Evaluate
  <2>. QED BY <1>0, <2>1
<1>4. ASSUME NEW t \in Tasks, Send(t) PROVE QueuesOfSenders'
  BY <1>0, <1>4 DEF Send, PostEmbed, AllPosted, PostBatch, PostFails, Panics, Finish, NextToSend,
                    Sending
<1>5. CASE Crash
  BY <1>5 DEF Crash
<1>. QED BY <1>1, <1>2, <1>3, <1>4, <1>5 DEF Next, vars, Tick, TestWebhook

(* Events that reach nobody leave a last_error: always in Node, in the      *)
(* crates for a webhook that is not Discord's and whose error texts can be  *)
(* cut (sendAlertNotifications).                                            *)
ErrorsReach == ~Crates \/ (Webhook = "batch" /\ ~WideReplies)

THEOREM EngineRecordsFailure == ErrorsReach => (Spec => FailureRecorded)
<1> SUFFICES ASSUME ErrorsReach PROVE Spec => FailureRecorded
  OBVIOUS
<1> DEFINE Recorded == \A t \in Tasks :
       (/\ queue[t] # {} /\ queue'[t] = {} /\ delivered' = delivered
        /\ ~TooLong(t) /\ crashes' = crashes) => webhook'.error
<1>1. Init => QueuesOfSenders
  BY DEF Init, QueuesOfSenders
<1>2. EngineInv /\ QueuesOfSenders /\ [Next]_vars => QueuesOfSenders'
  BY QueuesStep
<1>3. EngineInv /\ QueuesOfSenders /\ [Next]_vars => Recorded
  <2> SUFFICES ASSUME EngineInv, QueuesOfSenders, [Next]_vars, NEW t \in Tasks,
                      queue[t] # {}, queue'[t] = {}, delivered' = delivered, ~TooLong(t),
                      crashes' = crashes
      PROVE  webhook'.error
    OBVIOUS
  <2>1. /\ pc[t] = "sending" /\ queue[t] \cap delivered = {}
        /\ webhook \in [error : BOOLEAN, success : BOOLEAN]
        /\ queue \in [Tasks -> SUBSET Events] /\ crashes \in Nat
    BY DEF QueuesOfSenders, EngineInv, SentAtMostOnce, TypeOK
  <2>2. queue' # queue
    OBVIOUS
  <2>3. ASSUME NEW u \in Tasks, Evaluate(u) PROVE FALSE
    <3>1. u # t
      BY <2>1, <2>3 DEF Evaluate, Due
    <3>2. \E q : queue' = [queue EXCEPT ![u] = q]
      BY <2>3 DEF Evaluate
    <3>. QED BY <2>1, <3>1, <3>2
  <2>4. ASSUME NEW u \in Tasks, Send(u) PROVE webhook'.error
    <3>1. CASE u # t
      <4>1. \E q : queue' = [queue EXCEPT ![u] = q]
        BY <2>4 DEF Send, PostEmbed, AllPosted, PostBatch, PostFails, Panics, Finish
      <4>. QED BY <2>1, <3>1, <4>1
    <3>2. CASE u = t
      <4>1. ASSUME NEW e \in queue[t], PostEmbed(t, e) PROVE FALSE
        BY <2>1, <4>1 DEF PostEmbed
      <4>2. ~AllPosted(t)
        BY DEF AllPosted
      <4>3. ASSUME NEW kept \in SUBSET queue[t], PostBatch(t, kept) PROVE FALSE
        <5>1. kept = queue[t] /\ delivered' = delivered \cup kept
          BY <4>3 DEF PostBatch
        <5>. QED BY <2>1, <5>1
      <4>4. CASE PostFails(t)
        <5>1. Failed
          BY <4>4 DEF PostFails, ErrorsReach
        <5>. QED BY <2>1, <5>1 DEF Failed
      <4>5. ~Panics(t)
        BY DEF Panics, ErrorsReach
      <4>. QED BY <2>4, <3>2, <4>1, <4>2, <4>3, <4>4, <4>5 DEF Send
    <3>. QED BY <3>1, <3>2
  <2>5. ~Crash
    BY <2>1 DEF Crash
  <2>. QED BY <2>2, <2>3, <2>4, <2>5 DEF Next, vars, Tick, Ingest, TestWebhook
<1>4. Spec => []QueuesOfSenders
  BY <1>1, <1>2, EngineInvAlways, PTL DEF Spec
<1>5. Spec => [][Recorded]_vars
  BY <1>3, <1>4, EngineInvAlways, PTL DEF Spec
<1>. QED BY <1>5 DEF FailureRecorded
==============================================================================
