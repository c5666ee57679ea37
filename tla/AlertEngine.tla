----------------------------- MODULE AlertEngine -----------------------------
(***************************************************************************)
(* Ingest, alert evaluation and notification in the FoldOps supervisor     *)
(* (apps/supervisor/src: routes.ts, db.ts, alerts/*.ts, server.ts, and its *)
(* port crates/foldops-supervisor; Crates says which of the two).          *)
(*                                                                         *)
(* Agents post snapshots.  Each accepted one starts an evaluation of the   *)
(* whole farm; the 60 s timer does the same.  An evaluation reads and      *)
(* writes the database without letting go of it (Node: one turn of the     *)
(* event loop, the crates: one mutex), so for everything else that runs it *)
(* is one step; but each row is a statement that commits by itself, so a   *)
(* crash may leave any first part of the rows (CutShort).  What it decided *)
(* to notify is then sent, one POST per step, while others ingest and      *)
(* evaluate.  The database survives a crash of the supervisor, its tasks   *)
(* and the webhook status do not.  Statements that fail are not modelled.  *)
(* Definitions marked "faulty" are what the code does not do: each         *)
(* replaces the definition that follows it to see that a property notices. *)
(* An evaluation with ALERTS_ENABLED off changes nothing and is not        *)
(* modelled; neither are rejected ingests (401, 403, 400, 500).            *)
(* first_seen is the timestamp of a host's first snapshot and is not a     *)
(* variable.                                                               *)
(***************************************************************************)
EXTENDS StuckDetect

CONSTANTS
  Crates,         \* TRUE: the Rust supervisor, FALSE: the Node.js supervisor
  Hosts,          \* hostnames
  Workers,        \* evaluations started by ingests that may be under way at once
  Loop,           \* the evaluation of the 60 s timer
  Readings,       \* what a snapshot may report: [svc, progress, hot, errors]
  NoErrors,       \* the errors of a reading without FAH log errors
  WideDetails,    \* error texts on which truncate() cuts a UTF-8 character: it panics
  WideReplies,    \* may the webhook refuse with a body on which truncate() panics
  Offsets,        \* a report's timestamp minus the supervisor's clock at its arrival:
                  \* below 0 by the time the post took, either way by the clocks
  Threshold,      \* OFFLINE_THRESHOLD_MS
  StuckPeriod,    \* ALERT_STUCK_HOURS, 0 turns the rule off
  Webhook,        \* "none", "discord" or "batch" (any other URL)
  BatchLimit,     \* events whose lines fit the 1900 bytes of a batch message
  MaxTime,        \* bound: supervisor clock
  MaxIngests,     \* bound: snapshots per host
  MaxCrashes,     \* bound: crashes of the supervisor
  Never           \* SQL NULL in a timestamp column

Services == {"active", "inactive", "failed", "unknown"}
Tasks == Workers \cup {Loop}

ASSUME EngineAssumption ==
  /\ Crates \in BOOLEAN
  /\ Loop \notin Workers /\ Workers # {}
  /\ \A r \in Readings :
        /\ DOMAIN r = {"svc", "progress", "hot", "errors"}
        /\ r.svc \in Services /\ r.progress \in Nat \cup {NoProgress} /\ r.hot \in BOOLEAN
  /\ Offsets \subseteq Int /\ WideReplies \in BOOLEAN
  /\ Threshold \in Nat \ {0} /\ StuckPeriod \in Nat
  /\ Webhook \in {"none", "discord", "batch"}
  /\ {BatchLimit, MaxTime, MaxIngests, MaxCrashes} \subseteq Nat
  /\ Never \notin Int

Kinds == {"node_offline", "node_online", "cpu_temp_high", "fah_inactive",
          "fah_failed", "fah_errors", "fah_stuck"}
AlertIds == Hosts \X Kinds
Errors == { r.errors : r \in Readings } \cup {NoErrors}
Snapshots == [at : Int, svc : Services, progress : Nat \cup {NoProgress},
              hot : BOOLEAN, errors : Errors]
Events == [epoch : Nat, type : {"Recovery", "Fired", "Resolved"},
           id : AlertIds, details : Errors]

VARIABLES
  now,          \* the supervisor's clock
  snapshots,    \* snapshots[h]: table snapshots, rows of h in insertion order
  lastSeen,     \* machines.last_seen, Never while h has no row
  active,       \* ids of the rows of table alerts with active = 1
  firedAt,      \* alerts.fired_at, Never while the row does not exist
  resolvedAt,   \* alerts.resolved_at
  details,      \* alerts.details
  pc,           \* pc[t]: "idle", "spawned", "sending", "dead"
  queue,        \* queue[t]: the notify events task t has yet to send
  webhook,      \* WEBHOOK_STATUS: are [error: last_error, success: last_success_at] set
  announced,    \* history: every notify event whose row was written
  epoch,        \* history: number of evaluations that wrote rows
  torn,         \* history: a crash cut an evaluation, and none ran since
  delivered,    \* history: events in a message the webhook accepted
  heardAt,      \* history: supervisor time of the last ingest of a host
  crashes       \* history: crashes so far

db == <<snapshots, lastSeen, heardAt>>
alerts == <<active, firedAt, resolvedAt, details, announced, epoch, torn>>
vars == <<now, db, alerts, pc, queue, webhook, delivered, crashes>>

TypeOK ==
  /\ now \in Nat
  /\ snapshots \in [Hosts -> Seq(Snapshots)]
  /\ lastSeen \in [Hosts -> Int \cup {Never}]
  /\ active \subseteq AlertIds
  /\ firedAt \in [AlertIds -> Nat \cup {Never}]
  /\ resolvedAt \in [AlertIds -> Nat \cup {Never}]
  /\ details \in [AlertIds -> Errors]
  /\ pc \in [Tasks -> {"idle", "spawned", "sending", "dead"}]
  /\ queue \in [Tasks -> SUBSET Events]
  /\ webhook \in [error : BOOLEAN, success : BOOLEAN]
  /\ announced \subseteq Events
  /\ epoch \in Nat /\ torn \in BOOLEAN
  /\ delivered \subseteq Events
  /\ heardAt \in [Hosts -> Nat \cup {Never}]
  /\ crashes \in Nat

(* The server starts with empty task memory and one evaluation.             *)
Started(t) == [u \in Tasks |-> IF u = t THEN "spawned" ELSE "idle"]
NoStatus == [error |-> FALSE, success |-> FALSE]

Init ==
  /\ now = 0
  /\ snapshots = [h \in Hosts |-> <<>>]
  /\ lastSeen = [h \in Hosts |-> Never]
  /\ active = {}
  /\ firedAt = [a \in AlertIds |-> Never]
  /\ resolvedAt = [a \in AlertIds |-> Never]
  /\ details = [a \in AlertIds |-> NoErrors]
  /\ \E t \in Workers : pc = Started(t)
  /\ queue = [t \in Tasks |-> {}]
  /\ webhook = NoStatus
  /\ announced = {} /\ epoch = 0 /\ torn = FALSE /\ delivered = {}
  /\ heardAt = [h \in Hosts |-> Never]
  /\ crashes = 0
-----------------------------------------------------------------------------
Tick ==
  /\ now < MaxTime
  /\ now' = now + 1
  /\ UNCHANGED <<db, alerts, pc, queue, webhook, delivered, crashes>>

(* Node runs what an ingest started to its first await before any other     *)
(* callback; the crates run it as a task of its own.                        *)
Free == Crates \/ \A t \in Tasks : pc[t] # "spawned"

(* POST /api/ingest: one transaction upserts the machine, whose last_seen   *)
(* becomes the payload timestamp, and appends the snapshot; then the        *)
(* handler starts an evaluation.                                            *)
Ingest(h, r, offset, t) ==
  /\ pc[t] = "idle" /\ Free
  /\ Len(snapshots[h]) < MaxIngests
  /\ snapshots' = [snapshots EXCEPT ![h] =
        Append(@, [at |-> now + offset, svc |-> r.svc, progress |-> r.progress,
                   hot |-> r.hot, errors |-> r.errors])]
  /\ lastSeen' = [lastSeen EXCEPT ![h] = now + offset]
  /\ heardAt' = [heardAt EXCEPT ![h] = now]
  /\ pc' = [pc EXCEPT ![t] = "spawned"]
  /\ UNCHANGED <<now, alerts, queue, webhook, delivered, crashes>>
-----------------------------------------------------------------------------
\* faulty: the threshold is off by one
IsOnlineShort(h) ==
  /\ lastSeen[h] # Never
  /\ Crates => now - lastSeen[h] >= 0
  /\ now - lastSeen[h] < Threshold - 1

(* isOnline: a timestamp ahead of the clock is online, except in the crates,*)
(* whose db::is_online refuses a negative age.                              *)
IsOnline(h) ==
  /\ lastSeen[h] # Never
  /\ Crates => now - lastSeen[h] >= 0
  /\ now - lastSeen[h] < Threshold

Machines == { h \in Hosts : lastSeen[h] # Never }

\* faulty: any node_offline row counts, resolved or not
WasEverOffline(h) == firedAt[<<h, "node_offline">>] # Never
WasOffline(h) == <<h, "node_offline">> \in active
LatestOf(h) == snapshots[h][Latest(snapshots[h])]

(* The condition of each rule for a host that is online and has a snapshot. *)
Holds(h, kind) ==
  LET latest == LatestOf(h)
  IN  \/ kind = "cpu_temp_high" /\ latest.hot
      \/ kind = "fah_failed" /\ latest.svc = "failed"
      \/ kind = "fah_inactive" /\ latest.svc \notin {"active", "failed"}
      \/ /\ kind = "fah_stuck"
         /\ latest.svc = "active"
         /\ StuckProgress(snapshots[h], now - StuckPeriod, StuckPeriod)
      \/ kind = "fah_errors" /\ latest.errors # NoErrors

\* faulty: no early return for an offline host
EvaluateMachineOn(h) ==
  { k \in Kinds : \/ k = "node_offline" /\ ~IsOnline(h)
                  \/ k = "node_online" /\ IsOnline(h) /\ WasOffline(h)
                  \/ snapshots[h] # <<>> /\ Holds(h, k) }
\* faulty: an offline host is skipped
EvaluateMachineSkip(h) ==
  IF ~IsOnline(h) THEN {} ELSE EvaluateMachineOn(h)

\* faulty: a host that was offline is still taken for offline
EvaluateMachineSticky(h) ==
  IF ~IsOnline(h) \/ WasOffline(h) THEN {"node_offline"} ELSE EvaluateMachineOn(h)

(* evaluateMachine: an offline host yields node_offline and nothing else.   *)
EvaluateMachine(h) ==
  IF ~IsOnline(h)
  THEN {"node_offline"}
  ELSE { k \in Kinds : \/ k = "node_online" /\ WasOffline(h)
                       \/ snapshots[h] # <<>> /\ Holds(h, k) }

Candidates == UNION { {h} \X EvaluateMachine(h) : h \in Machines }

DetailsOf(a) == IF a[2] = "fah_errors" THEN LatestOf(a[1]).errors ELSE NoErrors

\* faulty: changed errors do not fire again
ToFireOnce(cand) == { a \in cand : a[2] # "node_online" /\ a \notin active }
(* What an evaluation with candidates `cand' fires, resolves and recovers.  *)
ToFire(cand) ==
  { a \in cand :
      /\ a[2] # "node_online"
      /\ \/ a \notin active
         \/ a[2] = "fah_errors" /\ DetailsOf(a) # details[a] }
ToResolve(cand) == active \ cand
Recovered(cand) == { a \in cand : a[2] = "node_online" }

Event(type, a, text) == [epoch |-> epoch + 1, type |-> type, id |-> a, details |-> text]

\* faulty: resolved alerts are not announced
NotifyEventsFired(back, fire, clear) ==
  { Event("Recovery", a, NoErrors) : a \in back }
    \cup { Event("Fired", a, DetailsOf(a)) : a \in fire }

NotifyEvents(back, fire, clear) ==
  { Event("Recovery", a, NoErrors) : a \in back }
    \cup { Event("Fired", a, DetailsOf(a)) : a \in fire }
    \cup { Event("Resolved", a, NoErrors) : a \in clear }

\* faulty: firing again restamps the row
FiredAtAgain(a, fire, back) == IF a \in back \cup fire THEN now ELSE firedAt[a]
\* faulty: firing leaves resolved_at
ResolvedAtKept(a, fire, ended) == IF a \in ended THEN now ELSE resolvedAt[a]

(* upsertActiveAlert keeps fired_at of a row that is active already;        *)
(* recordRecoveryAlert stamps both columns of the inactive recovery row.    *)
FiredAtAfter(a, fire, back) == IF a \in back \cup (fire \ active) THEN now ELSE firedAt[a]

ResolvedAtAfter(a, fire, ended) ==
  IF a \in fire THEN Never
  ELSE IF a \in ended THEN now ELSE resolvedAt[a]

(* The evaluation an ingest started, or one of the timer: setInterval does  *)
(* not wait for the previous one to be sent, the loop of the crates does.   *)
Due(t) ==
  \/ pc[t] = "spawned"
  \/ pc[t] = "idle" /\ Free /\ (t = Loop \/ ~Crates)

(* The rows that recordRecoveryAlert writes for `back', upsertActiveAlert   *)
(* for `fire' and resolveAlert for `clear'.                                 *)
Write(back, fire, clear) ==
  /\ active' = (active \ clear) \cup fire
  /\ firedAt' = [a \in AlertIds |-> FiredAtAfter(a, fire, back)]
  /\ resolvedAt' = [a \in AlertIds |-> ResolvedAtAfter(a, fire, clear \cup back)]
  /\ details' = [a \in AlertIds |-> IF a \in fire THEN DetailsOf(a) ELSE details[a]]
  /\ announced' = announced \cup NotifyEvents(back, fire, clear)
  /\ epoch' = IF NotifyEvents(back, fire, clear) = {} THEN epoch ELSE epoch + 1

(* runAlertEvaluation up to its await of the webhook.                       *)
Evaluate(t) ==
  /\ Due(t)
  /\ LET cand == Candidates
         new == NotifyEvents(Recovered(cand), ToFire(cand), ToResolve(cand))
         send == new # {} /\ Webhook # "none"
     IN  /\ Write(Recovered(cand), ToFire(cand), ToResolve(cand))
         /\ pc' = [pc EXCEPT ![t] = IF send THEN "sending" ELSE "idle"]
         /\ queue' = [queue EXCEPT ![t] = IF send THEN new ELSE {}]
  /\ torn' = FALSE
  /\ UNCHANGED <<now, db, webhook, delivered, crashes>>
-----------------------------------------------------------------------------
(* Events are sent in the order they were collected: recoveries, then new   *)
(* alerts, then resolved ones.                                              *)
Rank(e) == CASE e.type = "Recovery" -> 0 [] e.type = "Fired" -> 1 [] OTHER -> 2

Sending(t) == pc[t] = "sending" /\ Free

\* faulty: any event goes next
NextToSendAny(t, e) == Sending(t) /\ e \in queue[t]
NextToSend(t, e) ==
  /\ Sending(t)
  /\ e \in queue[t]
  /\ \A f \in queue[t] : Rank(e) <= Rank(f)

Finish(t) ==
  /\ pc' = [pc EXCEPT ![t] = "idle"]
  /\ queue' = [queue EXCEPT ![t] = {}]

Succeeded == webhook' = [error |-> FALSE, success |-> TRUE]
Failed == webhook' = [webhook EXCEPT !.error = TRUE]

\* faulty: a sent event stays queued
PostEmbedKeeps(t, e) ==
  /\ Webhook = "discord" /\ NextToSend(t, e)
  /\ delivered' = delivered \cup {e}
  /\ UNCHANGED <<now, db, alerts, pc, queue, webhook, crashes>>

(* A Discord webhook gets one embed per event, 350 ms apart.                *)
PostEmbed(t, e) ==
  /\ Webhook = "discord" /\ NextToSend(t, e)
  /\ Crates => e.details \notin WideDetails
  /\ delivered' = delivered \cup {e}
  /\ queue' = [queue EXCEPT ![t] = @ \ {e}]
  /\ UNCHANGED <<now, db, alerts, pc, webhook, crashes>>

(* After the last one the status is recorded.                               *)
AllPosted(t) ==
  /\ Webhook = "discord" /\ Sending(t) /\ queue[t] = {}
  /\ Finish(t) /\ Succeeded
  /\ UNCHANGED <<now, db, alerts, delivered, crashes>>

(* Any other URL gets all lines in one message, cut when it is too long.    *)
TooLong(t) == Cardinality(queue[t]) > BatchLimit

PostBatch(t, kept) ==
  /\ Webhook = "batch" /\ Sending(t)
  /\ IF TooLong(t) THEN Cardinality(kept) = BatchLimit ELSE kept = queue[t]
  /\ \A e \in kept, f \in queue[t] \ kept : Rank(e) <= Rank(f)
  /\ delivered' = delivered \cup kept
  /\ Finish(t) /\ Succeeded
  /\ UNCHANGED <<now, db, alerts, crashes>>

\* faulty: the error is logged but not recorded
PostFailsQuietly(t) ==
  /\ Sending(t) /\ queue[t] # {}
  /\ Finish(t)
  /\ UNCHANGED <<now, db, alerts, webhook, delivered, crashes>>

(* A POST is refused or its connection fails: the rest is dropped and the   *)
(* error recorded; in the crates `?' leaves the function before the status  *)
(* of a Discord webhook is written.                                         *)
PostFails(t) ==
  /\ Sending(t) /\ queue[t] # {}
  /\ Finish(t)
  /\ IF Crates /\ Webhook = "discord" THEN UNCHANGED webhook ELSE Failed
  /\ UNCHANGED <<now, db, alerts, delivered, crashes>>

(* The crates cut details, error bodies and messages at a byte: inside a    *)
(* character that panics, and a panic ends the task; for the loop, every    *)
(* later evaluation of its own.                                             *)
Panics(t) ==
  /\ Crates /\ Sending(t) /\ queue[t] # {}
  /\ \/ WideReplies
     \/ Webhook = "discord" /\ \E e \in queue[t] : NextToSend(t, e) /\ e.details \in WideDetails
     \/ Webhook = "batch" /\ TooLong(t)
  /\ pc' = [pc EXCEPT ![t] = IF t = Loop THEN "dead" ELSE "idle"]
  /\ queue' = [queue EXCEPT ![t] = {}]
  /\ UNCHANGED <<now, db, alerts, webhook, delivered, crashes>>

(* POST /api/alerts/test sends one event of its own and records the result. *)
TestWebhook ==
  /\ Webhook # "none" /\ Free
  /\ \/ Succeeded
     \/ ~(Crates /\ Webhook = "discord") /\ Failed
  /\ UNCHANGED <<now, db, alerts, pc, queue, delivered, crashes>>

(* An evaluation ends between two of its statements: recoveries are written *)
(* first, then the alerts that fire, then the resolved ones.                *)
CutShort ==
  /\ \E t \in Tasks : Due(t)
  /\ LET cand == Candidates
     IN  \E back \in SUBSET Recovered(cand), fire \in SUBSET ToFire(cand),
            clear \in SUBSET ToResolve(cand) :
           /\ back \cup fire \cup clear # {}
           /\ fire # {} => back = Recovered(cand)
           /\ clear # {} => back = Recovered(cand) /\ fire = ToFire(cand)
           /\ Write(back, fire, clear)
  /\ torn' = TRUE

(* The supervisor stops at any point, also within an evaluation, and is     *)
(* started again.                                                           *)
Crash ==
  /\ crashes < MaxCrashes
  /\ crashes' = crashes + 1
  /\ \E t \in Workers : pc' = Started(t)
  /\ queue' = [t \in Tasks |-> {}]
  /\ webhook' = NoStatus
  /\ UNCHANGED <<now, db, delivered>>
  /\ UNCHANGED alerts \/ CutShort
-----------------------------------------------------------------------------
Send(t) ==
  \/ \E e \in queue[t] : PostEmbed(t, e)
  \/ AllPosted(t)
  \/ \E kept \in SUBSET queue[t] : PostBatch(t, kept)
  \/ PostFails(t)
  \/ Panics(t)

Next ==
  \/ Tick
  \/ \E h \in Hosts, r \in Readings, offset \in Offsets, t \in Workers : Ingest(h, r, offset, t)
  \/ \E t \in Tasks : Evaluate(t) \/ Send(t)
  \/ TestWebhook
  \/ Crash

Spec == Init /\ [][Next]_vars

(* The runtime runs every started evaluation, and the timer's whenever it   *)
(* has fired; that a POST ends at all is up to the webhook, for the client  *)
(* sets no timeout.  Ticks, ingests and crashes may stop for ever.          *)
TaskSpec == Spec /\ \A t \in Tasks : WF_vars(Evaluate(t))
FairSpec == TaskSpec /\ \A t \in Tasks : WF_vars(Send(t))
-----------------------------------------------------------------------------
(***************************************************************************)
(* Properties                                                              *)
(***************************************************************************)

(* The alerts table and the notification stream tell the same story: an     *)
(* alert is active exactly when the last event any evaluation produced for  *)
(* it is Fired, however evaluations of ingests, the loop and restarts       *)
(* interleave (engine.ts 187-252, the fire and resolve loops).              *)
ActiveAsAnnounced ==
  \A a \in AlertIds :
    a \in active <=> \E e \in announced :
                      /\ e.id = a /\ e.type = "Fired"
                      /\ \A f \in announced : f.id = a => f.epoch <= e.epoch

(* An event is waiting in at most one task and never waits once delivered,  *)
(* so no interleaving or restart sends it twice (notify.ts has no retry).   *)
SentAtMostOnce ==
  \A t \in Tasks :
    /\ queue[t] \subseteq announced \ delivered
    /\ \A u \in Tasks \ {t} : queue[t] \cap queue[u] = {}

(* The rules of one host never contradict each other in the banner: an      *)
(* offline host has no other active alert, at most one of the three service *)
(* alerts is active, and a recovery is never active (docs/alerts.md:52).    *)
(* The rows of one evaluation commit one by one, so a crash can leave a     *)
(* contradiction in the table (engine.ts 213-252); then the evaluation the  *)
(* server starts with has yet to run, and that one settles it.              *)
Exclusive(on) ==
  /\ "node_offline" \in on => on = {"node_offline"}
  /\ Cardinality(on \cap {"fah_failed", "fah_inactive", "fah_stuck"}) <= 1
ExclusiveAlerts ==
  \A h \in Hosts :
    LET on == { k \in Kinds : <<h, k>> \in active }
    IN  /\ "node_online" \notin on
        /\ Exclusive(on) \/ (torn /\ \E t \in Workers : pc[t] = "spawned")

(* The timestamps of a row agree with its active flag: an active row was    *)
(* fired and is not resolved; an inactive row was resolved after its last   *)
(* firing (alerts/db.ts, three different UPDATEs write these columns).      *)
RowTimes ==
  \A a \in AlertIds :
    /\ a \in active => firedAt[a] # Never /\ resolvedAt[a] = Never
    /\ a \notin active /\ firedAt[a] # Never =>
         resolvedAt[a] # Never /\ resolvedAt[a] >= firedAt[a]

(* An alert that stays active keeps the time it was first fired at, also    *)
(* when new error lines fire it again (upsertActiveAlert).                  *)
FiredAtKept == [][\A a \in active \cap active' : firedAt'[a] = firedAt[a]]_vars

(* After the evaluation of an ingest, and after every one that wrote rows   *)
(* and was not cut by a crash, the table shows the farm as it is: exactly   *)
(* the alerts whose rule holds, error alerts with the errors of the latest  *)
(* snapshot (a diff of three sets and a details comparison); one that does  *)
(* nothing is right to.                                                     *)
Evaluated ==
  /\ crashes' = crashes
  /\ epoch' # epoch \/ \E t \in Tasks : pc[t] = "spawned" /\ pc'[t] # "spawned"
EvaluationSettles ==
  [][Evaluated =>
       /\ active' = { a \in Candidates : a[2] # "node_online" }
       /\ \A a \in active' : details'[a] = DetailsOf(a)]_vars

(* A host is declared stuck only after a stretch of reports, up to the      *)
(* latest one, that is as long as promised and in which every report of a   *)
(* folding client shows the same progress (docs/configuration.md:56; two    *)
(* age cuts, a count, a span and a spread decide it in stuck.ts).           *)
StuckMeansStill ==
  [][\A h \in Hosts :
       <<h, "fah_stuck">> \in active' \ active =>
         LET rows == snapshots[h]
             folding == { i \in DOMAIN rows :
                            rows[i].svc = "active" /\ rows[i].progress >= MinProgress }
         IN  \E first, last \in folding :
               /\ \A i \in DOMAIN rows : rows[i].at <= rows[last].at
               /\ 100 * (rows[last].at - rows[first].at) >= SpanPercent * StuckPeriod
               /\ \A i \in folding :
                     rows[i].at >= rows[first].at =>
                       /\ rows[i].progress - rows[last].progress <= Epsilon
                       /\ rows[last].progress - rows[i].progress <= Epsilon]_vars

(* No host is declared offline before it was silent for                     *)
(* OFFLINE_THRESHOLD_MS less the lag of its reports.  last_seen is the time *)
(* in the report: as far behind its arrival as the post took, further when  *)
(* a later post overtook it, and by the clocks' difference (collector.ts    *)
(* 159, db.ts 93-96, isOnline).  The crates also take for offline a host    *)
(* whose report is ahead of the supervisor's clock (db.rs is_online).       *)
NoFalseOffline ==
  [][\A h \in Hosts :
       <<h, "node_offline">> \in active' \ active =>
         \E o \in Offsets :
           now - heardAt[h] >= Threshold + o \/ (Crates /\ now - heardAt[h] < o)]_vars

(* Whatever fails on the way, the embeds sent for one evaluation are a      *)
(* prefix of its events: a "Resolved" is never delivered when an alert of   *)
(* the same evaluation was not.                                             *)
DeliveredInOrder ==
  \A e \in delivered, f \in announced :
    f.epoch = e.epoch /\ Rank(f) < Rank(e) => f \in delivered

(* Every evaluation step is a step of the ledger: changes and announcements *)
(* go together, a recovery is announced exactly when an offline alert ends, *)
(* and only announced events are delivered.  So is an evaluation that a     *)
(* crash cuts short, but for the recovery it may have written before the    *)
(* offline alert is resolved: that one is written again after the restart.  *)
Ledger == INSTANCE AlertLedger WITH
  Alerts <- AlertIds,
  Renewable <- { a \in AlertIds : a[2] = "fah_errors" },
  Recovery <- [a \in AlertIds |-> IF a[2] = "node_offline" THEN {<<a[1], "node_online">>} ELSE {}]
LedgerSpec == Ledger!Spec

(* Events that never reach the webhook leave a trace for GET                *)
(* /api/alerts/status: unless the supervisor crashed or the message had to  *)
(* be cut, dropping unsent events sets last_error.                          *)
FailureRecorded ==
  [][\A t \in Tasks :
       (/\ queue[t] # {} /\ queue'[t] = {} /\ delivered' = delivered
        /\ ~TooLong(t) /\ crashes' = crashes) => webhook'.error]_vars

(* The 60 s timer alone, without any ingest, reports a host that stays      *)
(* silent and clears the report of one that came back (server.ts 80).       *)
SilentHostReported ==
  \A h \in Hosts :
    (h \in Machines /\ ~IsOnline(h)) ~> (WasOffline(h) \/ IsOnline(h))
ReturnNoticed ==
  \A h \in Hosts :
    (h \in Machines /\ IsOnline(h)) ~> (~WasOffline(h) \/ ~IsOnline(h))
==============================================================================
