----------------------------- MODULE StuckDetect -----------------------------
(***************************************************************************)
(* The "FAH progress stuck" rule of the supervisor                         *)
(* (apps/supervisor/src/alerts/stuck.ts, ported without a change to        *)
(* crates/foldops-supervisor/src/alerts/stuck.rs) and the two snapshot     *)
(* queries it reads (getLatestSnapshot and getSnapshotsSince of db.ts).    *)
(*                                                                         *)
(* A host's snapshots are the rows of table snapshots in insertion (rowid) *)
(* order.  A row keeps the columns the rule reads: created_at (here `at',  *)
(* the agent's timestamp), fah_status and progress.  Progress is a natural *)
(* number in a unit the constants fix, NoProgress stands for SQL NULL.     *)
(***************************************************************************)
EXTENDS Integers, Sequences, FiniteSets

CONSTANTS
  MinSnapshots,   \* MIN_SNAPSHOTS_IN_WINDOW, 10 in the code
  SpanPercent,    \* SPAN_FRACTION * 100, 85 in the code
  MinProgress,    \* progress below which a row does not count, 0.5 in the code
  Epsilon         \* movement still taken for none, 0.15 in the code

ASSUME StuckAssumption ==
  /\ MinSnapshots \in Nat \ {0}
  /\ SpanPercent \in 0 .. 100
  /\ MinProgress \in Nat
  /\ Epsilon \in Nat

NoProgress == -1

(* ORDER BY created_at DESC LIMIT 1: the index (hostname, created_at DESC)  *)
(* lists equal timestamps by ascending rowid, so a tie goes to the older.   *)
IsLatest(snaps, i) ==
  /\ i \in DOMAIN snaps
  /\ \A j \in DOMAIN snaps :
        \/ snaps[j].at < snaps[i].at
        \/ snaps[j].at = snaps[i].at /\ i <= j

Latest(snaps) == CHOOSE i \in DOMAIN snaps : IsLatest(snaps, i)

(* The rows of the last `since' ... now that are active and far enough.    *)
Window(snaps, since, stuck) ==
  { i \in DOMAIN snaps :
      /\ snaps[i].at >= since
      /\ snaps[i].at >= snaps[Latest(snaps)].at - stuck
      /\ snaps[i].svc = "active"
      /\ snaps[i].progress # NoProgress /\ snaps[i].progress >= MinProgress }

\* faulty: any two reports will do, however close
StuckProgressAtOnce(snaps, since, stuck) ==
  LET last == snaps[Latest(snaps)]
      window == Window(snaps, since, stuck)
  IN  /\ stuck > 0
      /\ snaps # <<>>
      /\ last.at >= since
      /\ last.progress # NoProgress /\ last.progress >= MinProgress
      /\ last.svc = "active"
      /\ Cardinality(window) >= MinSnapshots
      /\ \A i, j \in window : snaps[i].progress - snaps[j].progress <= Epsilon

(* detectStuckProgress on the rows getSnapshotsSince returns: the           *)
(* latest row is active and under way, the window holds enough rows, covers *)
(* enough of the period, and its progress values lie within Epsilon.        *)
StuckProgress(snaps, since, stuck) ==
  LET last == snaps[Latest(snaps)]
      window == Window(snaps, since, stuck)
  IN  /\ stuck > 0
      /\ snaps # <<>>
      /\ last.at >= since
      /\ last.progress # NoProgress /\ last.progress >= MinProgress
      /\ last.svc = "active"
      /\ Cardinality(window) >= MinSnapshots
      /\ \E i \in window : 100 * (last.at - snaps[i].at) >= stuck * SpanPercent
      /\ \A i, j \in window : snaps[i].progress - snaps[j].progress <= Epsilon
==============================================================================
