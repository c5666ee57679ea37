------------------------------ MODULE FahStatus ------------------------------
(***************************************************************************)
(* collectFahStatus (apps/agent/src/fah-*.ts and its port in the crates;   *)
(* Crates says which of the two): one collection reads client.db, the log, *)
(* the newest work log and the client's WebSocket, in this order, and      *)
(* merges what they say.  client.db and every WebSocket message hold a     *)
(* list of units, of which one is picked.                                  *)
(*                                                                         *)
(* Progress is a whole percentage.  Of the optional fields that merge like *)
(* project (run, clone, gen, ppd, tpf) ppd stands for all.  What a log     *)
(* yields is a member of a given set.                                      *)
(*                                                                         *)
(* "faulty" definitions are what the code does not do: each replaces the   *)
(* definition that follows it to see that a property notices.              *)
(***************************************************************************)
EXTENDS Integers, Sequences

CONSTANTS
  Crates,        \* TRUE: the Rust agent, FALSE: the Node.js agent
  None,          \* no value (null)
  Projects,      \* project numbers
  Units,         \* units the FAH client may list
  MaxUnits,      \* bound: units in one list
  LogStates,     \* what the log may yield
  WorkStates     \* what the newest work log may yield

VARIABLES
  pc,            \* the step the collection is at
  units,         \* the list being scanned
  next,          \* index of the unit to look at
  best,          \* index of the best unit so far, 0 for none
  got,           \* got[s]: the state source s yielded, or None
  reported       \* the merged state, None before the merge

vars == <<pc, units, next, best, got, reported>>

Statuses == {"RUN", "CORE", "READY", "other"}  \* READY, DOWNLOAD and UPLOAD are alike
Sources == {"work", "log", "ws", "db"}
Progress == 0..100 \cup {None}
Ppd == Nat \cup {None}
States == [project : Projects \cup {None}, progress : Progress, ppd : Ppd \ {0}]
Empty == [project |-> None, progress |-> None, ppd |-> None]
Steps == {"db", "pick", "relaxed", "log", "work", "ws", "message", "merge", "done"}

ASSUME FahAssumption ==
  /\ Crates \in BOOLEAN
  /\ None \notin Int
  /\ None \notin Projects
  /\ None \notin States
  /\ Units \subseteq [status : Statuses, project : Projects \cup {None},
                      progress : Progress, ppd : Ppd, eta : BOOLEAN]
  /\ MaxUnits \in Nat
  /\ LogStates \subseteq States
  /\ WorkStates \subseteq States

Lists == UNION { [1..n -> Units] : n \in 0..MaxUnits }

TypeOK ==
  /\ pc \in Steps
  /\ units \in Lists
  /\ next \in 1..Len(units) + 1
  /\ best \in 0..Len(units)
  /\ got \in [Sources -> States \cup {None}]
  /\ reported \in States \cup {None}

Init ==
  /\ pc = "db"
  /\ units = <<>> /\ next = 1 /\ best = 0
  /\ got = [s \in Sources |-> None]
  /\ reported = None
-----------------------------------------------------------------------------
(* One unit.                                                                *)
Num(x) == IF x = None THEN 0 ELSE x

Readable(u) ==
  u.project # None \/ Num(u.progress) > 0 \/ Num(u.ppd) > 0 \/ u.eta

(* unitToState: a ppd of zero is none, as is on the WebSocket a progress  *)
(* of zero.                                                                 *)
StateOf(s, u) ==
  [project |-> u.project,
   progress |-> IF s = "ws" /\ u.progress = 0 THEN None ELSE u.progress,
   ppd |-> IF u.ppd = 0 THEN None ELSE u.ppd]

(* A positive ppd counts; the crates count any ppd of client.db.            *)
Priced(s, u) == IF Crates /\ s = "db" THEN u.ppd # None ELSE Num(u.ppd) > 0

StatusScore(s, u) ==
  CASE u.status = "RUN" -> 1000
    [] u.status = "READY" /\ s = "db" -> 500
    [] u.status = "CORE" /\ s = "ws" -> 300
    [] OTHER -> 0

(* The score of pickBestUnit and of pickBestUnitRelaxed.                    *)
Score(step, u) ==
  LET s == IF step = "message" THEN "ws" ELSE "db"
  IN  IF step = "relaxed"
      THEN Num(u.ppd) + 10 * Num(u.progress)
      ELSE Num(u.progress) + (IF Priced(s, u) THEN 200 ELSE 0) + StatusScore(s, u)
-----------------------------------------------------------------------------
(* client.db.                                                               *)
Scan(step, list) ==
  /\ pc' = step
  /\ units' = list /\ next' = 1 /\ best' = 0

(* The rows load, through the sqlite3 command or the library.               *)
ReadDb ==
  /\ pc = "db"
  /\ \E list \in Lists \ {<<>>} : Scan("pick", list)
  /\ UNCHANGED <<got, reported>>

(* Missing file, no permission, both loaders fail, no rows, 12 s are over.  *)
DbUnavailable ==
  /\ pc = "db"
  /\ pc' = "log"
  /\ UNCHANGED <<units, next, best, got, reported>>
-----------------------------------------------------------------------------
(* The scan of a list: pickBestUnit and its relaxed form.                   *)
Scanning == pc \in {"pick", "relaxed", "message"}

\* faulty: of equal scores the last wins
LookAtLast ==
  /\ Scanning /\ next <= Len(units) /\ Readable(units[next])
  /\ best' = IF best = 0 \/ Score(pc, units[next]) >= Score(pc, units[best]) THEN next ELSE best
  /\ next' = next + 1
  /\ UNCHANGED <<pc, units, got, reported>>

LookAt ==
  /\ Scanning /\ next <= Len(units) /\ Readable(units[next])
  /\ best' = IF best = 0 \/ Score(pc, units[next]) > Score(pc, units[best]) THEN next ELSE best
  /\ next' = next + 1
  /\ UNCHANGED <<pc, units, got, reported>>

(* After a list of client.db that yields nothing comes the relaxed scan,    *)
(* after such a message the next one.                                       *)
GiveUp ==
  CASE pc = "pick" -> Scan("relaxed", units)
    [] pc = "relaxed" -> Scan("log", <<>>)
    [] pc = "message" -> Scan("ws", <<>>)

\* faulty: an unreadable unit ends the scan
SkipAll ==
  /\ Scanning /\ next <= Len(units) /\ ~Readable(units[next])
  /\ GiveUp
  /\ UNCHANGED <<got, reported>>

(* An unreadable unit is passed over; in the crates `?' leaves the function *)
(* with None.                                                               *)
Skip ==
  /\ Scanning /\ next <= Len(units) /\ ~Readable(units[next])
  /\ IF Crates THEN GiveUp ELSE next' = next + 1 /\ UNCHANGED <<pc, units, best>>
  /\ UNCHANGED <<got, reported>>

Picked ==
  /\ Scanning /\ next > Len(units) /\ best # 0
  /\ LET s == IF pc = "message" THEN "ws" ELSE "db"
     IN  got' = [got EXCEPT ![s] = StateOf(s, units[best])]
  /\ Scan(IF pc = "message" THEN "merge" ELSE "log", <<>>)
  /\ UNCHANGED reported

(* No unit, or none that is readable.                                       *)
NothingPicked ==
  /\ Scanning /\ next > Len(units) /\ best = 0
  /\ GiveUp
  /\ UNCHANGED <<got, reported>>
-----------------------------------------------------------------------------
(* The logs.                                                                *)
Read(s, states, then) ==
  /\ \E state \in states : got' = [got EXCEPT ![s] = state]
  /\ pc' = then
  /\ UNCHANGED <<units, next, best, reported>>

(* A log that cannot be read yields an empty state.                         *)
ReadLog == pc = "log" /\ Read("log", LogStates \cup {Empty}, "work")

(* No work log, or one without project and progress, yields none.           *)
ReadWorkLog == pc = "work" /\ Read("work", WorkStates \cup {None}, "ws")
-----------------------------------------------------------------------------
(* The WebSocket: messages with a list of units, until one is picked.       *)
WsMessage ==
  /\ pc = "ws"
  /\ \E list \in Lists : Scan("message", list)
  /\ UNCHANGED <<got, reported>>

(* No connection, a close, a message of another form, 5 s are over.         *)
WsEnds ==
  /\ pc = "ws"
  /\ pc' = "merge"
  /\ UNCHANGED <<units, next, best, got, reported>>
-----------------------------------------------------------------------------
(* mergeStates.                                                             *)
MergeField(current, incoming) == IF current = None THEN incoming ELSE current

\* faulty: the later source wins
MergeProgressLate(c, i) == IF Num(i) <= 0 THEN c ELSE i

MergeProgress(c, i) ==
  IF Num(i) <= 0 THEN c
  ELSE IF Num(c) <= 0 THEN i
  ELSE IF c >= i THEN c ELSE i

MergeInto(base, fb) ==
  IF fb = None THEN base
  ELSE [project |-> MergeField(base.project, fb.project),
        progress |-> MergeProgress(base.progress, fb.progress),
        ppd |-> MergeField(base.ppd, fb.ppd)]

Primary == IF got["work"] = None THEN Empty ELSE got["work"]

Merge ==
  /\ pc = "merge"
  /\ reported' = MergeInto(MergeInto(MergeInto(Primary, got["log"]), got["ws"]), got["db"])
  /\ pc' = "done"
  /\ UNCHANGED <<units, next, best, got>>

(* The next collection, a minute later.                                     *)
Restart ==
  /\ pc = "done"
  /\ pc' = "db"
  /\ got' = [s \in Sources |-> None]
  /\ reported' = None
  /\ UNCHANGED <<units, next, best>>

Next ==
  \/ ReadDb \/ DbUnavailable
  \/ LookAt \/ Skip \/ Picked \/ NothingPicked
  \/ ReadLog \/ ReadWorkLog
  \/ WsMessage \/ WsEnds
  \/ Merge \/ Restart

Spec == Init /\ [][Next]_vars
-----------------------------------------------------------------------------
(* Unit i of a list comes before unit j.  docs/agent.md:88 promises the     *)
(* unit in state RUN with the highest wu_progress.  The code keeps that for *)
(* units of which both or none have a ppd: a unit in state RUN goes before  *)
(* all others, then the one with more progress, then the first of the list. *)
(* But a ppd counts 200 and progress at most 100 (fah-client-db.ts 136), so *)
(* of two units in one state the one with a ppd goes first, however far the *)
(* other is: there the code is followed and not the docs.                   *)
Beats(s, list, i, j) ==
  LET a == list[i]
      b == list[j]
  IN  \/ a.status = "RUN" /\ b.status # "RUN"
      \/ /\ a.status = b.status
         /\ \/ Priced(s, a) /\ ~Priced(s, b)
            \/ /\ Priced(s, a) = Priced(s, b)
               /\ \/ Num(a.progress) > Num(b.progress)
                  \/ Num(a.progress) = Num(b.progress) /\ i < j

(* Whatever a list looks like, the unit pickBestUnit takes from client.db   *)
(* or a message is not beaten by a readable one, in the code's order and so *)
(* not always in that of the docs (see Beats), and the state that is kept   *)
(* is its own; the crates take one only of a list of readable units.        *)
PicksBest ==
  [][ \A s \in {"db", "ws"} :
        got'[s] \notin {got[s], None} =>
          \E i \in DOMAIN units :
            /\ got'[s] = StateOf(s, units[i])
            /\ \A j \in DOMAIN units :
                 /\ Crates => Readable(units[j])
                 /\ Readable(units[j]) => ~Beats(s, units, j, i) ]_vars

(* What the agent reports: each field from the first source that has it, in *)
(* the order work log, log, WebSocket, client.db; the progress that is the  *)
(* highest of all, so that a log that lags never hides it.                  *)
SourceOrder == <<"work", "log", "ws", "db">>

FirstWith(field, value) ==
  \/ value = None /\ \A s \in Sources : got[s] = None \/ got[s][field] = None
  \/ \E i \in DOMAIN SourceOrder :
       /\ got[SourceOrder[i]] # None
       /\ got[SourceOrder[i]][field] = value /\ value # None
       /\ \A j \in 1..i-1 : got[SourceOrder[j]] = None \/ got[SourceOrder[j]][field] = None

MergeFaithful ==
  pc = "done" =>
    /\ FirstWith("project", reported.project)
    /\ FirstWith("ppd", reported.ppd)
    /\ \A s \in Sources : got[s] # None => Num(got[s].progress) <= Num(reported.progress)
    /\ reported.progress # None =>
         \E s \in Sources : got[s] # None /\ got[s].progress = reported.progress

(* docs/agent.md: a unit in state RUN is preferred.  A readable running     *)
(* unit of client.db is never lost because of another one (pickBestUnit;    *)
(* the crates lose it).                                                     *)
RunningUnitFound ==
  [][ (pc \in {"pick", "relaxed"} /\ pc' = "log" /\ got'["db"] = None) =>
        \A i \in DOMAIN units : units[i].status = "RUN" => ~Readable(units[i]) ]_vars

==============================================================================
