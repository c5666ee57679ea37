------------------------------ MODULE AgentLoop -------------------------------
(***************************************************************************)
(* The reporting loop of an agent (apps/agent/src/index.ts, collector.ts)  *)
(* and what the supervisor stores of it (ingestSnapshot, routes.ts).       *)
(*                                                                         *)
(* A tick collects, stamps the snapshot with the time and posts it; a post *)
(* is never retried.  In Node.js run() awaits the first tick, response     *)
(* included, and then sets an interval, whose ticks do not wait for each   *)
(* other: their posts overtake.  The crates' agent                         *)
(* (crates/foldops-agent/src/main.rs) has one tick at a time: it sleeps    *)
(* for the interval after each.  Clocks of agent and supervisor agree.     *)
(* Collect and Delay bound how long a collection and a post take: the code *)
(* bounds neither, the theorem and the run say what follows where they are *)
(* known.                                                                  *)
(***************************************************************************)
EXTENDS Integers

CONSTANTS
  Crates,        \* TRUE: the Rust agent, FALSE: the Node.js agent
  Interval,      \* INTERVAL_MS
  Collect,       \* the longest collection
  Delay,         \* the longest time from the stamp to the end of a post
  MaxTime,       \* bound: end of time
  MaxFaults      \* bound: failed posts and crashes

ASSUME LoopAssumption ==
  /\ Crates \in BOOLEAN /\ Interval \in Nat \ {0} /\ Collect \in Nat /\ Delay \in Nat
  /\ MaxTime \in Nat /\ MaxFaults \in Nat

VARIABLES
  now,           \* the time
  next,          \* when the next tick starts; -1 while the end of one is awaited
  collecting,    \* the ticks that collect, by their start
  posting,       \* the posts under way: the start of their tick and their stamp
  replying,      \* the stamp of the stored post whose response is awaited, or -1
  stored,        \* created_at of the rows of table snapshots
  newest,        \* created_at of the row that is read as the latest
  lastSeen,      \* machines.last_seen; -1 without a row
  faults         \* failed posts and crashes so far

vars == <<now, next, collecting, posting, replying, stored, newest, lastSeen, faults>>

TypeOK ==
  /\ now \in 0..MaxTime /\ next \in -1..(MaxTime + Interval)
  /\ collecting \subseteq 0..now /\ posting \subseteq (0..now) \X (0..now)
  /\ replying \in -1..now /\ stored \subseteq 0..now
  /\ lastSeen \in stored \cup {-1} /\ newest \in stored \cup {-1}
  /\ faults \in 0..MaxFaults

Init ==
  /\ now = 0 /\ next = -1
  /\ collecting = {0} /\ posting = {} /\ replying = -1 /\ stored = {}
  /\ newest = -1 /\ lastSeen = -1 /\ faults = 0
-----------------------------------------------------------------------------
(* When the tick ends that run() awaits, the interval starts, or the sleep.  *)
TickEnds == IF next = -1 THEN next' = now + Interval ELSE UNCHANGED next

(* A tick starts: in Node.js whatever the earlier ones do, and the interval *)
(* goes on; the loop of the crates awaits its end.                          *)
tick ==
  /\ next = now
  /\ next' = IF Crates THEN -1 ELSE now + Interval
  /\ collecting' = collecting \cup {now}
  /\ UNCHANGED <<now, posting, replying, stored, newest, lastSeen, faults>>

(* collectSnapshot ends and the payload gets its timestamp.                 *)
collectSnapshot(s) ==
  /\ s \in collecting
  /\ collecting' = collecting \ {s}
  /\ posting' = posting \cup {<<s, now>>}
  /\ UNCHANGED <<now, next, replying, stored, newest, lastSeen, faults>>

(* A post arrives; an awaited tick goes on until it has the response.       *)
Arrives(p) ==
  /\ p \in posting
  /\ posting' = posting \ {p}
  /\ replying' = IF next = -1 THEN p[2] ELSE replying
  /\ UNCHANGED <<now, next, collecting>>

(* The awaited response arrives, or its connection breaks.                  *)
Responded ==
  /\ replying # -1
  /\ replying' = -1 /\ TickEnds
  /\ UNCHANGED <<now, collecting, posting, stored, newest, lastSeen, faults>>

\* faulty: the machine's row is written when it is new
lastSeenFirst(p) == IF lastSeen = -1 THEN p ELSE lastSeen
(* last_seen is the payload's timestamp, also of one that was overtaken.    *)
lastSeenOf(p) == p

\* faulty: the latest snapshot is the row that was inserted last
getLastInserted(c, p) == c = p
(* c is the latest snapshot once p is stored: ORDER BY created_at DESC.     *)
getLatestSnapshot(c, p) == \A d \in stored \cup {p} : d <= c

(* ingestSnapshot: both tables in one transaction.                          *)
ingestSnapshot(p) ==
  /\ Arrives(p)
  /\ stored' = stored \cup {p[2]}
  /\ \E c \in stored \cup {p[2]} : getLatestSnapshot(c, p[2]) /\ newest' = c
  /\ lastSeen' = lastSeenOf(p[2])
  /\ UNCHANGED faults

(* The post fails: the tick logs it and ends, and nothing tries it again.   *)
postFails(p) ==
  /\ p \in posting
  /\ faults < MaxFaults /\ faults' = faults + 1
  /\ posting' = posting \ {p} /\ TickEnds
  /\ UNCHANGED <<now, collecting, replying, stored, newest, lastSeen>>

(* The agent dies and is started again: run() begins anew.  Its posts were  *)
(* stored before, or are lost.                                              *)
Restart ==
  /\ faults < MaxFaults /\ faults' = faults + 1
  /\ next' = -1 /\ collecting' = {now} /\ posting' = {} /\ replying' = -1
  /\ UNCHANGED <<now, stored, newest, lastSeen>>

(* Time passes when nothing is due.                                         *)
Elapse ==
  /\ now < MaxTime /\ next # now
  /\ \A s \in collecting : now < s + Collect
  /\ \A p \in posting : now < p[2] + Delay
  /\ replying # -1 => now < replying + Delay
  /\ now' = now + 1
  /\ UNCHANGED <<next, collecting, posting, replying, stored, newest, lastSeen, faults>>
-----------------------------------------------------------------------------
Next ==
  \/ tick
  \/ \E s \in collecting : collectSnapshot(s)
  \/ \E p \in posting : ingestSnapshot(p) \/ postFails(p)
  \/ Responded \/ Restart \/ Elapse

Spec == Init /\ [][Next]_vars
-----------------------------------------------------------------------------
(***************************************************************************)
(* Properties                                                              *)
(***************************************************************************)

(* How old last_seen can be of an agent that works, none of whose posts     *)
(* failed.  A post that was overtaken sets last_seen back, so the delay     *)
(* counts twice: a node is never taken for offline (routes.ts isOnline) if  *)
(* OFFLINE_THRESHOLD_MS is at least this.                                   *)
MaxAge == Interval + Collect + 2 * Delay
AgeBounded == faults = 0 /\ lastSeen # -1 => now - lastSeen <= MaxAge

(* The latest snapshot that the pages and the alerts read never goes back   *)
(* in time and is never older than last_seen, however posts overtake each   *)
(* other (getLatestSnapshot).                                               *)
LatestForward ==
  [][newest' >= newest /\ newest' >= lastSeen']_vars
===============================================================================
