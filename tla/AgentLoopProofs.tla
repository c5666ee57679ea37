---------------------------- MODULE AgentLoopProofs ----------------------------
(***************************************************************************)
(* Theorems about the reporting loop, for every interval, delay and bound. *)
(*                                                                         *)
(* AgeBounded is not inductive: that last_seen is young now says nothing   *)
(* of the next moment.  What goes on holding is that something under way   *)
(* will renew it in time (Covered).                                        *)
(***************************************************************************)
EXTENDS AgentLoop, TLAPS

(* Nothing under way is late, and the interval is ahead.                    *)
OnTime ==
  /\ \A s \in collecting : now <= s + Collect
  /\ \A p \in posting : now <= p[2] + Delay
  /\ replying # -1 => now <= replying + Delay
  /\ next # -1 => now <= next
  /\ next <= now + Interval

(* What was stored at x, or will be answered by then, is followed by a      *)
(* tick at most Interval later, and that by its post.                       *)
Covered(x) ==
  \/ \E s \in collecting : s <= x + Interval
  \/ \E p \in posting : p[2] <= x + Interval + Collect
  \/ replying # -1 /\ replying + Delay <= x
  \/ next # -1 /\ next <= x + Interval

(* last_seen was stored, and answered, at most Delay after its stamp.       *)
Renewed == faults = 0 /\ lastSeen # -1 => Covered(lastSeen + Delay)

(* The latest snapshot is the youngest.                                     *)
Youngest == \A d \in stored : d <= newest

LoopInv == TypeOK /\ OnTime /\ Renewed /\ Youngest

LEMMA LoopInvInit == Init => LoopInv
  BY LoopAssumption DEF Init, LoopInv, TypeOK, OnTime, Renewed, Youngest

LEMMA TickKeepsInv == ASSUME LoopInv, tick PROVE LoopInv'
<1>1. TypeOK'
  BY LoopAssumption DEF tick, LoopInv, TypeOK
<1>2. OnTime' /\ Youngest'
  BY LoopAssumption DEF tick, LoopInv, TypeOK, OnTime, Youngest
<1>3. ASSUME NEW x \in Int, Covered(x) PROVE Covered(x)'
  <2>1. CASE next <= x + Interval
    <3>1. now \in collecting' /\ now <= x + Interval
      BY <2>1 DEF tick
    <3>. QED BY <3>1 DEF Covered
  <2>2. CASE ~(next <= x + Interval)
    BY <1>3, <2>2 DEF tick, Covered
  <2>. QED BY <2>1, <2>2
<1>4. Renewed'
  BY <1>3, LoopAssumption DEF tick, LoopInv, TypeOK, Renewed
<1>. QED BY <1>1, <1>2, <1>4 DEF LoopInv

LEMMA CollectKeepsInv ==
  ASSUME LoopInv, NEW s \in collecting, collectSnapshot(s) PROVE LoopInv'
<1>1. TypeOK'
  BY LoopAssumption DEF collectSnapshot, LoopInv, TypeOK
<1>2. OnTime' /\ Youngest'
  BY LoopAssumption DEF collectSnapshot, LoopInv, TypeOK, OnTime, Youngest
<1>3. ASSUME NEW x \in Int, Covered(x) PROVE Covered(x)'
  <2>1. CASE s <= x + Interval
    <3>1. <<s, now>> \in posting' /\ <<s, now>>[2] <= x + Interval + Collect
      BY <2>1, LoopAssumption DEF collectSnapshot, LoopInv, TypeOK, OnTime
    <3>. QED BY <3>1 DEF Covered
  <2>2. CASE ~(s <= x + Interval)
    BY <1>3, <2>2 DEF collectSnapshot, Covered
  <2>. QED BY <2>1, <2>2
<1>4. Renewed'
  BY <1>3, LoopAssumption DEF collectSnapshot, LoopInv, TypeOK, Renewed
<1>. QED BY <1>1, <1>2, <1>4 DEF LoopInv

(* The stored post is answered in time, or the interval runs already.       *)
LEMMA IngestKeepsInv ==
  ASSUME LoopInv, NEW p \in posting, ingestSnapshot(p) PROVE LoopInv'
<1>1. PICK c \in stored \cup {p[2]} : getLatestSnapshot(c, p[2]) /\ newest' = c
  BY DEF ingestSnapshot
<1>2. p[2] \in 0..now /\ now <= p[2] + Delay
  BY DEF LoopInv, TypeOK, OnTime
<1>3. TypeOK'
  <2>1. PICK d \in 0..now : d = p[2]
    BY <1>2
  <2>2. /\ now' = now /\ next' = next /\ collecting' = collecting /\ faults' = faults
        /\ posting' = posting \ {p} /\ replying' \in {d, replying}
        /\ stored' = stored \cup {d} /\ newest' \in stored \cup {d} /\ lastSeen' = d
    BY <1>1, <2>1 DEF ingestSnapshot, lastSeenOf, Arrives
  <2>. QED BY <2>2 DEF LoopInv, TypeOK
<1>4. OnTime' /\ Youngest'
  BY <1>1, <1>2, LoopAssumption
  DEF ingestSnapshot, getLatestSnapshot, Arrives, LoopInv, TypeOK, OnTime, Youngest
<1>5. Renewed'
  BY <1>2, LoopAssumption
  DEF ingestSnapshot, lastSeenOf, Arrives, LoopInv, TypeOK, OnTime, Renewed, Covered
<1>. QED BY <1>3, <1>4, <1>5 DEF LoopInv

(* The awaited tick ends no later than Delay after its stamp.               *)
LEMMA RespondedKeepsInv == ASSUME LoopInv, Responded PROVE LoopInv'
<1>1. TypeOK' /\ OnTime' /\ Youngest'
  BY LoopAssumption DEF Responded, TickEnds, LoopInv, TypeOK, OnTime, Youngest
<1>2. Renewed'
  BY LoopAssumption DEF Responded, TickEnds, LoopInv, TypeOK, OnTime, Renewed, Covered
<1>. QED BY <1>1, <1>2 DEF LoopInv

LEMMA FaultKeepsInv ==
  ASSUME LoopInv, Restart \/ \E p \in posting : postFails(p) PROVE LoopInv'
<1>1. CASE Restart
  BY <1>1, LoopAssumption DEF Restart, LoopInv, TypeOK, OnTime, Renewed, Youngest
<1>2. ASSUME NEW p \in posting, postFails(p) PROVE LoopInv'
  BY <1>2, LoopAssumption
  DEF postFails, TickEnds, LoopInv, TypeOK, OnTime, Renewed, Youngest
<1>. QED BY <1>1, <1>2

LEMMA ElapseKeepsInv == ASSUME LoopInv, Elapse PROVE LoopInv'
<1>1. TypeOK' /\ OnTime' /\ Youngest'
  BY LoopAssumption DEF Elapse, LoopInv, TypeOK, OnTime, Youngest
<1>2. Renewed'
  BY DEF Elapse, LoopInv, Renewed, Covered
<1>. QED BY <1>1, <1>2 DEF LoopInv

LEMMA LoopInvStep == LoopInv /\ [Next]_vars => LoopInv'
<1> SUFFICES ASSUME LoopInv, [Next]_vars PROVE LoopInv'
  OBVIOUS
<1>1. CASE UNCHANGED vars
  BY <1>1 DEF vars, LoopInv, TypeOK, OnTime, Renewed, Covered, Youngest
<1>2. CASE Next
  BY <1>2, TickKeepsInv, CollectKeepsInv, IngestKeepsInv, RespondedKeepsInv,
     FaultKeepsInv, ElapseKeepsInv
  DEF Next
<1>. QED BY <1>1, <1>2

LEMMA LoopInvHolds == Spec => []LoopInv
  BY LoopInvInit, LoopInvStep, PTL DEF Spec

(* The loop's state and the tables keep their types.                        *)
THEOREM LoopTypeCorrect == Spec => []TypeOK
<1>1. LoopInv => TypeOK
  BY DEF LoopInv
<1>. QED BY <1>1, LoopInvHolds, PTL

(* What is under way is soon enough to keep last_seen young.                *)
LEMMA LoopInvAge == LoopInv => AgeBounded
<1> SUFFICES ASSUME LoopInv, faults = 0, lastSeen # -1
             PROVE  now - lastSeen <= MaxAge
  BY DEF AgeBounded
<1>1. Covered(lastSeen + Delay)
  BY DEF LoopInv, Renewed
<1>2. lastSeen \in Int /\ now \in Int
  BY DEF LoopInv, TypeOK
<1>3. CASE \E s \in collecting : s <= lastSeen + Delay + Interval
  BY <1>2, <1>3, LoopAssumption DEF LoopInv, TypeOK, OnTime, MaxAge
<1>4. CASE \E p \in posting : p[2] <= lastSeen + Delay + Interval + Collect
  BY <1>2, <1>4, LoopAssumption DEF LoopInv, TypeOK, OnTime, MaxAge
<1>5. CASE replying # -1 /\ replying + Delay <= lastSeen + Delay
  BY <1>2, <1>5, LoopAssumption DEF LoopInv, TypeOK, OnTime, MaxAge
<1>6. CASE next # -1 /\ next <= lastSeen + Delay + Interval
  BY <1>2, <1>6, LoopAssumption DEF LoopInv, TypeOK, OnTime, MaxAge
<1>. QED BY <1>1, <1>3, <1>4, <1>5, <1>6 DEF Covered

(* A reporting agent's last_seen is never older than an interval, a         *)
(* collection and two delays of a post, whichever posts overtake each       *)
(* other: with OFFLINE_THRESHOLD_MS at least that it is never taken for     *)
(* offline (routes.ts isOnline, db.ts ingestSnapshot).                      *)
THEOREM LoopAgeBounded == Spec => []AgeBounded
  BY LoopInvAge, LoopInvHolds, PTL

(* The latest snapshot never goes back and is never older than last_seen    *)
(* (getLatestSnapshot, ORDER BY created_at DESC).                           *)
THEOREM LoopLatestForward == Spec => LatestForward
<1>1. LoopInv /\ LoopInv' /\ [Next]_vars => [newest' >= newest /\ newest' >= lastSeen']_vars
  <2> SUFFICES ASSUME LoopInv, LoopInv', [Next]_vars
               PROVE  newest' >= newest /\ newest' >= lastSeen'
    OBVIOUS
  <2>1. newest' >= lastSeen'
    BY DEF LoopInv, TypeOK, Youngest
  <2>2. newest \in Int /\ newest >= -1
    BY DEF LoopInv, TypeOK
  <2>3. ASSUME NEW p \in posting, ingestSnapshot(p) PROVE newest' >= newest
    <3>1. PICK c \in stored \cup {p[2]} : getLatestSnapshot(c, p[2]) /\ newest' = c
      BY <2>3 DEF ingestSnapshot
    <3>2. c \in Int /\ c >= 0 /\ (newest \in stored \/ newest = -1)
      BY DEF LoopInv, TypeOK
    <3>. QED BY <2>2, <3>1, <3>2 DEF getLatestSnapshot
  <2>4. CASE UNCHANGED newest
    BY <2>1, <2>2, <2>4
  <2>5. (\E p \in posting : ingestSnapshot(p)) \/ UNCHANGED newest
    <3>1. CASE tick \/ Responded \/ Restart \/ Elapse \/ UNCHANGED vars
      BY <3>1 DEF tick, Responded, Restart, Elapse, vars
    <3>2. ASSUME NEW s \in collecting, collectSnapshot(s) PROVE UNCHANGED newest
      BY <3>2 DEF collectSnapshot
    <3>3. ASSUME NEW p \in posting, postFails(p) PROVE UNCHANGED newest
      BY <3>3 DEF postFails
    <3>. QED BY <3>1, <3>2, <3>3 DEF Next
  <2>. QED BY <2>1, <2>3, <2>4, <2>5
<1>. QED BY <1>1, LoopInvHolds, PTL DEF Spec, LatestForward
================================================================================
