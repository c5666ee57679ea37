--------------------------- MODULE FahStatusProofs ---------------------------
(* Theorems about FahStatus: the scan of a list of any length takes the unit *)
(* no other beats, and the merge of any four sources is faithful.            *)
EXTENDS FahStatus, TLAPS

USE FahAssumption

(* Optional numbers.                                                        *)
LEMMA NumType == \A x \in Progress \cup Ppd : Num(x) \in Nat
BY DEF Num, Progress, Ppd

LEMMA StateOfType ==
  ASSUME NEW s \in Sources, NEW u \in Units
  PROVE  StateOf(s, u) \in States
BY DEF StateOf, States, Progress, Ppd

LEMMA ScoreType ==
  ASSUME NEW step \in Steps, NEW u \in Units
  PROVE  Score(step, u) \in Nat
<1>1. Num(u.progress) \in Nat /\ Num(u.ppd) \in Nat
  BY NumType
<1>2. \A s : StatusScore(s, u) \in Nat
  BY DEF StatusScore, Statuses
<1> QED BY <1>1, <1>2 DEF Score

(* merge_states of states is a state.                                       *)
LEMMA MergeType ==
  ASSUME NEW base \in States, NEW fb \in States \cup {None}
  PROVE  MergeInto(base, fb) \in States
BY DEF MergeInto, MergeField, MergeProgress, States, Progress, Ppd

LEMMA ElementType ==
  ASSUME TypeOK, NEW i \in DOMAIN units
  PROVE  units[i] \in Units
BY DEF TypeOK, Lists

LEMMA LengthType == TypeOK => Len(units) \in Nat /\ DOMAIN units = 1..Len(units)
BY DEF TypeOK, Lists
-----------------------------------------------------------------------------
(* The loop invariant of a scan: best is the first of the highest scores of  *)
(* the readable units passed, 0 if there was none; the crates pass no other  *)
(* unit.                                                                     *)
Passed == 1..next-1

ScanInv ==
  Scanning =>
    /\ best < next
    /\ best # 0 => Readable(units[best])
    /\ pc = "pick" => units # <<>>
    /\ \A j \in Passed :
         /\ Crates => Readable(units[j])
         /\ Readable(units[j]) =>
              /\ best # 0
              /\ Score(pc, units[j]) <= Score(pc, units[best])
              /\ j < best => Score(pc, units[j]) < Score(pc, units[best])

(* Why there is a relaxed scan: no unit of the list is readable; in the      *)
(* crates, one is not.                                                       *)
RelaxedInv ==
  pc = "relaxed" =>
    IF Crates THEN \E j \in DOMAIN units : ~Readable(units[j])
    ELSE \A j \in DOMAIN units : ~Readable(units[j])

FahInv == TypeOK /\ ScanInv /\ RelaxedInv /\ MergeFaithful

LEMMA InitInv == Init => FahInv
<1> SUFFICES ASSUME Init PROVE FahInv
  OBVIOUS
<1>1. <<>> \in [1..0 -> Units]
  OBVIOUS
<1>2. <<>> \in Lists
  BY <1>1 DEF Lists
<1> QED BY <1>2 DEF Init, FahInv, TypeOK, ScanInv, RelaxedInv, MergeFaithful, Scanning, Steps, Passed

LEMMA ListType ==
  ASSUME NEW list \in Lists
  PROVE  Len(list) \in Nat /\ <<>> \in Lists
<1>1. <<>> \in [1..0 -> Units]
  OBVIOUS
<1> QED BY <1>1 DEF Lists

LEMMA GiveUpType ==
  ASSUME TypeOK, Scanning, GiveUp, UNCHANGED <<got, reported>>
  PROVE  TypeOK'
<1>1. Len(units) \in Nat /\ <<>> \in Lists /\ units \in Lists
  BY ListType DEF TypeOK
<1>2. (pc' \in {"relaxed", "log", "ws"}) /\ units' \in {units, <<>>} /\ next' = 1 /\ best' = 0
  BY DEF GiveUp, Scan, Scanning
<1> QED BY <1>1, <1>2 DEF TypeOK, Steps

LEMMA StepTypeOK ==
  ASSUME TypeOK, Next
  PROVE  TypeOK'
<1>1. \A list \in Lists : Len(list) \in Nat /\ <<>> \in Lists
  BY ListType
<1>2. units \in Lists /\ <<>> \in Lists
  BY <1>1 DEF TypeOK
<1> USE <1>1, <1>2
<1>3. CASE ReadDb
  BY <1>3 DEF ReadDb, Scan, TypeOK, Steps
<1>4. CASE DbUnavailable
  BY <1>4 DEF DbUnavailable, TypeOK, Steps
<1>5. CASE LookAt
  <2>1. next \in 1..Len(units) /\ next' = next + 1 /\ best' \in {best, next}
    BY <1>5 DEF LookAt, TypeOK
  <2> QED BY <1>5, <2>1 DEF LookAt, TypeOK
<1>6. CASE Skip
  <2>1. CASE GiveUp
    BY <1>6, <2>1, GiveUpType DEF Skip
  <2>2. CASE ~Crates
    <3>1. next' = next + 1 /\ UNCHANGED <<pc, units, best, got, reported>>
      BY <1>6, <2>2 DEF Skip
    <3>2. next \in 1..Len(units)
      BY <1>6 DEF Skip, TypeOK
    <3> QED BY <3>1, <3>2 DEF TypeOK
  <2> QED BY <1>6, <2>1, <2>2 DEF Skip
<1>7. CASE Picked
  <2>1. best \in DOMAIN units
    BY <1>7 DEF Picked, TypeOK, Lists
  <2>2. units[best] \in Units
    BY <2>1, ElementType
  <2>3. \A s \in Sources : StateOf(s, units[best]) \in States
    BY <2>2, StateOfType
  <2>4. got' \in [Sources -> States \cup {None}]
    BY <1>7, <2>3 DEF Picked, TypeOK, Sources
  <2>5. pc' \in {"merge", "log"} /\ units' = <<>> /\ next' = 1 /\ best' = 0
    BY <1>7 DEF Picked, Scan
  <2> QED BY <1>7, <2>4, <2>5 DEF Picked, TypeOK, Steps
<1>8. CASE NothingPicked
  BY <1>8, GiveUpType DEF NothingPicked
<1>9. CASE ReadLog
  <2>1. LogStates \cup {Empty} \subseteq States
    BY DEF States, Empty, Progress, Ppd
  <2> QED BY <1>9, <2>1 DEF ReadLog, Read, TypeOK, Steps, Sources
<1>10. CASE ReadWorkLog
  BY <1>10 DEF ReadWorkLog, Read, TypeOK, Steps, Sources
<1>11. CASE WsMessage
  BY <1>11 DEF WsMessage, Scan, TypeOK, Steps
<1>12. CASE WsEnds
  BY <1>12 DEF WsEnds, TypeOK, Steps
<1>13. CASE Merge
  <2>1. Primary \in States
    BY DEF Primary, TypeOK, Sources, States, Empty, Progress, Ppd
  <2>2. \A s \in Sources : got[s] \in States \cup {None}
    BY DEF TypeOK
  <2>3. reported' \in States
    BY <1>13, <2>1, <2>2, MergeType DEF Merge, Sources
  <2> QED BY <1>13, <2>3 DEF Merge, TypeOK, Steps
<1>14. CASE Restart
  BY <1>14 DEF Restart, TypeOK, Steps
<1> QED BY <1>3, <1>4, <1>5, <1>6, <1>7, <1>8, <1>9, <1>10, <1>11, <1>12, <1>13, <1>14 DEF Next

LEMMA StepScanInv ==
  ASSUME TypeOK, ScanInv, RelaxedInv, Next
  PROVE  ScanInv' /\ RelaxedInv'
<1> USE DEF ScanInv, RelaxedInv, Scanning, Passed
<1>1. CASE ReadDb \/ WsMessage
  BY <1>1 DEF ReadDb, WsMessage, Scan
<1>2. CASE LookAt
  <2>1. next \in 1..Len(units) /\ best \in 0..Len(units) /\ units[next] \in Units
    BY <1>2, ElementType, LengthType DEF LookAt, TypeOK
  <2>2. \A j \in 1..next : Score(pc, units[j]) \in Nat
    BY <2>1, ElementType, LengthType, ScoreType DEF TypeOK
  <2>3. pc' = pc /\ units' = units /\ next' = next + 1 /\ Readable(units[next])
    BY <1>2 DEF LookAt
  <2>6. \A j \in Passed' : j \in Passed \/ j = next
    BY <2>1, <2>3
  <2>4. CASE best = 0 \/ Score(pc, units[next]) > Score(pc, units[best])
    <3>1. best' = next
      BY <1>2, <2>4 DEF LookAt
    <3> QED BY <1>2, <2>1, <2>2, <2>3, <2>4, <2>6, <3>1 DEF LookAt
  <2>5. CASE ~(best = 0 \/ Score(pc, units[next]) > Score(pc, units[best]))
    <3>1. best' = best
      BY <1>2, <2>5 DEF LookAt
    <3> QED BY <1>2, <2>1, <2>2, <2>3, <2>5, <2>6, <3>1 DEF LookAt
  <2> QED BY <2>4, <2>5
<1>3. CASE Skip
  <2>1. next \in DOMAIN units /\ ~Readable(units[next]) /\ next \in Nat
    BY <1>3, LengthType DEF Skip, TypeOK
  <2>2. CASE Crates
    <3>1. GiveUp
      BY <1>3, <2>2 DEF Skip
    <3>2. \/ pc' = "relaxed" /\ units' = units
          \/ pc' \in {"log", "ws"}
      BY <1>3, <3>1 DEF Skip, GiveUp, Scan
    <3>3. next' = 1 /\ best' = 0
      BY <1>3, <3>1 DEF Skip, GiveUp, Scan
    <3> QED BY <2>1, <2>2, <3>2, <3>3
  <2>3. CASE ~Crates
    <3>1. next' = next + 1 /\ UNCHANGED <<pc, units, best>>
      BY <1>3, <2>3 DEF Skip
    <3>2. \A j \in Passed' : j \in Passed \/ j = next
      BY <2>1, <3>1
    <3>3. best \in Nat
      BY LengthType DEF TypeOK
    <3> QED BY <1>3, <2>1, <2>3, <3>1, <3>2, <3>3 DEF Skip
  <2> QED BY <2>2, <2>3
<1>4. CASE NothingPicked
  <2>1. /\ Len(units) \in Nat /\ DOMAIN units = 1..Len(units)
        /\ next = Len(units) + 1 /\ best = 0
    BY <1>4, LengthType DEF NothingPicked, TypeOK
  <2>2. \A j \in DOMAIN units : j \in Passed
    BY <2>1
  <2>3. \A j \in DOMAIN units : ~Readable(units[j])
    BY <1>4, <2>1, <2>2 DEF NothingPicked
  <2>4. next' = 1 /\ best' = 0
    BY <1>4 DEF NothingPicked, GiveUp, Scan
  <2>5. \/ pc = "pick" /\ pc' = "relaxed" /\ units' = units
        \/ pc' \in {"log", "ws"}
    BY <1>4 DEF NothingPicked, GiveUp, Scan
  <2>6. pc = "pick" => units # <<>>
    BY <1>4 DEF NothingPicked
  <2>7. units # <<>> => 1 \in DOMAIN units
    <3>1. units \in Seq(Units)
      BY DEF TypeOK, Lists
    <3>2. units # <<>> => Len(units) # 0
      BY <3>1
    <3> QED BY <2>1, <3>2
  <2> QED BY <2>2, <2>3, <2>4, <2>5, <2>6, <2>7
<1>5. CASE DbUnavailable \/ Picked \/ ReadLog \/ ReadWorkLog \/ WsEnds \/ Merge \/ Restart
  BY <1>5 DEF DbUnavailable, Picked, ReadLog, ReadWorkLog, Read, WsEnds, Merge, Restart, Scan
<1> QED BY <1>1, <1>2, <1>3, <1>4, <1>5 DEF Next
-----------------------------------------------------------------------------
(* One step of the merge.                                                   *)
LEMMA MergeStep ==
  ASSUME NEW base \in States, NEW fb \in States \cup {None},
         NEW m, m = MergeInto(base, fb)
  PROVE  /\ m \in States
         /\ m.project = IF base.project # None THEN base.project
                        ELSE IF fb = None THEN None ELSE fb.project
         /\ m.ppd = IF base.ppd # None THEN base.ppd
                    ELSE IF fb = None THEN None ELSE fb.ppd
         /\ Num(base.progress) <= Num(m.progress)
         /\ fb # None => Num(fb.progress) <= Num(m.progress)
         /\ m.progress = base.progress \/ (fb # None /\ m.progress = fb.progress)
<1>1. m \in States
  BY MergeType
<1>2. CASE fb = None
  <2>1. m = base /\ Num(base.progress) \in Nat
    BY <1>2, NumType DEF MergeInto, States
  <2> QED BY <1>2, <2>1 DEF States
<1>3. CASE fb # None
  <2>1. /\ m.project = MergeField(base.project, fb.project)
        /\ m.ppd = MergeField(base.ppd, fb.ppd)
        /\ m.progress = MergeProgress(base.progress, fb.progress)
    BY <1>3 DEF MergeInto
  <2>2. base.progress \in Progress /\ fb.progress \in Progress
    BY <1>3 DEF States
  <2> QED BY <1>1, <1>3, <2>1, <2>2 DEF MergeField, MergeProgress, Num, Progress
<1> QED BY <1>1, <1>2, <1>3

LEMMA Orders ==
  /\ DOMAIN SourceOrder = 1..4
  /\ SourceOrder[1] = "work" /\ SourceOrder[2] = "log"
  /\ SourceOrder[3] = "ws" /\ SourceOrder[4] = "db"
BY DEF SourceOrder

LEMMA StepMergeFaithful ==
  ASSUME TypeOK, MergeFaithful, Next
  PROVE  MergeFaithful'
<1>1. CASE Merge
  <2> DEFINE m0 == Primary
             m1 == MergeInto(m0, got["log"])
             m2 == MergeInto(m1, got["ws"])
             m3 == MergeInto(m2, got["db"])
  <2>1. m0 \in States /\ \A s \in Sources : got[s] \in States \cup {None}
    BY DEF Primary, TypeOK, Sources, States, Empty, Progress, Ppd
  <2>2. /\ m0.project = IF got["work"] = None THEN None ELSE got["work"].project
        /\ m0.ppd = IF got["work"] = None THEN None ELSE got["work"].ppd
        /\ m0.progress = IF got["work"] = None THEN None ELSE got["work"].progress
    BY DEF Primary, Empty
  <2>3. got' = got /\ reported' = m3
    BY <1>1 DEF Merge
  <2>4. m1 \in States /\ m2 \in States /\ m3 \in States
    BY <2>1, MergeType DEF Sources
  <2>5. /\ reported'.project = m3.project /\ reported'.ppd = m3.ppd
        /\ reported'.progress = m3.progress
    BY <2>3
  <2> HIDE DEF m0, m1, m2, m3
  <2>6. FirstWith("project", reported.project)'
    <3>1. m3.project =
            IF m0.project # None THEN m0.project
            ELSE IF got["log"] # None /\ got["log"].project # None THEN got["log"].project
            ELSE IF got["ws"] # None /\ got["ws"].project # None THEN got["ws"].project
            ELSE IF got["db"] = None THEN None ELSE got["db"].project
      BY <2>1, <2>4, MergeStep DEF m1, m2, m3, Sources
    <3> QED BY <2>2, <2>3, <2>5, <3>1, Orders DEF FirstWith, Sources
  <2>7. FirstWith("ppd", reported.ppd)'
    <3>1. m3.ppd =
            IF m0.ppd # None THEN m0.ppd
            ELSE IF got["log"] # None /\ got["log"].ppd # None THEN got["log"].ppd
            ELSE IF got["ws"] # None /\ got["ws"].ppd # None THEN got["ws"].ppd
            ELSE IF got["db"] = None THEN None ELSE got["db"].ppd
      BY <2>1, <2>4, MergeStep DEF m1, m2, m3, Sources
    <3> QED BY <2>2, <2>3, <2>5, <3>1, Orders DEF FirstWith, Sources
  <2>8. /\ \A s \in Sources : got[s] # None => Num(got[s].progress) <= Num(m3.progress)
        /\ m3.progress # None =>
             \E s \in Sources : got[s] # None /\ got[s].progress = m3.progress
    <3>1. \A m \in {m0, m1, m2, m3} : Num(m.progress) \in Nat
      BY <2>1, <2>4, NumType DEF States
    <3>2. \A s \in Sources : got[s] # None => Num(got[s].progress) \in Nat
      BY <2>1, NumType DEF States
    <3>3. /\ Num(m0.progress) <= Num(m1.progress)
          /\ got["log"] # None => Num(got["log"].progress) <= Num(m1.progress)
          /\ m1.progress = m0.progress \/ (got["log"] # None /\ m1.progress = got["log"].progress)
      BY <2>1, MergeStep DEF m1, Sources
    <3>4. /\ Num(m1.progress) <= Num(m2.progress)
          /\ got["ws"] # None => Num(got["ws"].progress) <= Num(m2.progress)
          /\ m2.progress = m1.progress \/ (got["ws"] # None /\ m2.progress = got["ws"].progress)
      BY <2>1, <2>4, MergeStep DEF m2, Sources
    <3>5. /\ Num(m2.progress) <= Num(m3.progress)
          /\ got["db"] # None => Num(got["db"].progress) <= Num(m3.progress)
          /\ m3.progress = m2.progress \/ (got["db"] # None /\ m3.progress = got["db"].progress)
      BY <2>1, <2>4, MergeStep DEF m3, Sources
    <3> QED BY <2>2, <3>1, <3>2, <3>3, <3>4, <3>5 DEF Sources
  <2>9. /\ \A s \in Sources : got'[s] # None => Num(got'[s].progress) <= Num(reported'.progress)
        /\ reported'.progress # None =>
             \E s \in Sources : got'[s] # None /\ got'[s].progress = reported'.progress
    BY <2>3, <2>5, <2>8
  <2> QED BY <2>6, <2>7, <2>9 DEF MergeFaithful, Num
<1>2. CASE ~Merge
  <2>1. pc' # "done"
    BY <1>2 DEF Next, ReadDb, DbUnavailable, LookAt, Skip, GiveUp, Picked, NothingPicked, ReadLog,
                ReadWorkLog, Read, WsMessage, WsEnds, Restart, Scan, Scanning
  <2> QED BY <2>1 DEF MergeFaithful
<1> QED BY <1>1, <1>2
-----------------------------------------------------------------------------
LEMMA SpecInv == Spec => []FahInv
<1>1. Init => FahInv
  BY InitInv
<1>2. FahInv /\ [Next]_vars => FahInv'
  <2> SUFFICES ASSUME FahInv, [Next]_vars PROVE FahInv'
    OBVIOUS
  <2>1. CASE Next
    BY <2>1, StepTypeOK, StepScanInv, StepMergeFaithful DEF FahInv
  <2>2. CASE UNCHANGED vars
    <3> USE <2>2 DEF vars
    <3>1. TypeOK'
      BY DEF FahInv, TypeOK
    <3>2. ScanInv' /\ RelaxedInv'
      BY DEF FahInv, ScanInv, RelaxedInv, Scanning, Passed
    <3>3. MergeFaithful'
      BY DEF FahInv, MergeFaithful, FirstWith
    <3> QED BY <3>1, <3>2, <3>3 DEF FahInv
  <2> QED BY <2>1, <2>2
<1> QED BY <1>1, <1>2, PTL DEF Spec

(* The scores order the units of a list as Beats does, except for equals.    *)
LEMMA BeatsScores ==
  ASSUME NEW list \in Lists, NEW i \in DOMAIN list, NEW j \in DOMAIN list,
         NEW step \in {"pick", "message"},
         NEW s, s = IF step = "message" THEN "ws" ELSE "db",
         Beats(s, list, i, j)
  PROVE  \/ Score(step, list[i]) > Score(step, list[j])
         \/ Score(step, list[i]) = Score(step, list[j]) /\ i < j
<1> DEFINE a == list[i]
           b == list[j]
           Price(u) == IF Priced(s, u) THEN 200 ELSE 0
<1>1. a \in Units /\ b \in Units
  BY DEF Lists
<1>2. /\ Num(a.progress) \in 0..100
      /\ Num(b.progress) \in 0..100
  BY <1>1 DEF Num, Progress
<1>3. /\ StatusScore(s, a) \in Nat /\ StatusScore(s, b) \in Nat
      /\ a.status = b.status => StatusScore(s, a) = StatusScore(s, b)
      /\ a.status = "RUN" => StatusScore(s, a) = 1000
      /\ b.status # "RUN" => StatusScore(s, b) <= 500
  BY DEF StatusScore
<1>4. /\ Score(step, a) = Num(a.progress) + Price(a) + StatusScore(s, a)
      /\ Score(step, b) = Num(b.progress) + Price(b) + StatusScore(s, b)
  BY DEF Score
<1>5. /\ Price(a) = (IF Priced(s, a) THEN 200 ELSE 0)
      /\ Price(b) = (IF Priced(s, b) THEN 200 ELSE 0)
  OBVIOUS
<1>6. \/ a.status = "RUN" /\ b.status # "RUN"
      \/ /\ a.status = b.status
         /\ \/ Price(a) = 200 /\ Price(b) = 0
            \/ /\ Price(a) = Price(b)
               /\ \/ Num(a.progress) > Num(b.progress)
                  \/ Num(a.progress) = Num(b.progress) /\ i < j
  BY DEF Beats
<1>7. Price(a) \in {0, 200} /\ Price(b) \in {0, 200}
  OBVIOUS
<1> DEFINE na == Num(a.progress)
           nb == Num(b.progress)
           pa == Price(a)
           pb == Price(b)
           sa == StatusScore(s, a)
           sb == StatusScore(s, b)
<1>8. /\ na \in 0..100 /\ nb \in 0..100 /\ pa \in {0, 200} /\ pb \in {0, 200}
      /\ sa \in Nat /\ sb \in Nat
  BY <1>2, <1>3, <1>7
<1>9. \/ sa = 1000 /\ sb <= 500
      \/ sa = sb /\ pa = 200 /\ pb = 0
      \/ sa = sb /\ pa = pb /\ na > nb
      \/ sa = sb /\ pa = pb /\ na = nb /\ i < j
  BY <1>3, <1>6
<1>10. Score(step, a) = na + pa + sa /\ Score(step, b) = nb + pb + sb
  BY <1>4
<1> HIDE DEF na, nb, pa, pb, sa, sb
<1> QED BY <1>8, <1>9, <1>10

(* No readable unit of a scan that ended beats the one taken.                *)
LEMMA PickedIsBest ==
  ASSUME FahInv, Picked,
         NEW s, s = IF pc = "message" THEN "ws" ELSE "db"
  PROVE  /\ best \in DOMAIN units
         /\ got' = [got EXCEPT ![s] = StateOf(s, units[best])]
         /\ \A j \in DOMAIN units :
              /\ Crates => Readable(units[j])
              /\ Readable(units[j]) => ~Beats(s, units, j, best)
<1>1. /\ TypeOK /\ ScanInv /\ RelaxedInv /\ Scanning
      /\ Len(units) \in Nat /\ DOMAIN units = 1..Len(units)
      /\ next = Len(units) + 1 /\ best \in DOMAIN units
  BY LengthType DEF Picked, FahInv, TypeOK
<1>2. /\ Readable(units[best])
      /\ \A j \in DOMAIN units :
           /\ Crates => Readable(units[j])
           /\ Readable(units[j]) =>
                /\ Score(pc, units[j]) <= Score(pc, units[best])
                /\ j < best => Score(pc, units[j]) < Score(pc, units[best])
  BY <1>1 DEF ScanInv, Passed
<1>3. pc \in {"pick", "message"}
  BY <1>1, <1>2 DEF Scanning, RelaxedInv
<1>4. ASSUME NEW j \in DOMAIN units, Readable(units[j]), Beats(s, units, j, best) PROVE FALSE
  <2>1. \/ Score(pc, units[j]) > Score(pc, units[best])
        \/ Score(pc, units[j]) = Score(pc, units[best]) /\ j < best
    BY <1>1, <1>3, <1>4, BeatsScores DEF TypeOK
  <2>2. Score(pc, units[j]) \in Nat /\ Score(pc, units[best]) \in Nat
    BY <1>1, ElementType, ScoreType DEF TypeOK
  <2> QED BY <1>2, <1>4, <2>1, <2>2
<1> QED BY <1>1, <1>2, <1>4 DEF Picked
-----------------------------------------------------------------------------
(* Every variable of a collection keeps its type.                           *)
THEOREM FahTypeCorrect == Spec => []TypeOK
BY SpecInv, PTL DEF FahInv

(* mergeStates: each field comes from the first source that has it, and     *)
(* the progress is the highest, whatever the four sources say.               *)
THEOREM FahMergeFaithful == Spec => []MergeFaithful
BY SpecInv, PTL DEF FahInv

(* pickBestUnit: of a list of any length the unit taken is beaten by no      *)
(* readable one.                                                             *)
THEOREM FahPicksBest == Spec => PicksBest
<1> DEFINE Best == \A s \in {"db", "ws"} :
        got'[s] \notin {got[s], None} =>
          \E i \in DOMAIN units :
            /\ got'[s] = StateOf(s, units[i])
            /\ \A j \in DOMAIN units :
                 /\ Crates => Readable(units[j])
                 /\ Readable(units[j]) => ~Beats(s, units, j, i)
<1>1. FahInv /\ [Next]_vars => Best
  <2> SUFFICES ASSUME FahInv, [Next]_vars PROVE Best
    OBVIOUS
  <2>0. got \in [Sources -> States \cup {None}]
    BY DEF FahInv, TypeOK
  <2>1. CASE Picked
    <3> DEFINE t == IF pc = "message" THEN "ws" ELSE "db"
    <3>1. /\ best \in DOMAIN units
          /\ got' = [got EXCEPT ![t] = StateOf(t, units[best])]
          /\ \A j \in DOMAIN units :
               /\ Crates => Readable(units[j])
               /\ Readable(units[j]) => ~Beats(t, units, j, best)
      BY <2>1, PickedIsBest
    <3>2. t \in Sources
      BY DEF Sources
    <3> HIDE DEF t
    <3>3. \A s \in {"db", "ws"} : s # t => got'[s] = got[s]
      BY <2>0, <3>1
    <3>4. got'[t] = StateOf(t, units[best])
      BY <2>0, <3>1, <3>2
    <3> QED BY <3>1, <3>3, <3>4
  <2>2. CASE ~Picked
    <3>1. \A s \in {"db", "ws"} : got'[s] \in {got[s], None}
      BY <2>0, <2>2 DEF Next, vars, ReadDb, DbUnavailable, LookAt, Skip, GiveUp, NothingPicked, ReadLog,
                ReadWorkLog, Read, WsMessage, WsEnds, Restart, Merge, Scan, Sources
    <3> QED BY <3>1
  <2> QED BY <2>1, <2>2
<1>2. Spec => [][Best]_vars
  BY <1>1, SpecInv, PTL DEF Spec
<1> QED BY <1>2 DEF PicksBest

(* In Node no readable running unit of client.db is lost, whatever else the  *)
(* list holds (pickBestUnit, pickBestUnitRelaxed).                           *)
THEOREM FahFindsRunning == ~Crates => (Spec => RunningUnitFound)
<1> SUFFICES ASSUME ~Crates PROVE Spec => RunningUnitFound
  OBVIOUS
<1> DEFINE Found == (pc \in {"pick", "relaxed"} /\ pc' = "log" /\ got'["db"] = None) =>
        \A i \in DOMAIN units : units[i].status = "RUN" => ~Readable(units[i])
<1>1. FahInv /\ [Next]_vars => Found
  <2> SUFFICES ASSUME FahInv, [Next]_vars, pc \in {"pick", "relaxed"}, pc' = "log",
                      got'["db"] = None
      PROVE  \A i \in DOMAIN units : ~Readable(units[i])
    OBVIOUS
  <2>1. CASE Picked
    <3>1. best \in DOMAIN units
      BY <2>1 DEF Picked, FahInv, TypeOK, Lists
    <3>2. got'["db"] = StateOf("db", units[best])
      BY <2>1 DEF Picked, FahInv, TypeOK, Sources
    <3>3. StateOf("db", units[best]) \in States
      BY <3>1, ElementType, StateOfType DEF FahInv, Sources
    <3> QED BY <3>2, <3>3
  <2>2. CASE NothingPicked
    <3>1. pc = "relaxed"
      BY <2>2 DEF NothingPicked, GiveUp, Scan
    <3> QED BY <3>1 DEF FahInv, RelaxedInv
  <2>3. CASE ~Picked /\ ~NothingPicked
    BY <2>3 DEF Next, vars, ReadDb, DbUnavailable, LookAt, Skip, ReadLog, ReadWorkLog, Read,
                WsMessage, WsEnds, Merge, Restart, Scan
  <2> QED BY <2>1, <2>2, <2>3
<1>2. Spec => [][Found]_vars
  BY <1>1, SpecInv, PTL DEF Spec
<1> QED BY <1>2 DEF RunningUnitFound
=============================================================================
