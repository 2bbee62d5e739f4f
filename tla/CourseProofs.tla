----------------------------- MODULE CourseProofs -----------------------------
(* Theorems about CourseLifecycle.                                           *)
EXTENDS CourseLifecycle, TLAPS

Holding == {"updated", "numbered", "written", "revoked", "dropped"}
Running == Holding \cup {"begun"}
Kinds   == Staff \cup Admin \cup {"Sweep"}

(* A transaction holds the course row from its UPDATE to its end.           *)
LockHeld == \A t \in Tx : tx[t].at \in Holding <=> lock = t

(* What a transaction may do by the handler that started it.                *)
Planned(op, to, d) ==
  /\ op \in Kinds /\ to \in Statuses \cup {"same", "deleted"} /\ d \in Dates \cup {"keep"}
  /\ d \in {"future", "past"} => to = "scheduled"
  /\ op \in Publishers => to = "published"
  /\ to = "deleted" => d = "none" /\ op \notin Snapshotters
  /\ op = "UnpublishCourse" => to = "unpublished"

Shaped ==
  \A t \in Tx : tx[t].at \in Running =>
    /\ Planned(tx[t].op, tx[t].to, tx[t].date)
    /\ tx[t].at \in {"begun", "updated"} => tx[t].number = 0
    /\ tx[t].at \in {"numbered", "written"} => tx[t].op \in Snapshotters
    /\ tx[t].at = "revoked" => tx[t].op = "UnpublishCourse"
    /\ tx[t].at = "dropped" => tx[t].op \in {"PublishCourse", "UnpublishCourse"}

Gone == status = "deleted" => lock = Nobody /\ date = "none"

Inv == TypeOK /\ LockHeld /\ Shaped /\ VersionsNumbered /\ Gone

(* The views, apart from what they have to do with the course.              *)
SeenOK ==
  /\ catalog \in {"empty", "shown", "hidden"}
  /\ visit \in [Visitors -> {"idle", "shown", "hidden"}]
  /\ longURL \in BOOLEAN /\ revoking \in BOOLEAN
  /\ refresh \in [Authors -> {"idle", "short", "long"}]
  /\ unreached \subseteq Visitors \cup Authors \cup {"catalog", "url"}
  /\ faults \in 0..MaxFaults

LEMMA SeenStep == TypeOK /\ [Next]_vars => SeenOK'
<1> SUFFICES ASSUME TypeOK, [Next]_vars PROVE SeenOK'
  OBVIOUS
<1> USE CourseAssumption DEF SeenOK
<1>0. SeenOK
  BY DEF TypeOK
<1>1. ASSUME NEW r \in Requests, Handle(r) PROVE SeenOK'
  BY <1>0, <1>1 DEF Handle, TransitionCourse, PublishCourse, UnpublishCourse, UpdateCourse,
       DeleteCourse, RestoreCourseVersion, CourseEditorTransition, CourseEditorPublish,
       CourseEditorUnpublish, TakedownCourse, RestoreCourse, Request, Start, seen, shown
<1>2. ASSUME NEW t \in Tx, Run(t) PROVE SeenOK'
  <2>1. CASE Update(t) \/ Number(t) \/ Insert(t)
    BY <1>0, <2>1 DEF Update, Number, Insert, seen, shown
  <2>2. CASE UpdateMisses(t)
    BY <1>0, <2>2 DEF UpdateMisses, seen, shown
  <2>3. CASE Revoke(t)
    BY <1>0, <2>3 DEF Revoke, shown
  <2>4. CASE Invalidate(t)
    BY <1>0, <2>4 DEF Invalidate, Dropping
  <2>5. CASE InvalidateFails(t)
    BY <1>0, <2>5 DEF InvalidateFails, Dropping, Fault
  <2>6. CASE Commit(t)
    <3>1. Missed(t) \subseteq Visitors \cup Authors \cup {"catalog", "url"}
      BY DEF Missed
    <3> QED
      BY <1>0, <2>6, <3>1 DEF Commit, Release
  <2>7. CASE Fail(t)
    BY <1>0, <2>7 DEF Fail, Release, Fault, shown
  <2> QED
    BY <1>2, <2>1, <2>2, <2>3, <2>4, <2>5, <2>6, <2>7 DEF Run, Finishing
<1>3. CASE SweepFinds \/ SweepBegins \/ SweepSkips
  BY <1>0, <1>3 DEF SweepFinds, SweepBegins, SweepSkips, Start, seen, shown
<1>4. ASSUME NEW v \in Visitors, Load(v) \/ Store(v) PROVE SeenOK'
  <2>1. CASE Load(v)
    BY <1>0, <2>1 DEF Load, Marked, Fault
  <2>2. CASE Store(v)
    BY <1>0, <2>2 DEF Store, Marked
  <2> QED
    BY <1>4, <2>1, <2>2
<1>5. ASSUME NEW l \in Authors, ChooseTTL(l) \/ SaveURL(l) PROVE SeenOK'
  <2>1. CASE ChooseTTL(l)
    BY <1>0, <2>1 DEF ChooseTTL, Marked
  <2>2. CASE SaveURL(l)
    <3>1. longURL' \in BOOLEAN
      BY <1>0, <2>2, Zenon DEF SaveURL, SeenOK
    <3>2. unreached' \subseteq Visitors \cup Authors \cup {"catalog", "url"}
      BY <1>0, <2>2 DEF SaveURL, Marked
    <3>3. refresh' \in [Authors -> {"idle", "short", "long"}]
      BY <1>0, <2>2 DEF SaveURL
    <3>4. UNCHANGED <<catalog, visit, revoking, faults>>
      BY <2>2 DEF SaveURL
    <3>5. revoking' \in BOOLEAN
      BY <1>0, <3>4, Zenon
    <3>6. /\ catalog' \in {"empty", "shown", "hidden"} /\ faults' \in 0..MaxFaults
          /\ visit' \in [Visitors -> {"idle", "shown", "hidden"}]
      BY <1>0, <3>4
    <3> QED
      BY <3>1, <3>2, <3>3, <3>5, <3>6
  <2> QED
    BY <1>5, <2>1, <2>2
<1>6. CASE Expire \/ URLExpires \/ DateComes \/ VideosChange
  <2>1. CASE Expire
    BY <1>0, <2>1 DEF Expire
  <2>2. CASE URLExpires
    BY <1>0, <2>2 DEF URLExpires, shown
  <2>3. CASE DateComes \/ VideosChange
    BY <1>0, <2>3 DEF DateComes, VideosChange, Fault, seen, shown
  <2> QED
    BY <1>6, <2>1, <2>2, <2>3
<1>7. CASE UNCHANGED vars
  BY <1>0, <1>7 DEF vars, seen, shown
<1> QED
  BY <1>1, <1>2, <1>3, <1>4, <1>5, <1>6, <1>7 DEF Next

LEMMA Shapes ==
  ASSUME TypeOK, NEW t \in Tx
  PROVE  /\ tx[t].at \in Running <=> tx[t] \in Busy
         /\ tx[t].at \in {"idle", "due"} <=> tx[t] \notin Busy
         /\ tx[t].at \in Running \cup {"idle", "due"}
<1>1. tx[t] \in {Idle, [at |-> "due"]} \cup Busy
  BY DEF TypeOK
<1>2. CASE tx[t] = Idle
  BY <1>2 DEF Idle, Busy, Running, Holding
<1>3. CASE tx[t] = [at |-> "due"]
  BY <1>3 DEF Busy, Running, Holding
<1>4. CASE tx[t] \in Busy
  BY <1>4 DEF Busy, Running, Holding
<1> QED
  BY <1>1, <1>2, <1>3, <1>4

LEMMA InitInv == Init => Inv
<1> SUFFICES ASSUME Init PROVE Inv
  OBVIOUS
<1> USE CourseAssumption
<1>0. Idle.at = "idle" /\ Idle \notin Busy
  BY DEF Idle, Busy
<1>1. \A t \in Tx : tx[t] = Idle /\ tx[t].at = "idle" /\ tx[t] \notin Busy
  BY <1>0 DEF Init
<1>2. TypeOK
  <2>1. tx \in [Tx -> {Idle, [at |-> "due"]} \cup Busy]
    BY DEF Init
  <2>2. /\ visit \in [Visitors -> {"idle", "shown", "hidden"}]
        /\ refresh \in [Authors -> {"idle", "short", "long"}]
        /\ unreached \subseteq Visitors \cup Authors \cup {"catalog", "url"}
    BY DEF Init
  <2>3. begun \in 0..MaxRequests /\ faults \in 0..MaxFaults
    BY DEF Init
  <2>4. status \in Statuses /\ date \in Dates /\ versions \in Nat
    BY DEF Init, Statuses, Dates
  <2> QED
    BY <1>1, <2>1, <2>2, <2>3, <2>4 DEF Init, TypeOK
<1>3. LockHeld
  BY <1>1 DEF Init, LockHeld, Holding
<1> QED
  BY <1>1, <1>2, <1>3 DEF Init, Inv, Shaped, VersionsNumbered, Gone, Running, Holding

(* Every handler starts a transaction with a plan of its kind.              *)
LEMMA HandlersPlan ==
  ASSUME NEW r \in Requests, Handle(r)
  PROVE  \E op \in Kinds, to \in Statuses \cup {"same", "deleted"}, d \in Dates \cup {"keep"} :
           Planned(op, to, d) /\ Request(r, op, to, d)
<1> USE DEF Planned, Kinds, Staff, Admin, Statuses, Dates, Publishers, Snapshotters
<1>1. CASE TransitionCourse(r)
  <2>1. PICK to \in Statuses \ {"published"} :
          \E d \in IF to = "scheduled" THEN {"future", "past"} ELSE {"keep"} :
            Request(r, "TransitionCourse", to, d)
    BY <1>1 DEF TransitionCourse
  <2>2. CASE to = "scheduled"
    BY <2>1, <2>2
  <2>3. CASE to # "scheduled"
    BY <2>1, <2>3
  <2> QED
    BY <2>2, <2>3
<1>2. CASE PublishCourse(r)
  BY <1>2 DEF PublishCourse
<1>3. CASE UnpublishCourse(r)
  BY <1>3 DEF UnpublishCourse
<1>4. CASE UpdateCourse(r)
  BY <1>4 DEF UpdateCourse
<1>5. CASE DeleteCourse(r)
  BY <1>5 DEF DeleteCourse
<1>6. CASE RestoreCourseVersion(r)
  BY <1>6 DEF RestoreCourseVersion
<1>7. CASE CourseEditorTransition(r)
  BY <1>7 DEF CourseEditorTransition
<1>8. CASE CourseEditorPublish(r)
  BY <1>8 DEF CourseEditorPublish
<1>9. CASE CourseEditorUnpublish(r)
  BY <1>9 DEF CourseEditorUnpublish
<1>10. CASE TakedownCourse(r)
  BY <1>10 DEF TakedownCourse
<1>11. CASE RestoreCourse(r)
  BY <1>11 DEF RestoreCourse
<1> QED
  BY <1>1, <1>2, <1>3, <1>4, <1>5, <1>6, <1>7, <1>8, <1>9, <1>10, <1>11 DEF Handle

LEMMA StartInv ==
  ASSUME Inv, NEW t \in Tx, tx[t].at \notin Running,
         NEW op, NEW to, NEW d, Planned(op, to, d), Start(t, op, to, d),
         begun' \in 0..MaxRequests
  PROVE  Inv'
<1> DEFINE new == [at |-> "begun", op |-> op, to |-> to, date |-> d, number |-> 0]
<1>1. new \in Busy /\ new.at = "begun"
  BY DEF Planned, Busy, Kinds
<1>2. /\ tx' = [tx EXCEPT ![t] = new]
      /\ tx'[t] = new
      /\ \A u \in Tx \ {t} : tx'[u] = tx[u]
  BY DEF Inv, TypeOK, Start
<1>3. UNCHANGED <<row, lock, ready, seen, faults>>
  BY DEF Start
<1> HIDE DEF new
<1>4. tx' \in [Tx -> {Idle, [at |-> "due"]} \cup Busy]
  BY <1>1, <1>2 DEF Inv, TypeOK
<1>5. new.date = d /\ new.to = to /\ new.op = op /\ new.number = 0
  BY DEF new
<1>6. \A u \in Tx : tx'[u] \in Busy /\ tx'[u].date \in {"future", "past"}
                    => tx'[u].to = "scheduled"
  BY <1>2, <1>5 DEF Inv, TypeOK, Planned
<1>7. TypeOK'
  BY <1>3, <1>4, <1>6 DEF Inv, TypeOK, row, seen, shown
<1>8. LockHeld'
  BY <1>1, <1>2, <1>3 DEF Inv, LockHeld, Holding, Running
<1>9. Shaped'
  BY <1>1, <1>2, <1>5 DEF Inv, Shaped
<1>10. VersionsNumbered' /\ Gone'
  BY <1>1, <1>2, <1>3 DEF Inv, VersionsNumbered, Gone, row
<1> QED
  BY <1>7, <1>8, <1>9, <1>10 DEF Inv

(* A step of a running transaction that stays in the middle of it.          *)
LEMMA MoveInv ==
  ASSUME Inv, NEW t \in Tx, tx[t].at \in Running,
         NEW new \in Busy, tx' = [tx EXCEPT ![t] = new],
         new.op = tx[t].op, new.to = tx[t].to, new.date = tx[t].date,
         new.at \in Holding,
         lock' = t /\ (lock = Nobody \/ lock = t),
         UNCHANGED <<row, ready, begun>>, SeenOK',
         new.at = "updated" => new.number = 0,
         new.at \in {"numbered", "written"} =>
           new.op \in Snapshotters /\ new.number = versions + 1,
         new.at = "revoked" => new.op = "UnpublishCourse",
         new.at = "dropped" =>
           \/ new.op = "UnpublishCourse"
           \/ new.op = "PublishCourse" /\ new.number = versions + 1,
         status # "deleted"
  PROVE  Inv'
<1> USE CourseAssumption
<1>1. tx[t] \in Busy
  BY Shapes DEF Inv
<1>2. tx'[t] = new
  BY DEF Inv, TypeOK
<1>3. \A u \in Tx \ {t} : tx'[u] = tx[u]
  BY DEF Inv, TypeOK
<1>4. tx' \in [Tx -> {Idle, [at |-> "due"]} \cup Busy]
  BY <1>2, <1>3 DEF Inv, TypeOK
<1>5. TypeOK'
  BY <1>1, <1>2, <1>3, <1>4 DEF Inv, TypeOK, row, SeenOK
<1>6. LockHeld'
  BY <1>2, <1>3 DEF Inv, LockHeld
<1>7. Shaped'
  <2> SUFFICES ASSUME NEW u \in Tx, tx'[u].at \in Running
               PROVE  /\ Planned(tx'[u].op, tx'[u].to, tx'[u].date)
                      /\ tx'[u].at \in {"begun", "updated"} => tx'[u].number = 0
                      /\ tx'[u].at \in {"numbered", "written"} => tx'[u].op \in Snapshotters
                      /\ tx'[u].at = "revoked" => tx'[u].op = "UnpublishCourse"
                      /\ tx'[u].at = "dropped" => tx'[u].op \in {"PublishCourse", "UnpublishCourse"}
    BY DEF Shaped
  <2>1. CASE u = t
    BY <1>2, <2>1 DEF Inv, Shaped, Holding
  <2>2. CASE u # t
    BY <1>3, <2>2 DEF Inv, Shaped
  <2> QED
    BY <2>1, <2>2
<1>8. VersionsNumbered' /\ Gone'
  BY <1>2, <1>3 DEF Inv, VersionsNumbered, Gone, row, Publishers, Snapshotters
<1> QED
  BY <1>5, <1>6, <1>7, <1>8 DEF Inv

(* The end of a transaction that leaves the row alone.                      *)
LEMMA LeaveInv ==
  ASSUME Inv, NEW t \in Tx, tx' = [tx EXCEPT ![t] = Idle],
         lock' = IF lock = t THEN Nobody ELSE lock,
         UNCHANGED <<row, ready, begun>>, SeenOK'
  PROVE  Inv'
<1> USE CourseAssumption
<1>1. Idle.at = "idle" /\ Idle \notin Busy
  BY DEF Idle, Busy
<1>2. tx'[t] = Idle /\ \A u \in Tx \ {t} : tx'[u] = tx[u]
  BY DEF Inv, TypeOK
<1>3. tx' \in [Tx -> {Idle, [at |-> "due"]} \cup Busy]
  BY <1>1 DEF Inv, TypeOK
<1>4. TypeOK'
  BY <1>1, <1>2, <1>3 DEF Inv, TypeOK, row, SeenOK
<1>5. LockHeld'
  BY <1>1, <1>2 DEF Inv, LockHeld, Holding
<1>6. Shaped'
  BY <1>1, <1>2 DEF Inv, Shaped, Running, Holding
<1>7. VersionsNumbered' /\ Gone'
  BY <1>1, <1>2 DEF Inv, VersionsNumbered, Gone, row
<1> QED
  BY <1>4, <1>5, <1>6, <1>7 DEF Inv

(* What a commit makes of the row.                                          *)
LEMMA CommitFacts ==
  ASSUME Inv, NEW t \in Tx, Commit(t)
  PROVE  /\ tx[t] \in Busy /\ lock = t /\ lock' = Nobody
         /\ status' \in Statuses \cup {"deleted"} /\ date' \in Dates /\ versions' \in Nat
         /\ status' = "deleted" => date' = "none"
         /\ tx[t].op \in Publishers => status' = "published" /\ versions' = versions + 1
<1> USE CourseAssumption
<1>1. tx[t].at \in {"updated", "written", "dropped"} /\ tx[t] \in Busy
  BY Shapes DEF Inv, Commit, Done, Running, Holding
<1>2. lock = t /\ lock' = Nobody
  BY <1>1 DEF Inv, LockHeld, Holding, Commit, Release
<1>3. /\ Planned(tx[t].op, tx[t].to, tx[t].date)
      /\ tx[t].at = "written" => tx[t].number = versions + 1
      /\ tx[t].at = "dropped" => \/ tx[t].op = "UnpublishCourse"
                                 \/ tx[t].number = versions + 1
      /\ tx[t].at = "updated" => tx[t].number = 0 /\ tx[t].op \notin Snapshotters
  BY <1>1 DEF Inv, Shaped, Running, Holding, VersionsNumbered, Commit, Done
<1>4. status # "deleted"
  BY <1>2 DEF Inv, Gone
<1>5. status' = IF tx[t].to = "same" THEN status ELSE tx[t].to
  BY DEF Commit
<1>6. date' = IF tx[t].date = "keep" THEN date ELSE tx[t].date
  BY DEF Commit
<1>7. versions' \in {0, tx[t].number, versions}
      /\ (tx[t].to # "deleted" /\ tx[t].number > 0 => versions' = tx[t].number)
  BY DEF Commit
<1>8. status' \in Statuses \cup {"deleted"} /\ date' \in Dates
  BY <1>3, <1>4, <1>5, <1>6 DEF Planned, Inv, TypeOK, Dates
<1>9. versions' \in Nat
  BY <1>1, <1>7 DEF Busy, Inv, TypeOK
<1>10. status' = "deleted" => date' = "none"
  BY <1>3, <1>4, <1>5, <1>6 DEF Planned
<1>11. tx[t].op \in Publishers => status' = "published" /\ versions' = versions + 1
  <2> SUFFICES ASSUME tx[t].op \in Publishers
               PROVE  status' = "published" /\ versions' = versions + 1
    OBVIOUS
  <2>1. tx[t].number = versions + 1
    BY <1>1, <1>3 DEF Snapshotters, Publishers
  <2>2. tx[t].to = "published"
    BY <1>3 DEF Planned
  <2>3. versions \in Nat
    BY DEF Inv, TypeOK
  <2> QED
    BY <1>5, <1>7, <2>1, <2>2, <2>3
<1> QED
  BY <1>1, <1>2, <1>8, <1>9, <1>10, <1>11

LEMMA CommitInv ==
  ASSUME Inv, NEW t \in Tx, Commit(t), SeenOK'
  PROVE  Inv'
<1> USE CourseAssumption
<1>1. Idle.at = "idle" /\ Idle \notin Busy
  BY DEF Idle, Busy
<1>2. tx'[t] = Idle /\ \A u \in Tx \ {t} : tx'[u] = tx[u]
  BY DEF Inv, TypeOK, Commit, Release
<1>3. tx' \in [Tx -> {Idle, [at |-> "due"]} \cup Busy]
  BY DEF Inv, TypeOK, Commit, Release
<1>4. UNCHANGED <<ready, begun>>
  BY DEF Commit
<1>5. /\ lock = t /\ lock' = Nobody
      /\ status' \in Statuses \cup {"deleted"} /\ date' \in Dates /\ versions' \in Nat
      /\ status' = "deleted" => date' = "none"
  BY CommitFacts
<1>6. TypeOK'
  BY <1>1, <1>2, <1>3, <1>4, <1>5 DEF Inv, TypeOK, SeenOK
<1>7. LockHeld'
  BY <1>1, <1>2, <1>5 DEF Inv, LockHeld, Holding
<1>8. Shaped'
  BY <1>1, <1>2 DEF Inv, Shaped, Running, Holding
<1>9. \A u \in Tx : tx'[u].at \notin Holding
  BY <1>7, <1>5 DEF LockHeld
<1>10. VersionsNumbered' /\ Gone'
  BY <1>5, <1>9 DEF VersionsNumbered, Gone, Holding
<1> QED
  BY <1>6, <1>7, <1>8, <1>10 DEF Inv

(* The steps of the environment: visitors, asset URLs, the clock, videos.   *)
LEMMA OutsideInv ==
  ASSUME Inv, UNCHANGED <<status, versions, lock, tx, begun>>,
         date' = date \/ (date = "future" /\ date' = "past"),
         ready' \in BOOLEAN, SeenOK'
  PROVE  Inv'
<1>1. TypeOK'
  BY DEF Inv, TypeOK, Dates, SeenOK
<1> QED
  BY <1>1 DEF Inv, LockHeld, Shaped, VersionsNumbered, Gone

LEMMA StepInv == Inv /\ [Next]_vars => Inv'
<1> SUFFICES ASSUME Inv, [Next]_vars PROVE Inv'
  OBVIOUS
<1> USE CourseAssumption
<1>0. TypeOK /\ SeenOK'
  BY SeenStep DEF Inv
<1>1. ASSUME NEW r \in Requests, Handle(r) PROVE Inv'
  <2>1. PICK op \in Kinds, to \in Statuses \cup {"same", "deleted"}, d \in Dates \cup {"keep"} :
          Planned(op, to, d) /\ Request(r, op, to, d)
    BY <1>1, HandlersPlan
  <2>2. r \in Tx /\ tx[r].at \notin Running
    BY <2>1 DEF Tx, Request, Idle, Running, Holding
  <2>3. begun' \in 0..MaxRequests /\ Start(r, op, to, d)
    BY <1>0, <2>1 DEF Request, TypeOK
  <2> QED
    BY <2>1, <2>2, <2>3, StartInv
<1>2. ASSUME NEW t \in Tx, Run(t) PROVE Inv'
  <2>1. CASE Update(t)
    <3>1. tx[t].at \in Running /\ tx[t] \in Busy /\ tx[t].number = 0
      BY <1>0, <2>1, Shapes DEF Update, Running, Inv, Shaped
    <3> DEFINE new == [tx[t] EXCEPT !.at = "updated"]
    <3>2. /\ new \in Busy /\ new.at = "updated" /\ new.op = tx[t].op
          /\ new.to = tx[t].to /\ new.date = tx[t].date /\ new.number = 0
      BY <3>1 DEF Busy
    <3>3. /\ status # "deleted" /\ lock = Nobody /\ lock' = t
          /\ UNCHANGED <<row, ready, begun>>
          /\ tx' = [tx EXCEPT ![t] = new]
      BY <2>1 DEF Update, Goto
    <3>4. "updated" \in Holding
      BY DEF Holding
    <3> HIDE DEF new
    <3> QED
      BY <1>0, <3>1, <3>2, <3>3, <3>4, MoveInv
  <2>2. CASE UpdateMisses(t)
    <3>1. lock # t
      BY <2>2 DEF UpdateMisses, Inv, LockHeld, Holding
    <3> QED
      BY <1>0, <2>2, <3>1, LeaveInv DEF UpdateMisses
  <2>3. CASE Number(t)
    <3>1. tx[t].at \in Running /\ lock = t /\ tx[t] \in Busy
      BY <1>0, <2>3, Shapes DEF Number, Running, Holding, Inv, LockHeld
    <3>2. status # "deleted" /\ versions + 1 \in Nat
      BY <1>0, <3>1 DEF Inv, Gone, TypeOK
    <3> DEFINE new == [tx[t] EXCEPT !.at = "numbered", !.number = versions + 1]
    <3>3. /\ new \in Busy /\ new.at = "numbered" /\ new.op = tx[t].op
          /\ new.to = tx[t].to /\ new.date = tx[t].date /\ new.number = versions + 1
      BY <3>1, <3>2 DEF Busy
    <3>4. /\ UNCHANGED <<row, lock, ready, begun>>
          /\ tx[t].op \in Snapshotters /\ tx' = [tx EXCEPT ![t] = new]
      BY <2>3 DEF Number
    <3>5. "numbered" \in Holding /\ lock' = t
      BY <3>1, <3>4 DEF Holding
    <3> HIDE DEF new
    <3> QED
      BY <1>0, <3>1, <3>2, <3>3, <3>4, <3>5, MoveInv
  <2>4. CASE Insert(t)
    <3>1. tx[t].at \in Running /\ lock = t /\ tx[t] \in Busy
      BY <1>0, <2>4, Shapes DEF Insert, Running, Holding, Inv, LockHeld
    <3>2. status # "deleted"
      BY <1>0, <3>1 DEF Inv, Gone, TypeOK
    <3>3. tx[t].number = versions + 1 /\ tx[t].op \in Snapshotters
      BY <2>4, <3>1 DEF Insert, Inv, VersionsNumbered, Shaped
    <3> DEFINE new == [tx[t] EXCEPT !.at = "written"]
    <3>4. /\ new \in Busy /\ new.at = "written" /\ new.op = tx[t].op
          /\ new.to = tx[t].to /\ new.date = tx[t].date /\ new.number = versions + 1
      BY <3>1, <3>3 DEF Busy
    <3>5. UNCHANGED <<row, lock, ready, begun>> /\ tx' = [tx EXCEPT ![t] = new]
      BY <2>4 DEF Insert, Goto
    <3>6. "written" \in Holding /\ lock' = t
      BY <3>1, <3>5 DEF Holding
    <3> HIDE DEF new
    <3> QED
      BY <1>0, <3>1, <3>2, <3>3, <3>4, <3>5, <3>6, MoveInv
  <2>5. CASE Revoke(t)
    <3>1. tx[t].at \in Running /\ lock = t /\ tx[t] \in Busy
      BY <1>0, <2>5, Shapes DEF Revoke, Running, Holding, Inv, LockHeld
    <3>2. status # "deleted"
      BY <1>0, <3>1 DEF Inv, Gone, TypeOK
    <3> DEFINE new == [tx[t] EXCEPT !.at = "revoked"]
    <3>3. /\ new \in Busy /\ new.at = "revoked" /\ new.op = tx[t].op
          /\ new.to = tx[t].to /\ new.date = tx[t].date
      BY <3>1 DEF Busy
    <3>4. /\ UNCHANGED <<row, lock, ready, begun>> /\ tx' = [tx EXCEPT ![t] = new]
          /\ tx[t].op = "UnpublishCourse"
      BY <2>5 DEF Revoke, Goto
    <3>5. "revoked" \in Holding /\ lock' = t
      BY <3>1, <3>4 DEF Holding
    <3> HIDE DEF new
    <3> QED
      BY <1>0, <3>1, <3>2, <3>3, <3>4, <3>5, MoveInv
  <2>6. CASE Invalidate(t) \/ InvalidateFails(t)
    <3>0. Dropping(t)
      BY <2>6 DEF Invalidate, InvalidateFails
    <3>1. tx[t].at \in Running /\ lock = t /\ tx[t] \in Busy
      BY <1>0, <3>0, Shapes DEF Dropping, Running, Holding, Inv, LockHeld
    <3>2. status # "deleted"
      BY <1>0, <3>1 DEF Inv, Gone, TypeOK
    <3> DEFINE new == [tx[t] EXCEPT !.at = "dropped"]
    <3>3. /\ new \in Busy /\ new.at = "dropped" /\ new.op = tx[t].op
          /\ new.to = tx[t].to /\ new.date = tx[t].date /\ new.number = tx[t].number
      BY <3>1 DEF Busy
    <3>4. UNCHANGED <<row, lock, ready, begun>> /\ tx' = [tx EXCEPT ![t] = new]
      BY <3>0 DEF Dropping, Goto
    <3>5. \/ tx[t].op = "UnpublishCourse"
          \/ tx[t].op = "PublishCourse" /\ tx[t].number = versions + 1
      BY <3>0, <3>1 DEF Dropping, Inv, Shaped, VersionsNumbered
    <3>6. "dropped" \in Holding /\ lock' = t
      BY <3>1, <3>4 DEF Holding
    <3> HIDE DEF new
    <3> QED
      BY <1>0, <3>1, <3>2, <3>3, <3>4, <3>5, <3>6, MoveInv
  <2>7. CASE Commit(t)
    BY <1>0, <2>7, CommitInv
  <2>8. CASE Fail(t)
    BY <1>0, <2>8, LeaveInv DEF Fail, Release
  <2> QED
    BY <1>2, <2>1, <2>2, <2>3, <2>4, <2>5, <2>6, <2>7, <2>8 DEF Run, Finishing
<1>3. CASE SweepBegins
  <2>1. Sweep \in Tx /\ tx[Sweep].at \notin Running
    BY <1>3 DEF Tx, SweepBegins, Running, Holding
  <2>2. Planned("Sweep", "published", "none")
    BY DEF Planned, Kinds, Statuses, Dates
  <2>3. begun' \in 0..MaxRequests
    BY <1>0, <1>3 DEF SweepBegins, TypeOK
  <2> QED
    BY <1>3, <2>1, <2>2, <2>3, StartInv DEF SweepBegins
<1>4. CASE SweepFinds \/ SweepSkips
  <2>1. PICK new \in {Idle, [at |-> "due"]} : tx' = [tx EXCEPT ![Sweep] = new]
    BY <1>4 DEF SweepFinds, SweepSkips
  <2>2. UNCHANGED <<row, lock, ready, seen, begun, faults>>
    BY <1>4 DEF SweepFinds, SweepSkips
  <2>3. Sweep \in Tx /\ tx[Sweep].at \in {"idle", "due"}
    BY <1>4 DEF Tx, SweepFinds, SweepSkips, Idle
  <2>4. new.at \notin Running /\ new \notin Busy
    BY <2>1 DEF Idle, Busy, Running, Holding
  <2>5. tx'[Sweep] = new /\ \A u \in Tx \ {Sweep} : tx'[u] = tx[u]
    BY <1>0, <2>1, <2>3 DEF TypeOK
  <2>6. tx' \in [Tx -> {Idle, [at |-> "due"]} \cup Busy]
    BY <1>0, <2>1 DEF TypeOK
  <2>7. TypeOK'
    BY <1>0, <2>2, <2>4, <2>5, <2>6 DEF TypeOK, row, seen, shown
  <2>8. LockHeld'
    BY <2>2, <2>3, <2>4, <2>5 DEF Inv, LockHeld, Running, Holding
  <2>9. Shaped'
    BY <2>4, <2>5 DEF Inv, Shaped
  <2>10. VersionsNumbered' /\ Gone'
    BY <2>2, <2>4, <2>5 DEF Inv, VersionsNumbered, Gone, row, Running, Holding
  <2> QED
    BY <2>7, <2>8, <2>9, <2>10 DEF Inv
<1>5. ASSUME NEW v \in Visitors, Load(v) \/ Store(v) PROVE Inv'
  BY <1>0, <1>5, OutsideInv DEF Load, Store, TypeOK, row
<1>6. ASSUME NEW l \in Authors, ChooseTTL(l) \/ SaveURL(l) PROVE Inv'
  BY <1>0, <1>6, OutsideInv DEF ChooseTTL, SaveURL, TypeOK, row
<1>7. CASE Expire \/ URLExpires \/ DateComes
  BY <1>0, <1>7, OutsideInv DEF Expire, URLExpires, DateComes, TypeOK, row
<1>8. CASE VideosChange
  BY <1>0, <1>8, OutsideInv DEF VideosChange, Fault, TypeOK, row
<1>9. CASE UNCHANGED vars
  BY <1>0, <1>9, OutsideInv DEF vars, row, seen, TypeOK
<1> QED
  BY <1>1, <1>2, <1>3, <1>4, <1>5, <1>6, <1>7, <1>8, <1>9 DEF Next

THEOREM Invariant == Spec => []Inv
<1> QED
  BY InitInv, StepInv, PTL DEF Spec

(* Requests, the lock, the cached views and the row keep their shapes, and  *)
(* only a request that schedules the course carries a date.                 *)
THEOREM CourseTypes == Spec => []TypeOK
<1>1. Inv => TypeOK
  BY DEF Inv
<1> QED
  BY <1>1, Invariant, PTL

(* For any number of requests, no publish and no restore computes a version *)
(* number that another one takes before it commits.                         *)
THEOREM Numbered == Spec => []VersionsNumbered
<1>1. Inv => VersionsNumbered
  BY DEF Inv
<1> QED
  BY <1>1, Invariant, PTL

(* Nothing revives a deleted course: an UPDATE finds no row, and no         *)
(* transaction that got the row before is still running.                    *)
THEOREM Deleted == Spec => DeletedStays
<1>1. Inv /\ [Next]_vars => [status = "deleted" => row' = row]_vars
  <2> SUFFICES ASSUME Inv, [Next]_vars, status = "deleted" PROVE row' = row
    OBVIOUS
  <2> USE CourseAssumption
  <2>1. lock = Nobody /\ date = "none"
    BY DEF Inv, Gone
  <2>2. ASSUME NEW r \in Requests, Handle(r) PROVE row' = row
    BY <2>2, HandlersPlan DEF Request, Start
  <2>3. ASSUME NEW t \in Tx, Run(t) PROVE row' = row
    <3>1. ~Commit(t)
      BY <2>1, CommitFacts
    <3> QED
      BY <2>3, <3>1 DEF Run, Finishing, Update, UpdateMisses, Number, Insert, Revoke,
             Dropping, Invalidate, InvalidateFails, Fail, Release
  <2>4. CASE SweepBegins \/ SweepFinds \/ SweepSkips
    BY <2>4 DEF SweepBegins, SweepFinds, SweepSkips, Start
  <2>5. ASSUME NEW v \in Visitors, Load(v) \/ Store(v) PROVE row' = row
    BY <2>5 DEF Load, Store
  <2>6. ASSUME NEW l \in Authors, ChooseTTL(l) \/ SaveURL(l) PROVE row' = row
    BY <2>6 DEF ChooseTTL, SaveURL
  <2>7. CASE Expire \/ URLExpires \/ DateComes \/ VideosChange
    BY <2>1, <2>7 DEF Expire, URLExpires, DateComes, VideosChange
  <2>8. CASE UNCHANGED vars
    BY <2>8 DEF vars
  <2> QED
    BY <2>2, <2>3, <2>4, <2>5, <2>6, <2>7, <2>8 DEF Next
<1> QED
  BY <1>1, Invariant, PTL DEF Spec, DeletedStays

(* A publish and its snapshot are committed together or not at all, whoever *)
(* publishes and whatever fails in between.                                 *)
THEOREM Snapshots == Spec => PublishSnapshots
<1> DEFINE Together ==
      \A t \in Tx : Publishing(t) /\ lock = t /\ lock' # t =>
        \/ UNCHANGED row
        \/ status' = "published" /\ versions' = versions + 1
<1>1. Inv /\ [Next]_vars => [Together]_vars
  <2> SUFFICES ASSUME Inv, [Next]_vars, NEW t \in Tx, Publishing(t), lock = t, lock' # t
               PROVE  \/ UNCHANGED row
                      \/ status' = "published" /\ versions' = versions + 1
    OBVIOUS
  <2> USE CourseAssumption
  <2>1. ASSUME NEW r \in Requests, Handle(r) PROVE FALSE
    BY <2>1, HandlersPlan DEF Request, Start
  <2>2. ASSUME NEW u \in Tx, Run(u)
        PROVE  \/ UNCHANGED row
               \/ status' = "published" /\ versions' = versions + 1
    <3>1. CASE Commit(u)
      BY <3>1, CommitFacts DEF Publishing
    <3>2. CASE ~Commit(u)
      BY <2>2, <3>2 DEF Run, Finishing, Update, UpdateMisses, Number, Insert, Revoke,
             Dropping, Invalidate, InvalidateFails, Fail, Release
    <3> QED
      BY <3>1, <3>2
  <2>3. CASE SweepBegins \/ SweepFinds \/ SweepSkips
    BY <2>3 DEF SweepBegins, SweepFinds, SweepSkips, Start
  <2>4. ASSUME NEW v \in Visitors, Load(v) \/ Store(v) PROVE FALSE
    BY <2>4 DEF Load, Store
  <2>5. ASSUME NEW l \in Authors, ChooseTTL(l) \/ SaveURL(l) PROVE FALSE
    BY <2>5 DEF ChooseTTL, SaveURL
  <2>6. CASE Expire \/ URLExpires \/ DateComes \/ VideosChange
    BY <2>6 DEF Expire, URLExpires, DateComes, VideosChange
  <2>7. CASE UNCHANGED vars
    BY <2>7 DEF vars
  <2> QED
    BY <2>1, <2>2, <2>3, <2>4, <2>5, <2>6, <2>7 DEF Next
<1> QED
  BY <1>1, Invariant, PTL DEF Spec, PublishSnapshots

(* Why the views follow the status: whoever holds what it read of another   *)
(* status is marked, and a transaction that has dropped the catalog, or     *)
(* revoked the URL, finds only what was stored since.                       *)
Readers ==
  /\ \A v \in Visitors : /\ visit[v] = "shown" /\ status # "published" => v \in unreached
                         /\ visit[v] = "hidden" /\ status = "published" => v \in unreached
  /\ \A l \in Authors : refresh[l] = "long" /\ status # "published" => l \in unreached

Dropped ==
  Changing /\ tx[lock].at = "dropped" /\ catalog # "empty" => "catalog" \in unreached

Revoked ==
  Changing /\ tx[lock].op = "UnpublishCourse" /\ tx[lock].at \in {"revoked", "dropped"}
    /\ longURL /\ ~revoking => "url" \in unreached

Views == ViewsFollowStatus /\ Readers /\ Dropped /\ Revoked

(* A step of others, or of a transaction that does not hold the row.        *)
LEMMA ViewsAside ==
  ASSUME Views, UNCHANGED <<status, lock, catalog, visit, unreached, longURL, refresh, revoking>>,
         lock # Nobody => tx'[lock] = tx[lock]
  PROVE  Views'
<1>1. ViewsFollowStatus' /\ Readers'
  BY DEF Views, ViewsFollowStatus, Readers
<1>2. Changing' <=> Changing
  BY DEF Changing
<1>3. Dropped' /\ Revoked'
  BY <1>2 DEF Views, Dropped, Revoked, Changing
<1> QED
  BY <1>1, <1>3 DEF Views

(* A commit that changes whether the course is public marks what it missed. *)
LEMMA ViewsCommit ==
  ASSUME Inv, Inv', Views, NEW t \in Tx, Commit(t)
  PROVE  Views'
<1> USE CourseAssumption
<1>1. lock = t /\ lock' = Nobody
  BY CommitFacts
<1>2. Dropped' /\ Revoked'
  BY <1>1 DEF Dropped, Revoked, Changing
<1>3. status' = IF tx[t].to = "same" THEN status ELSE tx[t].to
  BY DEF Commit
<1>4. t # Nobody
  BY DEF Tx
<1>5. UNCHANGED <<catalog, visit, refresh>> /\ (longURL' => longURL /\ ~revoking)
  BY DEF Commit
<1>6. CASE Changing
  <2>1. unreached' = unreached \cup Missed(t)
    BY <1>6 DEF Commit
  <2>2. Readers'
    BY <1>5, <2>1 DEF Readers, Missed
  <2>3. "catalog" \in unreached' \/ catalog = "empty"
    <3>1. CASE tx[t].op \in {"PublishCourse", "UnpublishCourse"}
      <4>1. tx[t].at = "dropped"
        BY <3>1 DEF Commit, Done, Snapshotters, Publishers, Inv, Shaped, Holding, Running
      <4> QED
        BY <1>1, <1>6, <2>1, <4>1 DEF Views, Dropped
    <3>2. CASE tx[t].op \notin {"PublishCourse", "UnpublishCourse"}
      BY <2>1, <3>2 DEF Missed
    <3> QED
      BY <3>1, <3>2
  <2>4. longURL' => "url" \in unreached'
    <3>1. CASE tx[t].op = "UnpublishCourse"
      <4>1. tx[t].at = "dropped"
        BY <3>1 DEF Commit, Done, Snapshotters, Publishers, Inv, Shaped, Holding, Running
      <4> QED
        BY <1>1, <1>5, <1>6, <2>1, <3>1, <4>1 DEF Views, Revoked
    <3>2. CASE tx[t].op # "UnpublishCourse"
      BY <2>1, <3>2 DEF Missed
    <3> QED
      BY <3>1, <3>2
  <2>5. ViewsFollowStatus'
    BY <1>5, <2>3, <2>4 DEF ViewsFollowStatus
  <2> QED
    BY <1>2, <2>2, <2>5 DEF Views
<1>7. CASE ~Changing
  <2>1. unreached' = unreached
    BY <1>7 DEF Commit
  <2>2. status' = "published" <=> status = "published"
    BY <1>1, <1>3, <1>4, <1>7 DEF Changing
  <2> QED
    BY <1>2, <1>5, <2>1, <2>2 DEF Views, ViewsFollowStatus, Readers
<1> QED
  BY <1>6, <1>7

LEMMA ViewsRun ==
  ASSUME Inv, Inv', Views, NEW t \in Tx, Run(t)
  PROVE  Views'
<1> USE CourseAssumption
<1>0. t # Nobody /\ tx[t].at \in Running \cup {"idle", "due"}
  BY Shapes DEF Tx, Inv
<1>1. CASE Update(t)
  <2>1. /\ UNCHANGED <<status, catalog, visit, unreached, longURL, refresh, revoking>>
        /\ lock' = t /\ tx'[t].at = "updated"
    <3>1. tx'[t] = [tx[t] EXCEPT !.at = "updated"] /\ tx[t] \in Busy
      BY <1>1, Shapes DEF Update, Goto, Inv, TypeOK, Running
    <3> QED
      BY <1>1, <3>1 DEF Update, Busy, row, seen, shown
  <2>2. ViewsFollowStatus' /\ Readers'
    BY <2>1 DEF Views, ViewsFollowStatus, Readers
  <2>3. Dropped' /\ Revoked'
    BY <2>1 DEF Dropped, Revoked
  <2> QED
    BY <2>2, <2>3 DEF Views
<1>2. CASE UpdateMisses(t)
  <2>1. lock # t
    BY <1>2 DEF UpdateMisses, Inv, LockHeld, Holding
  <2>2. lock # Nobody => tx'[lock] = tx[lock]
    BY <1>2, <2>1 DEF UpdateMisses, Inv, TypeOK
  <2>3. UNCHANGED <<status, lock, catalog, visit, unreached, longURL, refresh, revoking>>
    BY <1>2 DEF UpdateMisses, row, seen, shown
  <2> QED
    BY <2>2, <2>3, ViewsAside
<1>3. CASE Number(t) \/ Insert(t)
  <2>1. UNCHANGED <<status, lock, catalog, visit, unreached, longURL, refresh, revoking>>
    BY <1>3 DEF Number, Insert, row, seen, shown
  <2>2. lock = t /\ tx'[t].at \in {"numbered", "written"}
    <3>1. lock = t /\ tx[t] \in Busy
      BY <1>3, Shapes DEF Number, Insert, Running, Holding, Inv, LockHeld
    <3> QED
      BY <1>3, <3>1 DEF Number, Insert, Goto, Busy, Inv, TypeOK
  <2>3. ViewsFollowStatus' /\ Readers'
    BY <2>1 DEF Views, ViewsFollowStatus, Readers
  <2>4. Dropped' /\ Revoked'
    BY <2>1, <2>2 DEF Dropped, Revoked
  <2> QED
    BY <2>3, <2>4 DEF Views
<1>4. CASE Revoke(t)
  <2>1. UNCHANGED <<status, lock, catalog, visit, unreached, longURL, refresh>>
    BY <1>4 DEF Revoke, row, shown
  <2>2. lock = t /\ tx'[t].at = "revoked"
    <3>1. lock = t /\ tx[t] \in Busy
      BY <1>4, Shapes DEF Revoke, Running, Holding, Inv, LockHeld
    <3> QED
      BY <1>4, <3>1 DEF Revoke, Goto, Busy, Inv, TypeOK
  <2>3. ViewsFollowStatus' /\ Readers'
    BY <2>1 DEF Views, ViewsFollowStatus, Readers
  <2>4. Dropped'
    BY <2>1, <2>2 DEF Dropped
  <2>5. longURL' => revoking'
    BY <1>4, <2>1 DEF Revoke
  <2>6. Revoked'
    BY <2>5 DEF Revoked
  <2> QED
    BY <2>3, <2>4, <2>6 DEF Views
<1>5. CASE Invalidate(t) \/ InvalidateFails(t)
  <2>0. Dropping(t)
    BY <1>5 DEF Invalidate, InvalidateFails
  <2>1. UNCHANGED <<status, lock, visit, longURL, refresh, revoking>>
    BY <2>0 DEF Dropping, row
  <2>2. /\ lock = t
        /\ tx'[t].op = tx[t].op /\ tx'[t].to = tx[t].to
        /\ tx[t].op = "UnpublishCourse" => tx[t].at = "revoked"
    <3>1. lock = t /\ tx[t] \in Busy /\ tx[t].at \in Running
      BY <2>0, Shapes DEF Dropping, Running, Holding, Inv, LockHeld
    <3> QED
      BY <2>0, <3>1 DEF Dropping, Goto, Busy, Inv, TypeOK, Shaped
  <2>3. /\ catalog' = "empty" \/ "catalog" \in unreached'
        /\ catalog' = "empty" \/ catalog' = catalog
        /\ \A x : x # "catalog" => (x \in unreached' <=> x \in unreached)
    BY <1>5 DEF Invalidate, InvalidateFails
  <2>4. ViewsFollowStatus' /\ Readers'
    BY <2>1, <2>3 DEF Views, ViewsFollowStatus, Readers
  <2>5. Changing' <=> Changing
    BY <2>1, <2>2 DEF Changing
  <2>6. Dropped' /\ Revoked'
    BY <2>1, <2>2, <2>3, <2>5 DEF Views, Dropped, Revoked
  <2> QED
    BY <2>4, <2>6 DEF Views
<1>6. CASE Commit(t)
  BY <1>6, ViewsCommit
<1>7. CASE Fail(t)
  <2>1. UNCHANGED <<status, catalog, visit, unreached, longURL, refresh>>
    BY <1>7 DEF Fail, row, shown
  <2>2. CASE lock = t
    <3>1. lock' = Nobody
      BY <1>7, <2>2 DEF Fail, Release
    <3> QED
      BY <2>1, <3>1 DEF Views, ViewsFollowStatus, Readers, Dropped, Revoked, Changing
  <2>3. CASE lock # t
    <3>1. UNCHANGED <<lock, revoking>> /\ (lock # Nobody => tx'[lock] = tx[lock])
      BY <1>7, <2>3 DEF Fail, Release, Inv, TypeOK
    <3> QED
      BY <2>1, <3>1, ViewsAside
  <2> QED
    BY <2>2, <2>3
<1> QED
  BY <1>1, <1>2, <1>3, <1>4, <1>5, <1>6, <1>7 DEF Run, Finishing

LEMMA ViewsStep ==
  ASSUME Inv, Inv', Views, [Next]_vars
  PROVE  Views'
<1> USE CourseAssumption
<1>1. ASSUME NEW r \in Requests, Handle(r) PROVE Views'
  <2>1. PICK op, to, d : Request(r, op, to, d)
    BY <1>1, HandlersPlan
  <2>2. lock # r
    BY <2>1 DEF Request, Idle, Inv, LockHeld, Holding, Tx
  <2>3. /\ UNCHANGED <<status, lock, catalog, visit, unreached, longURL, refresh, revoking>>
        /\ lock # Nobody => tx'[lock] = tx[lock]
    BY <2>1, <2>2 DEF Request, Start, row, seen, shown, Inv, TypeOK
  <2> QED
    BY <2>3, ViewsAside
<1>2. ASSUME NEW t \in Tx, Run(t) PROVE Views'
  BY <1>2, ViewsRun
<1>3. CASE SweepFinds \/ SweepBegins \/ SweepSkips
  <2>1. lock # Sweep
    BY <1>3 DEF SweepFinds, SweepBegins, SweepSkips, Idle, Inv, LockHeld, Holding, Tx
  <2>2. /\ UNCHANGED <<status, lock, catalog, visit, unreached, longURL, refresh, revoking>>
        /\ lock # Nobody => tx'[lock] = tx[lock]
    BY <1>3, <2>1 DEF SweepFinds, SweepBegins, SweepSkips, Start, row, seen, shown, Inv, TypeOK
  <2> QED
    BY <2>2, ViewsAside
<1>4. ASSUME NEW v \in Visitors, Load(v) \/ Store(v) PROVE Views'
  <2>1. UNCHANGED <<status, lock, tx, longURL, refresh, revoking>>
    BY <1>4 DEF Load, Store, row
  <2>2. Changing' <=> Changing
    BY <2>1 DEF Changing
  <2>3. CASE Load(v)
    <3>1. /\ catalog' = catalog
          /\ \A x : x # v => (x \in unreached' <=> x \in unreached)
      BY <2>3 DEF Load, Marked
    <3>2. \A u \in Visitors : u # v => visit'[u] = visit[u]
      BY <2>3 DEF Load, Inv, TypeOK
    <3>3. visit'[v] = IF status = "published" THEN "shown" ELSE "hidden"
      BY <2>3 DEF Load, Inv, TypeOK
    <3>4. ViewsFollowStatus' /\ Readers'
      BY <2>1, <3>1, <3>2, <3>3 DEF Views, ViewsFollowStatus, Readers
    <3>5. Dropped' /\ Revoked'
      BY <2>1, <2>2, <3>1 DEF Views, Dropped, Revoked
    <3> QED
      BY <3>4, <3>5 DEF Views
  <2>4. CASE Store(v)
    <3>1. \A x : x \notin {v, "catalog"} => (x \in unreached' <=> x \in unreached)
      BY <2>4 DEF Store, Marked
    <3>2. visit'[v] = "idle" /\ \A u \in Visitors : u # v => visit'[u] = visit[u]
      BY <2>4 DEF Store, Inv, TypeOK
    <3>3. \/ catalog' = catalog /\ ("catalog" \in unreached' <=> "catalog" \in unreached)
          \/ catalog' = visit[v] /\ ("catalog" \in unreached' <=> v \in unreached \/ Changing)
      BY <2>4 DEF Store, Marked
    <3>4. Readers'
      BY <2>1, <3>1, <3>2 DEF Views, Readers
    <3>5. ViewsFollowStatus'
      BY <2>1, <3>1, <3>3 DEF Views, ViewsFollowStatus, Readers
    <3>6. Dropped' /\ Revoked'
      BY <2>1, <2>2, <3>1, <3>3 DEF Views, Dropped, Revoked
    <3> QED
      BY <3>4, <3>5, <3>6 DEF Views
  <2> QED
    BY <1>4, <2>3, <2>4
<1>5. ASSUME NEW l \in Authors, ChooseTTL(l) \/ SaveURL(l) PROVE Views'
  <2>1. UNCHANGED <<status, lock, tx, catalog, visit, revoking>>
    BY <1>5 DEF ChooseTTL, SaveURL, row
  <2>2. Changing' <=> Changing
    BY <2>1 DEF Changing
  <2>3. CASE ChooseTTL(l)
    <3>1. /\ longURL' = longURL
          /\ \A x : x # l => (x \in unreached' <=> x \in unreached)
      BY <2>3 DEF ChooseTTL, Marked
    <3>2. \A k \in Authors : k # l => refresh'[k] = refresh[k]
      BY <2>3 DEF ChooseTTL, Inv, TypeOK
    <3>3. refresh'[l] = IF status = "published" THEN "long" ELSE "short"
      BY <2>3 DEF ChooseTTL, Inv, TypeOK
    <3>4. ViewsFollowStatus' /\ Readers'
      BY <2>1, <3>1, <3>2, <3>3 DEF Views, ViewsFollowStatus, Readers
    <3>5. Dropped' /\ Revoked'
      BY <2>1, <2>2, <3>1 DEF Views, Dropped, Revoked
    <3> QED
      BY <3>4, <3>5 DEF Views
  <2>4. CASE SaveURL(l)
    <3>1. \A x : x \notin {l, "url"} => (x \in unreached' <=> x \in unreached)
      BY <2>4 DEF SaveURL, Marked
    <3>2. refresh'[l] = "idle" /\ \A k \in Authors : k # l => refresh'[k] = refresh[k]
      BY <2>4 DEF SaveURL, Inv, TypeOK
    <3>3. \/ longURL' = longURL /\ ("url" \in unreached' <=> "url" \in unreached)
          \/ /\ longURL' => refresh[l] = "long"
             /\ "url" \in unreached' <=> l \in unreached \/ Changing
      BY <2>4 DEF SaveURL, Marked
    <3>4. Readers'
      BY <2>1, <3>1, <3>2 DEF Views, Readers
    <3>5. ViewsFollowStatus'
      BY <2>1, <3>1, <3>3 DEF Views, ViewsFollowStatus, Readers
    <3>6. Dropped' /\ Revoked'
      BY <2>1, <2>2, <3>1, <3>3 DEF Views, Dropped, Revoked
    <3> QED
      BY <3>4, <3>5, <3>6 DEF Views
  <2> QED
    BY <1>5, <2>3, <2>4
<1>6. CASE Expire
  <2>1. UNCHANGED <<status, lock, tx, visit, longURL, refresh, revoking>> /\ catalog' = "empty"
    BY <1>6 DEF Expire, row
  <2>2. \A x : x # "catalog" => (x \in unreached' <=> x \in unreached)
    BY <1>6 DEF Expire
  <2>3. Changing' <=> Changing
    BY <2>1 DEF Changing
  <2> QED
    BY <2>1, <2>2, <2>3 DEF Views, ViewsFollowStatus, Readers, Dropped, Revoked
<1>7. CASE URLExpires
  <2>1. UNCHANGED <<status, lock, tx, catalog, visit, unreached, refresh, revoking>> /\ ~longURL'
    BY <1>7 DEF URLExpires, row, shown
  <2>2. Changing' <=> Changing
    BY <2>1 DEF Changing
  <2> QED
    BY <2>1, <2>2 DEF Views, ViewsFollowStatus, Readers, Dropped, Revoked
<1>8. CASE DateComes \/ VideosChange \/ UNCHANGED vars
  BY <1>8, ViewsAside DEF DateComes, VideosChange, vars, row, seen, shown
<1> QED
  BY <1>1, <1>2, <1>3, <1>4, <1>5, <1>6, <1>7, <1>8 DEF Next

(* For any number of requests, visitors and authors: a cached catalog       *)
(* disagrees with the status, and a long URL is kept for a course that is   *)
(* not published, only if the last change of the status could not reach it. *)
THEOREM ViewsFollow == Spec => []ViewsFollowStatus
<1>1. Init => Views
  <2> SUFFICES ASSUME Init PROVE Views
    OBVIOUS
  <2>1. /\ catalog = "empty" /\ ~longURL /\ lock = Nobody
        /\ \A v \in Visitors : visit[v] = "idle"
        /\ \A l \in Authors : refresh[l] = "idle"
    BY DEF Init
  <2> QED
    BY <2>1 DEF Views, ViewsFollowStatus, Readers, Dropped, Revoked, Changing
<1>2. Inv /\ Inv' /\ Views /\ [Next]_vars => Views'
  BY ViewsStep
<1>3. Views => ViewsFollowStatus
  BY DEF Views
<1> QED
  BY <1>1, <1>2, <1>3, Invariant, PTL DEF Spec
=============================================================================
