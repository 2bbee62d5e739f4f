--------------------------- MODULE LearningProofs ---------------------------
(***************************************************************************)
(* Theorems about LearnerJourney, for any content of three levels, any     *)
(* number of staff and learners' requests and any completion rules.        *)
(***************************************************************************)
EXTENDS LearnerJourney, FiniteSetTheorems, WellFoundedInduction, TLAPS

-----------------------------------------------------------------------------
(* The content                                                             *)

RowOrders == UNION {[S -> Nat] : S \in SUBSET Row}

StaffHandlers ==
  Reorders \union Updates \union Restores
    \union {"CreateChapter", "CreateLesson", "CreateBlock", "CourseEditorCreateChapter",
            "CourseEditorCreateLesson", "CourseEditorCreateBlock", "AutosaveBlock",
            "CourseEditorAutosaveBlock", "DeleteChapter", "DeleteLesson", "DeleteBlock",
            "CourseEditorMoveChapter"}

EditStates ==
  [kind : StaffHandlers \union {"idle", "over"},
   set : RowOrders, new : RowOrders, fill : SUBSET Row, blank : SUBSET Row,
   doomed : SUBSET Row, lists : SUBSET (Row \union {Root}), held : SUBSET Row,
   tied : SUBSET (Row \union {Root}), since : SUBSET Row]

ContentTypeOK ==
  /\ order \in RowOrders
  /\ used \subseteq Row /\ Present \subseteq used
  /\ edit \in [Requests -> EditStates]

(* A row made by a restore carries the request's name from its start.      *)
OwnNames == \A x \in used : x[2] = Original \/ edit[x[2]].kind # "idle"

(* Every row hangs below one that is there, or will with its own commit.   *)
Rooted == \A x \in Present : Parent(x) \in Present \union {Root}

NewRowsFit ==
  \A r \in OpenEdits :
    /\ DOMAIN edit[r].new \subseteq used \ Present
    /\ \A y \in DOMAIN edit[r].new :
         /\ Parent(y) \in Present \union DOMAIN edit[r].new \union {Root}
         /\ Parent(y) \in Present => edit[r].doomed = {}
    /\ \A o \in OpenEdits \ {r} : DOMAIN edit[o].new \intersect DOMAIN edit[r].new = {}

ContentInv == ContentTypeOK /\ OwnNames /\ Rooted /\ NewRowsFit

(* Rows that are there or never will be again.                             *)
Settled == {x \in used : \A r \in OpenEdits : x \notin DOMAIN edit[r].new}

(* Where a request puts a row, the rows it leaves that nobody else placed  *)
(* since it began, and what it leaves of their lists.                      *)
Placed(e, x) == IF x \in DOMAIN e.new THEN e.new[x]
                ELSE IF x \in DOMAIN e.set THEN e.set[x] ELSE order[x]

Remains(e) == ((Present \ e.doomed) \union DOMAIN e.new) \ e.since

Excused(e, x, y) ==
  \/ Parent(x) \in e.tied /\ ~(e.kind \in Reorders /\ Parent(x) \in e.lists)
  \/ e.kind \in Updates /\ {x, y} \intersect DOMAIN e.set # {}
  \/ {x, y} \subseteq DOMAIN e.new

LeavesInTurn(e) ==
  /\ \A x, y \in Remains(e) :
       x # y /\ Parent(x) = Parent(y) /\ Placed(e, x) = Placed(e, y) => Excused(e, x, y)
  /\ e.kind \in Restores => {x \in Remains(e) : IsChapter(x)} \subseteq DOMAIN e.new

EditsInTurn == \A r \in OpenEdits : LeavesInTurn(edit[r])

(* What a request of staff begins with.                                    *)
Plan(r, h, e) ==
  /\ e \in EditStates /\ h \in StaffHandlers
  /\ DOMAIN e.new \intersect used = {}
  /\ \A y \in DOMAIN e.new :
       /\ Parent(y) \in Present \union DOMAIN e.new \union {Root}
       /\ Parent(y) \in Present => e.doomed = {}
       /\ y[2] \in {Original, r} \/ edit[y[2]].kind # "idle"
  /\ LeavesInTurn([e EXCEPT !.kind = h, !.tied = Tied])

-----------------------------------------------------------------------------
(* The learners' rows                                                      *)

Tables == {"access", "progress", "attempt", "submission", "grade", "certificate"}

LearnerRows ==
  {x \in [table : Tables, who : Learners, at : Row \union {Root}, number : Nat, won : BOOLEAN] :
     /\ x.table \in {"access", "certificate"} => x.at = Root /\ x.number = 0
     /\ x.table = "progress" => x.at \in Row /\ IsLesson(x.at) /\ x.number = 0
     /\ x.table \in {"attempt", "submission", "grade"} => x.at \in Row /\ IsBlock(x.at)
     /\ x.table # "attempt" => ~x.won}

LearnerHandlers ==
  {"EnrollCourse", "ResumeLesson", "LessonPlayerPage", "ReportLessonProgress",
   "CompleteLesson", "SubmitQuiz", "SubmitAssignment", "GradeSubmission"}

VisitStates ==
  [kind : LearnerHandlers \union {"idle", "over", "lost"}, who : Learners \union {Root},
   phase : {"none", "read", "wrote"}, rows : SUBSET LearnerRows, at : SUBSET Row,
   report : SUBSET (Row \X BOOLEAN), judges : BOOLEAN, overtaken : BOOLEAN]

JourneyTypeOK ==
  /\ rows \subseteq LearnerRows
  /\ resume \in [Learners -> Row \union {Root}]
  /\ visit \in [Visits -> VisitStates]
  /\ unseen \subseteq Learners

Live == {v \in Visits : visit[v].phase # "none"}

(* A request writes at most one row of each table, its own, below content  *)
(* that has been there.                                                    *)
VisitFits(v) ==
  LET e == visit[v]
  IN  /\ e.who \in Learners
      /\ \A x \in e.rows : x.who = e.who
      /\ \A x, y \in e.rows : x.table = y.table => x = y
      /\ \A x \in e.at : IsLesson(x)
      /\ Homes(e) \subseteq Settled \union {Root}
      /\ e.phase = "wrote" => Homes(e) \subseteq Present \union {Root}

RowsFit ==
  /\ IsFiniteSet(rows)
  /\ \A x \in rows : x.at \in Present \union {Root}
  /\ \A x, y \in rows : Key(x) = Key(y) => x = y
  /\ \A l \in Learners : resume[l] \in Lessons \union {Root}

JourneyInv ==
  ContentInv /\ JourneyTypeOK /\ RowsFit /\ \A v \in Live : VisitFits(v)

-----------------------------------------------------------------------------
(* Numbers                                                                 *)

Numbered == {"attempt", "submission"}
Of(table, l, b) == {x \in rows : x.table = table /\ x.who = l /\ x.at = b}
Graded(g) == [g EXCEPT !.table = "submission"]

RowsNumbered ==
  /\ \A l \in Learners, b \in Present, table \in Numbered :
       {x.number : x \in Of(table, l, b)} = 1 .. Count(table, l, b)
  /\ \A x \in rows : /\ x.table = "submission" /\ x.at[1] \notin Resubmit => x.number = 1
                     /\ x.table = "grade" => Graded(x) \in rows

VisitNumbered(v) ==
  \A x \in visit[v].rows :
    /\ x.table \in Numbered /\ x.at \in Present =>
         x.number \in 1 .. Count(x.table, x.who, x.at) + 1
    /\ x.table = "submission" /\ x.at[1] \notin Resubmit => x.number = 1
    /\ x.table = "grade" /\ x.at \in Present => Graded(x) \in rows

NumbersInv == RowsNumbered /\ \A v \in Live : VisitNumbered(v)

-----------------------------------------------------------------------------
(* Certificates                                                            *)

Quizzes == Blocks("quiz")
Done(l, R) == {x \in R : x.table = "progress" /\ x.who = l}
Passed(l, R, Q) ==
  {b \in Q : \E x \in R : x.table = "attempt" /\ x.who = l /\ x.at = b /\ x.won}

RulesHold(lessons, done, quizzes, passed) ==
  \A rule \in IF Rules = {} THEN {DefaultRule} ELSE Rules :
    LET of(part, all) ==
          IF rule.type \in {"all_lessons", "all_quizzes"}
          THEN all # {} /\ Cardinality(part) = Cardinality(all)
          ELSE PercentOf(Cardinality(part), Cardinality(all), rule.threshold)
    IN  IF rule.type \in {"all_lessons", "percent_lessons"}
        THEN of(done, lessons) ELSE of(passed, quizzes)

Finished(l, R) == RulesHold(Lessons, Done(l, R), Quizzes, Passed(l, R, Quizzes))

Finishes(x) == x.table = "progress" \/ x.won

(* What a request that judged completion wrote is what the rules say of    *)
(* the rows it saw, and still say unless it was overtaken.                 *)
VisitJudges(v) ==
  LET e == visit[v]
      cert == Certificate(e.who)
  IN  /\ ~e.judges => \A x \in e.rows : ~Finishes(x) /\ x.table # "certificate"
      /\ cert \in e.rows => e.phase = "wrote" /\ Paper("pdf", cert) \in posted
      /\ e.phase = "wrote" /\ e.judges /\ ~e.overtaken =>
           /\ cert \in e.rows => Finished(e.who, rows \union e.rows)
           /\ Finished(e.who, rows \union e.rows) => cert \in rows \union e.rows

FinishedHaveCertificates ==
  \A l \in Learners : Finished(l, rows) => Certificate(l) \in rows \/ l \in unseen

CertificatesInv == FinishedHaveCertificates /\ \A v \in Live : VisitJudges(v)

-----------------------------------------------------------------------------
(* What a request of a learner begins with                                 *)

Intends(l, e) ==
  /\ e \in VisitStates /\ ~e.overtaken /\ l \in Learners
  /\ \A x, y \in e.rows : x.table = y.table => x = y
  /\ \A x \in e.at : IsLesson(x)
  /\ Homes(e) \subseteq Present \union {Root}
  /\ \A x \in e.rows :
       /\ x.who = l /\ x.table # "certificate" /\ (~e.judges => ~Finishes(x))
       /\ x.table \in Numbered => x.number = Count(x.table, l, x.at) + 1
       /\ x.table = "submission" /\ x.at[1] \notin Resubmit => x.number = 1
       /\ x.table = "grade" => Graded(x) \in rows
-----------------------------------------------------------------------------
(* Levels                                                                  *)

LEMMA RootIsNoRow == Root \notin Row /\ Root \notin Names
BY ContentAssumption DEF Row

LEMMA RowPairs ==
  ASSUME NEW x \in Row
  PROVE  /\ x[1] \in Names /\ x[2] \in Requests \union {Original}
         /\ x = <<x[1], x[2]>>
BY DEF Row

LEMMA ParentRow ==
  ASSUME NEW x \in Row
  PROVE  /\ Parent(x) \in Row \union {Root}
         /\ IsChapter(x) <=> ParentOf[x[1]] = Root
         /\ ~IsChapter(x) => /\ Parent(x) \in Row
                             /\ Parent(x) = <<ParentOf[x[1]], x[2]>>
                             /\ Parent(x)[1] = ParentOf[x[1]] /\ Parent(x)[2] = x[2]
<1>1. x[1] \in Names /\ x[2] \in Requests \union {Original}
  BY RowPairs
<1>2. CASE ParentOf[x[1]] = Root
  BY <1>2 DEF Parent, IsChapter
<1>3. CASE ParentOf[x[1]] # Root
  <2>1. ParentOf[x[1]] \in Names
    BY <1>1, <1>3, ContentAssumption
  <2>2. Parent(x) = <<ParentOf[x[1]], x[2]>>
    BY <1>3 DEF Parent
  <2>3. Parent(x) \in Row
    BY <1>1, <2>1, <2>2 DEF Row
  <2> QED
    BY <1>3, <2>2, <2>3, RootIsNoRow DEF IsChapter
<1> QED
  BY <1>2, <1>3

(* Nothing hangs below a block.                                            *)
LEMMA Levels ==
  ASSUME NEW x \in Row
  PROVE  /\ IsLesson(x) => Parent(x) \in Row /\ IsChapter(Parent(x))
         /\ IsBlock(x) => Parent(x) \in Row /\ IsLesson(Parent(x))
<1>1. IsLesson(x) => Parent(x) \in Row /\ IsChapter(Parent(x))
  BY ParentRow DEF IsLesson
<1>2. ASSUME IsBlock(x) PROVE Parent(x) \in Row /\ IsLesson(Parent(x))
  <2> DEFINE y == Parent(x)
  <2>1. ~IsChapter(x) /\ ~IsChapter(y)
    BY <1>2 DEF IsBlock, IsLesson
  <2>2. y \in Row /\ y[1] = ParentOf[x[1]]
    BY <2>1, ParentRow
  <2>3. Parent(y) \in Row /\ Parent(y)[1] = ParentOf[y[1]] /\ ParentOf[y[1]] # Root
    BY <2>1, <2>2, ParentRow
  <2>4. ParentOf[x[1]] # Root
    BY <2>1, ParentRow
  <2>5. x[1] \in Names
    BY RowPairs
  <2>6. ParentOf[ParentOf[ParentOf[x[1]]]] = Root
    BY <2>2, <2>3, <2>4, <2>5, ContentAssumption
  <2>7. IsChapter(Parent(y))
    BY <2>2, <2>3, <2>6, ParentRow
  <2> QED
    BY <2>1, <2>2, <2>7 DEF IsLesson
<1> QED
  BY <1>1, <1>2

LEMMA FinitelyManyRows == IsFiniteSet(Row)
<1> DEFINE R == Requests \union {Original}
<1>1. IsFiniteSet(R)
  BY ContentAssumption, FS_AddElement
<1> QED
  BY <1>1, ContentAssumption, FS_Product DEF Row

LEMMA OrderOfRow ==
  ASSUME NEW f \in RowOrders
  PROVE  /\ DOMAIN f \subseteq Row
         /\ f \in [DOMAIN f -> Nat]
         /\ \A x \in DOMAIN f : x \in Row /\ f[x] \in Nat
BY DEF RowOrders

LEMMA RowOrder ==
  ASSUME NEW S \in SUBSET Row, NEW f \in [S -> Nat]
  PROVE  f \in RowOrders
BY DEF RowOrders

LEMMA NoneIsOrder == None \in RowOrders /\ DOMAIN None = {}
<1>1. DOMAIN None = {} /\ None \in [{} -> Nat]
  BY DEF None
<1> QED
  BY <1>1 DEF RowOrders

LEMMA IdleIsState == Idle \in EditStates /\ Over \in EditStates
<1>1. Idle \in EditStates
  BY NoneIsOrder DEF Idle, EditStates
<1>2. Over \in EditStates
  BY <1>1 DEF Over, EditStates
<1> QED
  BY <1>1, <1>2

-----------------------------------------------------------------------------
(* Smallest and largest numbers                                            *)

LEMMA HasLeast ==
  ASSUME NEW S \in SUBSET Nat, S # {}
  PROVE  \E x \in S : \A y \in S : x <= y
<1>1. PICK x \in S : \A y \in S : <<y, x>> \notin OpToRel(<, Nat)
  BY NatLessThanWellFounded, WFMin
<1>2. \A y \in S : ~(y < x)
  BY <1>1 DEF OpToRel
<1> QED
  BY <1>2

LEMMA HasLargest ==
  ASSUME NEW S \in SUBSET Nat, IsFiniteSet(S), S # {}
  PROVE  Max(S) \in S /\ \A y \in S : Max(S) >= y
<1> DEFINE Lacks(U) == ~\E m \in U : \A y \in U : m >= y
           Bad == {n \in Nat : \E U \in SUBSET Nat :
                     IsFiniteSet(U) /\ U # {} /\ Cardinality(U) = n /\ Lacks(U)}
<1>1. SUFFICES ~Lacks(S)
  BY DEF Max
<1>2. SUFFICES ASSUME Lacks(S) PROVE FALSE
  OBVIOUS
<1>3. Bad # {}
  BY <1>2, FS_CardinalityType
<1>4. PICK n \in Bad : \A k \in Bad : n <= k
  BY <1>3, HasLeast
<1>5. PICK U \in SUBSET Nat :
        IsFiniteSet(U) /\ U # {} /\ Cardinality(U) = n /\ Lacks(U)
  BY <1>4
<1>6. PICK a \in U : TRUE
  BY <1>5
<1> DEFINE V == U \ {a}
<1>7. IsFiniteSet(V) /\ Cardinality(V) = n - 1 /\ n \in Nat /\ n - 1 \in Nat
  <2>1. IsFiniteSet(V) /\ Cardinality(V) = n - 1
    BY <1>5, <1>6, FS_RemoveElement
  <2>2. n \in Nat /\ Cardinality(V) \in Nat
    BY <2>1, FS_CardinalityType
  <2> HIDE DEF V, Bad
  <2> QED
    BY <2>1, <2>2
<1>8. V # {}
  BY <1>5, <1>6
<1>9. n - 1 \notin Bad
  BY <1>4, <1>7
<1>10. ~Lacks(V)
  BY <1>7, <1>8, <1>9
<1>11. PICK m \in V : \A y \in V : m >= y
  BY <1>10
<1>12. CASE m >= a
  BY <1>5, <1>11, <1>12
<1>13. CASE ~(m >= a)
  BY <1>5, <1>6, <1>11, <1>13
<1> QED
  BY <1>12, <1>13

(* A row created at the end of a list comes after every row of it.         *)
LEMMA NextIsLast ==
  ASSUME ContentTypeOK, NEW p
  PROVE  NextSortOrder(p) \in Nat /\ \A x \in Siblings(p) : order[x] < NextSortOrder(p)
<1> DEFINE S == Siblings(p)
           T == {order[x] : x \in S}
           f == [x \in S |-> order[x]]
<1>1. S \subseteq Row /\ \A x \in S : order[x] \in Nat
  BY OrderOfRow DEF ContentTypeOK, Siblings, Present
<1>2. IsFiniteSet(S)
  BY <1>1, FinitelyManyRows, FS_Subset
<1>3. f \in Surjection(S, T)
  BY DEF Surjection
<1>4. IsFiniteSet(T) /\ T \in SUBSET Nat
  BY <1>1, <1>2, <1>3, FS_Surjection
<1>5. Unit \in Nat \ {0}
  BY ContentAssumption
<1>6. CASE S = {}
  BY <1>5, <1>6 DEF NextSortOrder
<1>7. CASE S # {}
  <2>1. Max(T) \in Nat /\ \A x \in S : Max(T) >= order[x]
    <3>1. T # {}
      BY <1>7
    <3> QED
      BY <1>4, <3>1, HasLargest
  <2>2. NextSortOrder(p) = Max(T) + Unit
    BY <1>7 DEF NextSortOrder
  <2> HIDE DEF S, T
  <2> QED
    BY <1>1, <1>5, <2>1, <2>2 DEF S
<1> QED
  BY <1>6, <1>7

-----------------------------------------------------------------------------
(* What requests of staff begin with                                       *)

(* Two rows that a request leaves as they are.                             *)
LEMMA TiedBefore ==
  ASSUME NEW x \in Present, NEW y \in Present, x # y, Parent(x) = Parent(y), order[x] = order[y]
  PROVE  Parent(x) \in Tied
BY DEF Tied, NeedsRenormalize, Siblings

LEMMA QuietPlan ==
  ASSUME NEW r, NEW h \in StaffHandlers \ (Reorders \union Restores), NEW e \in EditStates,
         e.set = None, e.new = None
  PROVE  Plan(r, h, e)
<1> DEFINE d == [e EXCEPT !.kind = h, !.tied = Tied]
<1>1. /\ d.set = None /\ d.new = None /\ d.kind = h /\ d.tied = Tied
  BY DEF EditStates
<1>2. Remains(d) \subseteq Present /\ \A x : Placed(d, x) = order[x]
  BY <1>1, NoneIsOrder DEF Remains, Placed
<1>3. LeavesInTurn(d)
  <2> HIDE DEF d
  <2> QED
    BY <1>1, <1>2, TiedBefore DEF LeavesInTurn, Excused
<1> QED
  BY <1>3, NoneIsOrder DEF Plan

(* New rows are told apart from the others of their lists.                 *)
LEMMA CreatePlan ==
  ASSUME ContentInv, NEW r \in Requests, NEW h \in StaffHandlers \ (Reorders \union Restores),
         NEW x \in Row \ used, NEW full \in BOOLEAN, Create(r, h, x, full)
  PROVE  \E e : Plan(r, h, e) /\ Begin(r, h, e)
<1> DEFINE p == Parent(x)
           n == NextSortOrder(p)
           f == [y \in {x} |-> n]
           e == [Idle EXCEPT !.new = f, !.fill = IF full THEN {x} ELSE {}, !.lists = {p}]
           d == [e EXCEPT !.kind = h, !.tied = Tied]
<1>1. p \in Row \union {Root} /\ n \in Nat /\ \A y \in Siblings(p) : order[y] < n
  BY ParentRow, NextIsLast DEF ContentInv
<1>2. f \in RowOrders /\ DOMAIN f = {x} /\ f[x] = n
  BY <1>1, RowOrder
<1>3. e \in EditStates
  <2> HIDE DEF f, p
  <2> QED
    BY <1>1, <1>2, IdleIsState DEF EditStates
<1>4. /\ e.new = f /\ e.doomed = {} /\ d.kind = h /\ d.tied = Tied
      /\ d.new = f /\ d.set = None
  BY DEF Idle
<1>5. p \in Present \union {Root} /\ (x[2] = Original \/ edit[x[2]].kind # "idle")
  <2>1. CASE IsChapter(x)
    BY <2>1 DEF Create, IsChapter
  <2>2. CASE ~IsChapter(x)
    <3>1. p \in Present /\ p \in used
      BY <2>2 DEF Create, ContentInv, ContentTypeOK
    <3>2. p[2] = x[2]
      BY <2>2, ParentRow
    <3> QED
      BY <3>1, <3>2 DEF ContentInv, OwnNames
  <2> QED
    BY <2>1, <2>2
<1>6. /\ Remains(d) \subseteq Present \union {x}
      /\ \A w \in Present : w # x /\ Placed(d, w) = order[w]
      /\ Placed(d, x) = n
      /\ \A w \in Present : Parent(w) = p => order[w] < n /\ order[w] \in Nat
  <2>1. Remains(d) \subseteq Present \union {x}
    BY <1>2, <1>4 DEF Remains
  <2>2. \A w \in Present : w # x
    BY DEF ContentInv, ContentTypeOK
  <2>3. \A w \in Present : Placed(d, w) = order[w]
    BY <1>2, <1>4, <2>2, NoneIsOrder DEF Placed
  <2>4. Placed(d, x) = n
    BY <1>2, <1>4 DEF Placed
  <2>5. \A w \in Present : Parent(w) = p => order[w] < n /\ order[w] \in Nat
    BY <1>1, OrderOfRow DEF Siblings, ContentInv, ContentTypeOK, Present
  <2> QED
    BY <2>1, <2>2, <2>3, <2>4, <2>5
<1>7. LeavesInTurn(d)
  <2>1. ASSUME NEW y \in Remains(d), NEW z \in Remains(d), y # z, Parent(y) = Parent(z),
               Placed(d, y) = Placed(d, z)
        PROVE  y \in Present /\ z \in Present
    <3> HIDE DEF d, f, n
    <3> QED
      BY <1>1, <1>6, <2>1
  <2> HIDE DEF d
  <2> QED
    BY <1>4, <1>6, <2>1, TiedBefore DEF LeavesInTurn, Excused
<1>8. Plan(r, h, e)
  BY <1>2, <1>3, <1>4, <1>5, <1>7 DEF Plan
<1>9. Begin(r, h, e)
  BY DEF Create
<1> QED
  BY <1>8, <1>9

(* A given order is what an update is excused for.                         *)
LEMMA UpdatePlan ==
  ASSUME ContentInv, NEW r \in Requests, NEW h \in Updates, NEW x \in Present,
         NEW e \in EditStates, e.set = None, e.new = None, Update(r, h, x, e)
  PROVE  \E b : Plan(r, h, b) /\ Begin(r, h, b)
<1>1. h \in StaffHandlers \ (Reorders \union Restores)
  BY DEF StaffHandlers, Updates, Reorders, Restores
<1>2. CASE Begin(r, h, e)
  BY <1>1, <1>2, QuietPlan
<1>3. ASSUME NEW o \in 1 .. MaxOrder,
             Begin(r, h, [e EXCEPT !.set = [y \in {x} |-> o], !.lists = {Parent(x)}])
      PROVE  \E b : Plan(r, h, b) /\ Begin(r, h, b)
  <2> DEFINE f == [y \in {x} |-> o]
             b == [e EXCEPT !.set = f, !.lists = {Parent(x)}]
             d == [b EXCEPT !.kind = h, !.tied = Tied]
  <2>1. x \in Row /\ Parent(x) \in Row \union {Root}
    BY ParentRow DEF ContentInv, ContentTypeOK
  <2>2. o \in Nat
    BY ContentAssumption
  <2>3. f \in RowOrders /\ DOMAIN f = {x}
    BY <2>1, <2>2, RowOrder
  <2>4. b \in EditStates
    <3> HIDE DEF f
    <3> QED
      BY <2>1, <2>3 DEF EditStates
  <2>5. /\ b.new = None /\ d.kind = h /\ d.set = f /\ d.new = None /\ d.tied = Tied
    BY DEF EditStates
  <2>6. Remains(d) \subseteq Present /\ \A w : w # x => Placed(d, w) = order[w]
    BY <2>3, <2>5, NoneIsOrder DEF Remains, Placed
  <2>6a. LeavesInTurn(d)
    <3>1. DOMAIN d.set = {x}
      BY <2>3, <2>5
    <3> HIDE DEF d
    <3>2. ASSUME NEW v \in Remains(d), NEW w \in Remains(d), v # w, Parent(v) = Parent(w),
                 Placed(d, v) = Placed(d, w)
          PROVE  Excused(d, v, w)
      <4>1. CASE v = x \/ w = x
        BY <2>5, <3>1, <4>1 DEF Excused
      <4>2. CASE v # x /\ w # x
        BY <1>1, <2>5, <2>6, <3>2, <4>2, TiedBefore DEF Excused
      <4> QED
        BY <4>1, <4>2
    <3> QED
      BY <1>1, <2>5, <3>2 DEF LeavesInTurn
  <2>7. Plan(r, h, b)
    BY <1>1, <2>1, <2>4, <2>5, <2>6a, NoneIsOrder DEF Plan
  <2> QED
    BY <1>3, <2>7
<1> QED
  BY <1>2, <1>3 DEF Update

(* A list numbered anew, or whose orders as written are apart, is apart.   *)
LEMMA ReorderPlan ==
  ASSUME ContentInv, NEW r \in Requests, NEW h \in Reorders,
         NEW p \in Present \union {Root}, Reorder(r, h, p)
  PROVE  \E e : Plan(r, h, e) /\ Begin(r, h, e)
<1> DEFINE list == Siblings(p)
           Read(S, f) == [x \in list |-> IF x \in S THEN f[x] ELSE order[x]]
           Orders(S, f) == IF NeedsRenormalize(Read(S, f), list)
                           THEN Renormalize(Read(S, f), list) ELSE {f}
<1>1. PICK S \in SUBSET (list \ Locked(r)) : \E f \in [S -> 1 .. MaxOrder] :
        \E g \in Orders(S, f) : Begin(r, h, [Idle EXCEPT !.set = g, !.lists = {p}])
  BY DEF Reorder
<1>1a. PICK f \in [S -> 1 .. MaxOrder] :
        \E g \in Orders(S, f) : Begin(r, h, [Idle EXCEPT !.set = g, !.lists = {p}])
  BY <1>1
<1> DEFINE read == Read(S, f)
<1>1b. PICK g \in Orders(S, f) : Begin(r, h, [Idle EXCEPT !.set = g, !.lists = {p}])
  BY <1>1a
<1> DEFINE e == [Idle EXCEPT !.set = g, !.lists = {p}]
           d == [e EXCEPT !.kind = h, !.tied = Tied]
<1>2. h \in StaffHandlers \ Restores /\ p \in Row \union {Root}
  BY DEF StaffHandlers, Reorders, Restores, ContentInv, ContentTypeOK
<1>3. S \subseteq list /\ list \subseteq Row /\ list \subseteq Present
  BY DEF ContentInv, ContentTypeOK, Siblings
<1>4. /\ DOMAIN g \subseteq list /\ g \in RowOrders
      /\ \A x, y \in list : x # y =>
           (IF x \in DOMAIN g THEN g[x] ELSE order[x]) # (IF y \in DOMAIN g THEN g[y] ELSE order[y])
  <2>1. CASE NeedsRenormalize(read, list)
    <3> DEFINE T == {i * Unit : i \in 1 .. Cardinality(list)}
    <3>1. g \in [list -> T] /\ \A x, y \in list : x # y => g[x] # g[y]
      BY <2>1 DEF Renormalize
    <3>2. T \subseteq Nat
      <4>1. IsFiniteSet(list)
        BY <1>3, FinitelyManyRows, FS_Subset
      <4>2. Cardinality(list) \in Nat /\ Unit \in Nat
        BY <4>1, FS_CardinalityType, ContentAssumption
      <4>3. \A i \in Nat : i * Unit \in Nat
        BY <4>2
      <4> QED
        BY <4>2, <4>3
    <3>3. g \in [list -> Nat]
      BY <3>1, <3>2
    <3> QED
      BY <1>3, <3>1, <3>3, RowOrder
  <2>2. CASE ~NeedsRenormalize(read, list)
    <3>1. g = f /\ g \in [S -> Nat]
      BY <2>2, ContentAssumption
    <3>2. \A x \in list : read[x] = IF x \in S THEN g[x] ELSE order[x]
      BY <3>1
    <3>3. \A x, y \in list : x # y => read[x] # read[y]
      BY <2>2 DEF NeedsRenormalize
    <3> QED
      BY <1>3, <3>1, <3>2, <3>3, RowOrder
  <2> QED
    BY <2>1, <2>2
<1>5. e \in EditStates
  <2> HIDE DEF list
  <2> QED
    BY <1>2, <1>4, IdleIsState DEF EditStates
<1>6. /\ e.new = None /\ d.kind = h /\ d.set = g /\ d.new = None /\ d.lists = {p}
      /\ d.tied = Tied
  BY DEF Idle
<1>7. /\ Remains(d) \subseteq Present
      /\ \A x : Placed(d, x) = IF x \in DOMAIN g THEN g[x] ELSE order[x]
  BY <1>6, NoneIsOrder DEF Remains, Placed
<1>8. LeavesInTurn(d)
  <2> HIDE DEF d
  <2>1. ASSUME NEW x \in Remains(d), NEW y \in Remains(d), x # y, Parent(x) = Parent(y),
               Placed(d, x) = Placed(d, y)
        PROVE  Parent(x) # p /\ Parent(x) \in Tied
    <3>1. x \in Present /\ y \in Present /\ Parent(x) # p
      BY <1>4, <1>7, <2>1 DEF Siblings
    <3>2. x \notin DOMAIN g /\ y \notin DOMAIN g
      BY <1>4, <2>1, <3>1 DEF Siblings
    <3> QED
      BY <1>7, <2>1, <3>1, <3>2, TiedBefore
  <2> QED
    BY <1>2, <1>6, <2>1 DEF LeavesInTurn, Excused
<1>9. Plan(r, h, e)
  BY <1>2, <1>5, <1>6, <1>8, NoneIsOrder DEF Plan
<1> QED
  BY <1>1b, <1>9

LEMMA MovePlan ==
  ASSUME ContentInv, NEW r \in Requests, CourseEditorMoveChapter(r)
  PROVE  \E e : Plan(r, "CourseEditorMoveChapter", e) /\ Begin(r, "CourseEditorMoveChapter", e)
<1> DEFINE h == "CourseEditorMoveChapter"
<1>1. PICK x \in Siblings(Root), y \in Siblings(Root) :
        /\ x # y
        /\ Begin(r, h, [Idle EXCEPT !.set = [z \in {x, y} |-> IF z = x THEN order[y] ELSE order[x]],
                                    !.lists = {Root}])
  BY DEF CourseEditorMoveChapter
<1> DEFINE g == [z \in {x, y} |-> IF z = x THEN order[y] ELSE order[x]]
           e == [Idle EXCEPT !.set = g, !.lists = {Root}]
           d == [e EXCEPT !.kind = h, !.tied = Tied]
<1>2. h \in StaffHandlers \ (Reorders \union Restores)
  BY DEF StaffHandlers, Reorders, Restores
<1>3. /\ x \in Present /\ y \in Present /\ Parent(x) = Root /\ Parent(y) = Root
      /\ x \in Row /\ y \in Row /\ order[x] \in Nat /\ order[y] \in Nat
  BY OrderOfRow DEF Siblings, ContentInv, ContentTypeOK, Present
<1>4. g \in [{x, y} -> Nat] /\ g \in RowOrders
  BY <1>3, RowOrder
<1>5. e \in EditStates
  <2> HIDE DEF g
  <2> QED
    BY <1>4, IdleIsState DEF EditStates
<1>6. e.new = None /\ d.kind = h /\ d.set = g /\ d.new = None /\ d.tied = Tied
  BY DEF Idle
<1>7. /\ Remains(d) \subseteq Present
      /\ \A w : Placed(d, w) = IF w = x THEN order[y] ELSE IF w = y THEN order[x] ELSE order[w]
  BY <1>1, <1>6, NoneIsOrder DEF Remains, Placed
<1>8. LeavesInTurn(d)
  <2> HIDE DEF d
  <2>1. ASSUME NEW v \in Remains(d), NEW w \in Remains(d), v # w, Parent(v) = Parent(w),
               Placed(d, v) = Placed(d, w)
        PROVE  Parent(v) \in Tied
    <3>1. v \in Present /\ w \in Present
      BY <1>7, <2>1
    <3>2. CASE Parent(v) # Root
      BY <1>3, <1>7, <2>1, <3>1, <3>2, TiedBefore
    <3>3. CASE Parent(v) = Root
      <4>1. \E a, b \in Present : a # b /\ Parent(a) = Root /\ Parent(b) = Root /\ order[a] = order[b]
        BY <1>1, <1>3, <1>7, <2>1, <3>1, <3>3
      <4> QED
        BY <3>3, <4>1, TiedBefore
    <3> QED
      BY <3>2, <3>3
  <2> QED
    BY <1>2, <1>6, <2>1 DEF LeavesInTurn, Excused
<1>9. Plan(r, h, e)
  BY <1>2, <1>5, <1>6, <1>8, NoneIsOrder DEF Plan
<1> QED
  BY <1>1, <1>9

(* The rows of a version hang below each other.                            *)
LEMMA RestorePlan ==
  ASSUME ContentInv, NEW r \in Requests, NEW h \in Restores,
         edit[r].kind = "idle", Restore(r, h)
  PROVE  \E e : Plan(r, h, e) /\ Begin(r, h, e)
<1> DEFINE N == {<<n, r>> : n \in DOMAIN Version}
           f == [x \in N |-> Version[x[1]]]
           e == [Idle EXCEPT !.doomed = Siblings(Root), !.new = f, !.fill = N, !.lists = {Root}]
           d == [e EXCEPT !.kind = h, !.tied = Tied]
<1>1. /\ DOMAIN Version \subseteq Names /\ \A n \in DOMAIN Version : Version[n] \in Nat
      /\ \A n \in DOMAIN Version : ParentOf[n] \in DOMAIN Version \union {Root}
      /\ Original \notin Requests
  BY ContentAssumption
<1>2. N \subseteq Row /\ \A x \in N : x[1] \in DOMAIN Version /\ x[2] = r
  BY <1>1 DEF Row
<1>3. f \in RowOrders /\ DOMAIN f = N
  BY <1>1, <1>2, RowOrder
<1>4. Siblings(Root) \subseteq Row
  BY DEF Siblings, ContentInv, ContentTypeOK
<1>5. e \in EditStates
  <2> HIDE DEF f, N
  <2> QED
    BY <1>2, <1>3, <1>4, IdleIsState DEF EditStates
<1>6. /\ e.new = f /\ h \in StaffHandlers /\ h \notin Reorders
      /\ d.kind = h /\ d.set = None /\ d.new = f /\ d.tied = Tied /\ d.doomed = Siblings(Root)
  BY DEF Idle, StaffHandlers, Reorders, Restores
<1>7. \A x \in N : Parent(x) \in N \union {Root}
  <2>1. SUFFICES ASSUME NEW x \in N, Parent(x) # Root PROVE Parent(x) \in N
    OBVIOUS
  <2>2. Parent(x) = <<ParentOf[x[1]], r>> /\ ParentOf[x[1]] # Root
    BY <1>2, <2>1 DEF Parent
  <2> QED
    BY <1>1, <1>2, <2>2
<1>8. N \intersect used = {}
  <2>1. SUFFICES ASSUME NEW x \in N, x \in used PROVE FALSE
    OBVIOUS
  <2> QED
    BY <1>1, <1>2, <2>1 DEF ContentInv, OwnNames
<1>9. \A x \in N : Parent(x) \notin Present
  BY <1>7, <1>8, RootIsNoRow DEF ContentInv, ContentTypeOK
<1>10. LeavesInTurn(d)
  <2>1. Remains(d) \subseteq (Present \ Siblings(Root)) \union N
    BY <1>3, <1>6 DEF Remains
  <2>2. \A x \in Present : x \notin N /\ Placed(d, x) = order[x]
    BY <1>3, <1>6, <1>8, NoneIsOrder DEF Placed, ContentInv, ContentTypeOK
  <2>3. \A x \in Present \ Siblings(Root) : Parent(x) \in Present /\ ~IsChapter(x)
    BY DEF Siblings, IsChapter, ContentInv, Rooted
  <2>4. DOMAIN d.new = N
    BY <1>3, <1>6
  <2> HIDE DEF d, f, N
  <2>5. ASSUME NEW x \in Remains(d), NEW y \in Remains(d), x # y, Parent(x) = Parent(y),
               Placed(d, x) = Placed(d, y)
        PROVE  Excused(d, x, y)
    <3>1. CASE x \in N /\ y \in N
      BY <2>4, <3>1 DEF Excused
    <3>2. CASE x \in Present \ Siblings(Root) /\ y \in Present \ Siblings(Root)
      BY <1>6, <2>2, <2>5, <3>2, TiedBefore DEF Excused
    <3> QED
      BY <1>9, <2>1, <2>3, <2>5, <3>1, <3>2
  <2> QED
    BY <2>1, <2>3, <2>4, <2>5 DEF LeavesInTurn
<1>11. Plan(r, h, e)
  <2> HIDE DEF f, N
  <2> QED
    BY <1>2, <1>3, <1>5, <1>6, <1>7, <1>8, <1>9, <1>10 DEF Plan
<1>12. Begin(r, h, e)
  BY DEF Restore
<1> QED
  BY <1>11, <1>12

LEMMA RequestHasPlan ==
  ASSUME ContentInv, NEW r \in Requests, Request(r)
  PROVE  \E h, e : Plan(r, h, e) /\ Begin(r, h, e)
<1>1. edit[r].kind = "idle" /\ Present \subseteq Row
  BY DEF Request, ContentInv, ContentTypeOK
<1>2. {"CreateChapter", "CreateLesson", "CreateBlock", "CourseEditorCreateChapter",
       "CourseEditorCreateLesson", "CourseEditorCreateBlock", "AutosaveBlock",
       "CourseEditorAutosaveBlock", "DeleteChapter", "DeleteLesson", "DeleteBlock"}
        \subseteq StaffHandlers \ (Reorders \union Restores)
  BY DEF StaffHandlers, Reorders, Restores
<1>3. /\ {"UpdateChapter", "UpdateLesson", "UpdateBlock"} \subseteq Updates
      /\ {"ReorderChapters", "ReorderLessons", "ReorderBlocks"} \subseteq Reorders
      /\ {"RestoreVersion", "CourseEditorRestoreVersion"} \subseteq Restores
  BY DEF Updates, Reorders, Restores
<1>4. TRUE \in BOOLEAN /\ FALSE \in BOOLEAN
  OBVIOUS
<1>5. CASE CreateChapter(r) \/ CreateLesson(r) \/ CreateBlock(r)
  BY <1>2, <1>4, <1>5, CreatePlan DEF CreateChapter, CreateLesson, CreateBlock
<1>6. CASE CourseEditorCreateChapter(r) \/ CourseEditorCreateLesson(r) \/ CourseEditorCreateBlock(r)
  BY <1>2, <1>4, <1>6, CreatePlan
     DEF CourseEditorCreateChapter, CourseEditorCreateLesson, CourseEditorCreateBlock
<1>7. ASSUME NEW x \in Present
      PROVE  /\ Idle \in EditStates
             /\ \A b \in Filled(x) \union {Idle} :
                  b \in EditStates /\ b.set = None /\ b.new = None
  <2>1. x \in Row
    BY <1>1
  <2>2. Idle.set = None /\ Idle.new = None /\ Idle \in EditStates
    BY IdleIsState DEF Idle
  <2>3. ASSUME NEW b \in {[Idle EXCEPT !.fill = {x}], [Idle EXCEPT !.blank = {x}]}
        PROVE  b \in EditStates /\ b.set = None /\ b.new = None
    BY <2>1, <2>2 DEF EditStates
  <2> QED
    BY <2>2, <2>3 DEF Filled
<1>8. CASE UpdateChapter(r) \/ UpdateLesson(r)
  BY <1>3, <1>7, <1>8, UpdatePlan DEF UpdateChapter, UpdateLesson
<1>9. CASE UpdateBlock(r)
  BY <1>3, <1>7, <1>9, UpdatePlan DEF UpdateBlock
<1>10. CASE AutosaveBlock(r)
  BY <1>2, <1>7, <1>10, QuietPlan DEF AutosaveBlock
<1>11. CASE CourseEditorAutosaveBlock(r)
  <2>1. PICK x \in Present :
          Begin(r, "CourseEditorAutosaveBlock",
                IF TypeOf[x[1]] = "text" THEN [Idle EXCEPT !.fill = {x}]
                                         ELSE [Idle EXCEPT !.blank = {x}])
    BY <1>11 DEF CourseEditorAutosaveBlock
  <2>2. PICK b \in Filled(x) : Begin(r, "CourseEditorAutosaveBlock", b)
    BY <2>1 DEF Filled
  <2> QED
    BY <1>2, <1>7, <2>2, QuietPlan
<1>12. CASE DeleteChapter(r) \/ DeleteLesson(r) \/ DeleteBlock(r)
  <2>1. PICK h \in {"DeleteChapter", "DeleteLesson", "DeleteBlock"}, x \in Present : Delete(r, h, x)
    BY <1>12 DEF DeleteChapter, DeleteLesson, DeleteBlock
  <2> DEFINE e == [Idle EXCEPT !.doomed = {x}]
  <2>2. e \in EditStates /\ e.set = None /\ e.new = None
    <3>1. x \in Row
      BY <1>1
    <3> QED
      BY <3>1, IdleIsState DEF Idle, EditStates
  <2> QED
    BY <1>2, <2>1, <2>2, QuietPlan DEF Delete
<1>13. CASE ReorderChapters(r) \/ ReorderLessons(r) \/ ReorderBlocks(r)
  BY <1>3, <1>13, ReorderPlan DEF ReorderChapters, ReorderLessons, ReorderBlocks
<1>14. CASE CourseEditorMoveChapter(r)
  BY <1>14, MovePlan
<1>15. CASE RestoreVersion(r) \/ CourseEditorRestoreVersion(r)
  BY <1>1, <1>3, <1>15, RestorePlan DEF RestoreVersion, CourseEditorRestoreVersion
<1> QED
  BY <1>5, <1>6, <1>8, <1>9, <1>10, <1>11, <1>12, <1>13, <1>14, <1>15 DEF Request

-----------------------------------------------------------------------------
(* A request of staff begins                                               *)

(* The state a request is in once the handler's reads are made: what it      *)
(* plans, its name and the rows that foreign keys tie it to; what it holds   *)
(* is left open.                                                             *)
Begun(e, h, d) == d = [e EXCEPT !.kind = h, !.tied = Tied, !.held = d.held]

(* A request that begins is open in the state it has planned, and the other  *)
(* requests are as they were.                                                *)
LEMMA BeginStates ==
  ASSUME ContentInv, NEW r \in Requests, NEW h, NEW e, Plan(r, h, e), Begin(r, h, e)
  PROVE  /\ edit[r].kind = "idle" /\ r \notin OpenEdits
         /\ edit' \in [Requests -> EditStates]
         /\ OpenEdits' = OpenEdits \union {r}
         /\ Begun(e, h, edit'[r])
         /\ edit'[r].kind = h /\ edit'[r].new = e.new /\ edit'[r].doomed = e.doomed
         /\ \A o \in Requests \ {r} : edit'[o] = edit[o]
<1> DEFINE held == Touched(e) \ Locked(r)
           d == [e EXCEPT !.kind = h, !.tied = Tied, !.held = held]
<1>1. /\ edit[r].kind = "idle" /\ r \notin OpenEdits
      /\ edit \in [Requests -> EditStates] /\ e \in EditStates /\ h \in StaffHandlers
  BY DEF Begin, ContentInv, ContentTypeOK, Plan, OpenEdits, Open
<1>2. edit' = [edit EXCEPT ![r] = d]
  BY DEF Begin
<1>3. Tied \subseteq Row \union {Root}
  BY ParentRow DEF Tied, ContentInv, ContentTypeOK
<1>4. held \subseteq Row
  <2>1. DOMAIN e.set \subseteq Row /\ e.fill \subseteq Row /\ e.blank \subseteq Row
    BY <1>1, OrderOfRow DEF EditStates
  <2>2. Below(e.doomed \intersect Present, Present) \subseteq Row
    BY DEF Below, ContentInv, ContentTypeOK
  <2> QED
    BY <2>1, <2>2 DEF Touched
<1> HIDE DEF held
<1>5. d \in EditStates
  BY <1>1, <1>3, <1>4 DEF EditStates
<1>6. /\ d.kind = h /\ d.new = e.new /\ d.doomed = e.doomed /\ d.held = held
  BY <1>1 DEF EditStates
<1>7. h \notin {"idle", "over"}
  BY <1>1 DEF StaffHandlers, Reorders, Updates, Restores
<1>8. edit'[r] = d /\ \A o \in Requests \ {r} : edit'[o] = edit[o]
  BY <1>1, <1>2
<1>9. edit' \in [Requests -> EditStates]
  BY <1>1, <1>2, <1>5
<1>10. Begun(e, h, d)
  BY <1>6 DEF Begun
<1> HIDE DEF d
<1>11. OpenEdits' = OpenEdits \union {r}
  BY <1>6, <1>7, <1>8 DEF OpenEdits, Open
<1> QED
  BY <1>1, <1>6, <1>8, <1>9, <1>10, <1>11

LEMMA BeginKeepsContent ==
  ASSUME ContentInv, NEW r \in Requests, NEW h, NEW e, Plan(r, h, e), Begin(r, h, e)
  PROVE  /\ ContentInv' /\ Settled' = Settled
         /\ order' = order
<1>1. /\ used' = used \union DOMAIN e.new /\ order' = order /\ Present' = Present
  BY DEF Begin, Present
<1>2. /\ edit[r].kind = "idle" /\ r \notin OpenEdits
      /\ edit' \in [Requests -> EditStates]
      /\ OpenEdits' = OpenEdits \union {r}
  BY BeginStates
<1>4. /\ edit'[r].new = e.new /\ edit'[r].doomed = e.doomed
      /\ edit'[r].kind = h /\ h \notin {"idle", "over"}
      /\ DOMAIN e.new \subseteq Row /\ DOMAIN e.new \intersect used = {}
  <2>1. e \in EditStates /\ h \in StaffHandlers /\ DOMAIN e.new \intersect used = {}
    BY DEF Plan
  <2>2. edit'[r].new = e.new /\ edit'[r].doomed = e.doomed /\ edit'[r].kind = h
    BY BeginStates
  <2>3. e.new \in RowOrders
    BY <2>1 DEF EditStates
  <2> QED
    BY <2>1, <2>2, <2>3, OrderOfRow DEF StaffHandlers, Reorders, Updates, Restores
<1>5. \A o \in Requests \ {r} : edit'[o] = edit[o]
  BY BeginStates
<1>6. ContentTypeOK'
  BY <1>1, <1>2, <1>4 DEF ContentInv, ContentTypeOK
<1>7. OwnNames'
  <2> SUFFICES ASSUME NEW x \in used' PROVE x[2] = Original \/ edit'[x[2]].kind # "idle"
    BY DEF OwnNames
  <2>1. x \in Row
    BY <1>6 DEF ContentTypeOK
  <2>2. x[2] = Original \/ x[2] = r \/ (x[2] \in Requests \ {r} /\ edit[x[2]].kind # "idle")
    <3>1. CASE x \in used
      BY <1>2, <2>1, <3>1, RowPairs DEF ContentInv, OwnNames
    <3>2. CASE x \in DOMAIN e.new
      BY <2>1, <3>2, RowPairs DEF Plan
    <3> QED
      BY <1>1, <3>1, <3>2
  <2> QED
    BY <1>4, <1>5, <2>2
<1>8. Rooted'
  BY <1>1 DEF ContentInv, Rooted, Parent
<1>9. NewRowsFit'
  <2> SUFFICES ASSUME NEW o \in OpenEdits \union {r}
               PROVE  /\ DOMAIN edit'[o].new \subseteq used' \ Present'
                      /\ \A y \in DOMAIN edit'[o].new :
                           /\ Parent(y) \in Present' \union DOMAIN edit'[o].new \union {Root}
                           /\ Parent(y) \in Present' => edit'[o].doomed = {}
                      /\ \A q \in (OpenEdits \union {r}) \ {o} :
                           DOMAIN edit'[q].new \intersect DOMAIN edit'[o].new = {}
    BY <1>2 DEF NewRowsFit, Parent
  <2>1. \A q \in OpenEdits : /\ q \in Requests \ {r} /\ edit'[q].new = edit[q].new
                             /\ edit'[q].doomed = edit[q].doomed
                             /\ DOMAIN edit[q].new \subseteq used \ Present
    BY <1>2, <1>5 DEF ContentInv, NewRowsFit, OpenEdits
  <2>2. CASE o = r
    BY <1>1, <1>4, <2>1, <2>2 DEF Plan, ContentInv, ContentTypeOK
  <2>3. CASE o \in OpenEdits
    BY <1>1, <1>4, <2>1, <2>3 DEF ContentInv, NewRowsFit
  <2> QED
    BY <2>2, <2>3
<1>10. Settled' = Settled
  <2>1. \A q \in OpenEdits : q \in Requests \ {r} /\ edit'[q].new = edit[q].new
    BY <1>2, <1>5 DEF OpenEdits
  <2> QED
    BY <1>1, <1>2, <1>4, <2>1 DEF Settled
<1> QED
  BY <1>1, <1>6, <1>7, <1>8, <1>9, <1>10 DEF ContentInv

LEMMA BeginKeepsTurn ==
  ASSUME ContentInv, EditsInTurn,
         NEW r \in Requests, NEW h, NEW e, Plan(r, h, e), Begin(r, h, e)
  PROVE  EditsInTurn'
<1>1. /\ order' = order /\ Present' = Present
      /\ OpenEdits' = OpenEdits \union {r} /\ r \notin OpenEdits
      /\ \A o \in OpenEdits : edit'[o] = edit[o]
      /\ Begun(e, h, edit'[r])
  BY BeginStates DEF Begin, Present, OpenEdits
<1> DEFINE d == [e EXCEPT !.kind = h, !.tied = Tied]
<1>2. /\ edit'[r].set = d.set /\ edit'[r].new = d.new /\ edit'[r].doomed = d.doomed
      /\ edit'[r].lists = d.lists /\ edit'[r].kind = d.kind /\ edit'[r].tied = d.tied
      /\ edit'[r].since = d.since
  BY <1>1 DEF Plan, EditStates, Begun
<1>3. LeavesInTurn(d)
  BY DEF Plan
<1> HIDE DEF d
<1>4. LeavesInTurn(edit[r])'
  BY <1>1, <1>2, <1>3 DEF LeavesInTurn, Remains, Placed, Excused, IsChapter, Parent
<1>5. ASSUME NEW o \in OpenEdits PROVE LeavesInTurn(edit[o])'
  <2>1. LeavesInTurn(edit[o])
    BY DEF EditsInTurn
  <2> QED
    BY <1>1, <2>1 DEF LeavesInTurn, Remains, Placed, Excused, IsChapter, Parent
<1> QED
  BY <1>1, <1>4, <1>5 DEF EditsInTurn

-----------------------------------------------------------------------------
(* A request of staff ends                                                 *)

(* What hangs below a lost row is lost with it.                            *)
LEMMA LostCloses ==
  ASSUME ContentInv, NEW r \in Requests
  PROVE  /\ Lost(r) \subseteq Present
         /\ edit[r].doomed \intersect Present \subseteq Lost(r)
         /\ \A x \in Present : Parent(x) \in Lost(r) => x \in Lost(r)
<1> DEFINE S == edit[r].doomed \intersect Present
           children(T) == {y \in Present : Parent(y) \in T}
<1>1. Lost(r) = S \union children(S) \union children(children(S))
  BY DEF Lost, Below
<1>2. Present \subseteq Row
  BY DEF ContentInv, ContentTypeOK
<1>3. ASSUME NEW x \in Present, Parent(x) \in children(children(S)) PROVE FALSE
  <2> DEFINE y == Parent(x)
             z == Parent(y)
  <2>1. y \in Present /\ z \in Present /\ Parent(z) \in Present
    BY <1>3
  <2>2. x \in Row /\ y \in Row /\ z \in Row /\ Parent(z) \in Row
    BY <1>2, <2>1
  <2>3. ~IsChapter(x) /\ ~IsChapter(y) /\ ~IsChapter(z)
    BY <2>2, RootIsNoRow DEF IsChapter
  <2>4. ~IsLesson(y)
    BY <2>3 DEF IsLesson
  <2>5. IsBlock(x) \/ IsLesson(x)
    BY <2>3 DEF IsBlock
  <2> QED
    BY <2>2, <2>3, <2>4, <2>5, Levels
<1> QED
  BY <1>1, <1>3

SameButSince(e, f) ==
  /\ f.kind = e.kind /\ f.set = e.set /\ f.new = e.new /\ f.doomed = e.doomed
  /\ f.lists = e.lists /\ f.tied = e.tied

LEMMA CommitStates ==
  ASSUME ContentInv, NEW r \in Requests, Commit(r)
  PROVE  /\ r \in OpenEdits /\ OpenEdits' = OpenEdits \ {r}
         /\ edit' \in [Requests -> EditStates]
         /\ \A o \in Requests \ {r} : SameButSince(edit[o], edit'[o])
         /\ \A o \in OpenEdits \ {r} :
              edit'[o].since = edit[o].since \union DOMAIN edit[r].new \union DOMAIN edit[r].set
         /\ edit'[r].kind = "over"
         /\ used' = used /\ edit[r] \in EditStates
         /\ Present' = (Present \ Lost(r)) \union DOMAIN edit[r].new
         /\ order' \in RowOrders
         /\ \A x \in Present' : order'[x] = Placed(edit[r], x)
<1> DEFINE e == edit[r]
           kept == (Present \ Lost(r)) \union DOMAIN e.new
<1>1. edit \in [Requests -> EditStates] /\ e \in EditStates /\ Open(r)
  BY DEF ContentInv, ContentTypeOK, Commit
<1> DEFINE Since(o) == [edit[o] EXCEPT !.since = @ \union DOMAIN e.new \union DOMAIN e.set]
<1>2. /\ edit' = [o \in Requests |-> IF o = r THEN Over ELSE IF Open(o) THEN Since(o) ELSE edit[o]]
      /\ used' = used
  BY DEF Commit
<1>2a. e.new \in RowOrders /\ e.set \in RowOrders
  BY <1>1 DEF EditStates
<1>3. ASSUME NEW o \in Requests
      PROVE  /\ Since(o) \in EditStates /\ SameButSince(edit[o], Since(o))
             /\ Since(o).since = edit[o].since \union DOMAIN e.new \union DOMAIN e.set
  <2>1. edit[o] \in EditStates
    BY <1>1
  <2>2. DOMAIN e.new \subseteq Row /\ DOMAIN e.set \subseteq Row
    BY <1>2a, OrderOfRow
  <2> QED
    BY <2>1, <2>2 DEF EditStates, SameButSince
<1>3a. edit'[r] = Over /\ Over.kind = "over"
  BY <1>2 DEF Over, Idle
<1>3b. edit' \in [Requests -> EditStates]
  <2> HIDE DEF Since
  <2> QED
    BY <1>1, <1>2, <1>3, IdleIsState
<1>4. ASSUME NEW o \in Requests \ {r}
      PROVE  /\ SameButSince(edit[o], edit'[o])
             /\ Open(o) => edit'[o].since = edit[o].since \union DOMAIN e.new \union DOMAIN e.set
  <2>1. edit'[o] = IF Open(o) THEN Since(o) ELSE edit[o]
    BY <1>2
  <2> HIDE DEF Since
  <2> QED
    BY <1>3, <2>1 DEF SameButSince
<1>5. r \in OpenEdits /\ OpenEdits' = OpenEdits \ {r}
  BY <1>1, <1>3a, <1>4 DEF OpenEdits, Open, SameButSince
<1>6. order' = [x \in kept |-> IF x \in DOMAIN e.new THEN e.new[x]
                               ELSE IF x \in DOMAIN e.set THEN e.set[x] ELSE order[x]]
  BY DEF Commit
<1>7. Present' = kept
  BY <1>6 DEF Present
<1>8. order \in RowOrders /\ e.new \in RowOrders /\ e.set \in RowOrders
  BY <1>1 DEF EditStates, ContentInv, ContentTypeOK
<1>9. kept \subseteq Row
  BY <1>8, OrderOfRow DEF Present
<1>10. order' \in [kept -> Nat]
  BY <1>6, <1>8, OrderOfRow DEF Present
<1>11. order' \in RowOrders
  BY <1>9, <1>10, RowOrder
<1>12. \A x \in kept : order'[x] = Placed(e, x)
  BY <1>6 DEF Placed
<1> QED
  BY <1>1, <1>2, <1>3a, <1>3b, <1>4, <1>5, <1>7, <1>11, <1>12 DEF OpenEdits

LEMMA CommitKeepsContent ==
  ASSUME ContentInv, NEW r \in Requests, Commit(r)
  PROVE  /\ ContentInv'
         /\ Settled' = Settled \union DOMAIN edit[r].new
         /\ DOMAIN edit[r].new \intersect Settled = {}
         /\ DOMAIN edit[r].new \intersect Present = {}
<1> DEFINE N == DOMAIN edit[r].new
<1>1. /\ r \in OpenEdits /\ OpenEdits' = OpenEdits \ {r}
      /\ edit' \in [Requests -> EditStates]
      /\ \A o \in Requests \ {r} : /\ edit'[o].new = edit[o].new /\ edit'[o].kind = edit[o].kind
                                   /\ edit'[o].doomed = edit[o].doomed
      /\ edit'[r].kind = "over"
      /\ used' = used /\ edit[r] \in EditStates
      /\ Present' = (Present \ Lost(r)) \union N
      /\ order' \in RowOrders
  BY CommitStates DEF SameButSince
<1>2. /\ N \subseteq used \ Present
      /\ \A y \in N : Parent(y) \in Present \union N \union {Root}
  BY <1>1 DEF ContentInv, NewRowsFit
<1>4. ContentTypeOK'
  BY <1>1, <1>2 DEF ContentInv, ContentTypeOK
<1>5. OwnNames'
  <2> SUFFICES ASSUME NEW x \in used PROVE x[2] = Original \/ edit'[x[2]].kind # "idle"
    BY <1>1 DEF OwnNames
  <2>1. x \in Row /\ (x[2] = Original \/ edit[x[2]].kind # "idle")
    BY DEF ContentInv, ContentTypeOK, OwnNames
  <2> QED
    BY <1>1, <2>1, RowPairs
<1>6. MayCommit(r) /\ \A x \in Present : Parent(x) \in Lost(r) => x \in Lost(r)
  BY LostCloses DEF Commit
<1>7. Rooted'
  <2> SUFFICES ASSUME NEW x \in Present' PROVE Parent(x) \in Present' \union {Root}
    BY DEF Rooted, Parent
  <2>1. CASE x \in N
    <3>1. Parent(x) \notin Lost(r)
      <4>1. Parent(x) \in Present => edit[r].doomed = {}
        BY <1>1, <2>1 DEF ContentInv, NewRowsFit
      <4>2. edit[r].doomed = {} => Lost(r) = {}
        BY DEF Lost, Below
      <4> QED
        BY <4>1, <4>2, LostCloses
    <3> QED
      BY <1>1, <1>2, <2>1, <3>1
  <2>2. CASE x \in Present \ Lost(r)
    BY <1>1, <1>6, <2>2 DEF ContentInv, Rooted
  <2> QED
    BY <1>1, <2>1, <2>2
<1>8. \A o \in OpenEdits \ {r} : /\ DOMAIN edit[o].new \subseteq used \ Present
                                 /\ DOMAIN edit[o].new \intersect N = {}
  BY <1>1 DEF ContentInv, NewRowsFit
<1>8a. ASSUME NEW o \in OpenEdits \ {r}, NEW y \in DOMAIN edit[o].new
       PROVE  /\ Parent(y) \in (Present \ Lost(r)) \union DOMAIN edit[o].new \union {Root}
              /\ Parent(y) \in Present => edit[o].doomed = {}
              /\ Parent(y) \notin N
  <2>1. /\ Parent(y) \in Present \union DOMAIN edit[o].new \union {Root}
        /\ Parent(y) \in Present => edit[o].doomed = {}
    BY DEF ContentInv, NewRowsFit
  <2>2. Parent(y) \notin Lost(r)
    BY <1>6 DEF MayCommit
  <2>3. Root \notin N
    BY <1>2, RootIsNoRow DEF ContentInv, ContentTypeOK
  <2> QED
    BY <1>2, <1>8, <2>1, <2>2, <2>3
<1>9. NewRowsFit'
  <2> SUFFICES ASSUME NEW o \in OpenEdits \ {r}
               PROVE  /\ DOMAIN edit'[o].new \subseteq used' \ Present'
                      /\ \A y \in DOMAIN edit'[o].new :
                           /\ Parent(y) \in Present' \union DOMAIN edit'[o].new \union {Root}
                           /\ Parent(y) \in Present' => edit'[o].doomed = {}
                      /\ \A q \in (OpenEdits \ {r}) \ {o} :
                           DOMAIN edit'[q].new \intersect DOMAIN edit'[o].new = {}
    BY <1>1 DEF NewRowsFit, Parent
  <2>1. \A q \in OpenEdits \ {r} : /\ q \in Requests \ {r} /\ edit'[q].new = edit[q].new
                                   /\ edit'[q].doomed = edit[q].doomed
    BY <1>1 DEF OpenEdits
  <2> QED
    BY <1>1, <1>8, <1>8a, <2>1 DEF ContentInv, NewRowsFit
<1>10. Settled' = Settled \union N
  <2>1. \A q \in OpenEdits \ {r} : /\ q \in Requests \ {r} /\ edit'[q].new = edit[q].new
                                   /\ edit'[q].doomed = edit[q].doomed
    BY <1>1 DEF OpenEdits
  <2> QED
    BY <1>1, <1>2, <1>8, <2>1 DEF Settled
<1>11. N \intersect Settled = {}
  BY <1>1 DEF Settled
<1> QED
  BY <1>2, <1>4, <1>5, <1>7, <1>9, <1>10, <1>11 DEF ContentInv

(* What others leave is what they would have, without the rows of this one.*)
LEMMA CommitKeepsTurn ==
  ASSUME ContentInv, EditsInTurn, NEW r \in Requests, Commit(r)
  PROVE  EditsInTurn'
<1> DEFINE N == DOMAIN edit[r].new
           S == DOMAIN edit[r].set
<1>1. /\ OpenEdits' = OpenEdits \ {r} /\ OpenEdits \subseteq Requests
      /\ \A o \in OpenEdits \ {r} : /\ SameButSince(edit[o], edit'[o])
                                   /\ edit'[o].since = edit[o].since \union N \union S
      /\ Present' \subseteq Present \union N
      /\ \A x \in Present' : order'[x] = Placed(edit[r], x)
  BY CommitStates DEF OpenEdits
<1>2. SUFFICES ASSUME NEW o \in OpenEdits \ {r} PROVE LeavesInTurn(edit[o])'
  BY <1>1 DEF EditsInTurn
<1> DEFINE e == edit[o]
           f == edit'[o]
<1>3. /\ f.kind = e.kind /\ f.set = e.set /\ f.new = e.new /\ f.doomed = e.doomed
      /\ f.lists = e.lists /\ f.tied = e.tied /\ f.since = e.since \union N \union S
  BY <1>1 DEF SameButSince
<1>4. LeavesInTurn(e)
  BY DEF EditsInTurn
<1>5. ASSUME NEW x \in Remains(edit[o])'
      PROVE  x \in Remains(e) /\ Placed(edit[o], x)' = Placed(e, x)
  <2>1. /\ x \notin N /\ x \notin S /\ x \notin e.since
        /\ x \in (Present' \ e.doomed) \union DOMAIN e.new
    BY <1>3 DEF Remains
  <2>2. x \in Remains(e)
    BY <1>1, <2>1 DEF Remains
  <2>3. x \in Present' => order'[x] = order[x]
    BY <1>1, <2>1 DEF Placed
  <2> QED
    BY <1>3, <2>1, <2>2, <2>3 DEF Placed
<1>6. \A x, y : Excused(edit[o], x, y)' <=> Excused(e, x, y)
  BY <1>3 DEF Excused, Parent
<1> QED
  BY <1>3, <1>4, <1>5, <1>6 DEF LeavesInTurn, IsChapter, Parent

(* What a request leaves is what it had prepared.                          *)
LEMMA CommitInTurn ==
  ASSUME ContentInv, EditsInTurn, NEW r \in Requests, Commit(r),
         NEW x \in Present' \ edit[r].since
  PROVE  x \in Remains(edit[r]) /\ order'[x] = Placed(edit[r], x)
<1>1. /\ Present' = (Present \ Lost(r)) \union DOMAIN edit[r].new
      /\ order'[x] = Placed(edit[r], x)
  BY CommitStates
<1> QED
  BY <1>1, LostCloses DEF Remains

LEMMA FailKeepsContent ==
  ASSUME ContentInv, NEW r \in Requests, Fail(r)
  PROVE  /\ ContentInv' /\ order' = order /\ Settled \subseteq Settled' /\ Settled' \subseteq used
         /\ EditsInTurn => EditsInTurn'
<1>1. /\ edit \in [Requests -> EditStates] /\ edit' = [edit EXCEPT ![r] = Over]
      /\ order' = order /\ used' = used /\ Present' = Present
  BY DEF Fail, ContentInv, ContentTypeOK, Present
<1>2. edit'[r] = Over /\ edit' \in [Requests -> EditStates] /\ Over.kind = "over"
  BY <1>1, IdleIsState DEF Over, Idle
<1>3. \A o \in Requests \ {r} : edit'[o] = edit[o]
  BY <1>1
<1>4. OpenEdits' = OpenEdits \ {r} /\ \A o \in OpenEdits \ {r} : edit'[o] = edit[o]
  BY <1>2, <1>3 DEF OpenEdits, Open
<1>5. ContentTypeOK'
  BY <1>1, <1>2 DEF ContentInv, ContentTypeOK
<1>6. OwnNames'
  BY <1>1, <1>2, <1>3, RowPairs DEF ContentInv, ContentTypeOK, OwnNames
<1>7. Rooted' /\ NewRowsFit'
  BY <1>1, <1>4 DEF ContentInv, Rooted, NewRowsFit, Parent
<1>8. Settled \subseteq Settled' /\ Settled' \subseteq used
  BY <1>1, <1>4 DEF Settled
<1>9. ASSUME EditsInTurn PROVE EditsInTurn'
  <2>1. ASSUME NEW o \in OpenEdits \ {r} PROVE LeavesInTurn(edit[o])'
    <3>1. LeavesInTurn(edit[o]) /\ edit'[o] = edit[o]
      BY <1>4, <1>9 DEF EditsInTurn
    <3> QED
      BY <1>1, <3>1 DEF LeavesInTurn, Remains, Placed, Excused, IsChapter, Parent
  <2> QED
    BY <1>4, <2>1 DEF EditsInTurn
<1> QED
  BY <1>1, <1>5, <1>6, <1>7, <1>8, <1>9 DEF ContentInv

-----------------------------------------------------------------------------
(* The content in every state                                              *)

LEMMA ContentSteps ==
  ASSUME [Next]_vars
  PROVE  \/ \E r \in Requests : Request(r) \/ Commit(r) \/ Fail(r)
         \/ UNCHANGED contentVars
<1>1. ASSUME NEW v \in Visits, Visit(v) PROVE UNCHANGED contentVars
  <2>1. ASSUME NEW h, NEW l, NEW e, Arrive(v, h, l, e) PROVE UNCHANGED contentVars
    BY <2>1 DEF Arrive
  <2>2. CASE EnrollCourse(v) \/ ResumeLesson(v) \/ LessonPlayerPage(v)
    BY <2>1, <2>2 DEF EnrollCourse, ResumeLesson, LessonPlayerPage
  <2>3. CASE ReportLessonProgress(v) \/ CompleteLesson(v) \/ SubmitQuiz(v)
    BY <2>1, <2>3 DEF ReportLessonProgress, CompleteLesson, SubmitQuiz
  <2>4. CASE SubmitAssignment(v) \/ GradeSubmission(v)
    BY <2>1, <2>4 DEF SubmitAssignment, GradeSubmission
  <2>5. CASE Write(v)
    BY <2>5 DEF Write
  <2>6. CASE CommitVisit(v) \/ FailVisit(v) \/ LoseVisit(v)
    BY <2>6 DEF CommitVisit, FailVisit, LoseVisit, Ends
  <2> QED
    BY <1>1, <2>2, <2>3, <2>4, <2>5, <2>6 DEF Visit
<1>2. UNCHANGED vars => UNCHANGED contentVars
  BY DEF vars
<1>3. UploadAssignmentSubmission => UNCHANGED contentVars
  BY DEF UploadAssignmentSubmission
<1>4. \A r \in Requests : Edit(r) \/ CommitEdit(r) => Request(r) \/ Commit(r) \/ Fail(r)
  BY DEF Edit, CommitEdit
<1> QED
  BY <1>1, <1>2, <1>3, <1>4 DEF Next

ListsInv == ContentInv /\ EditsInTurn

LEMMA ContentStarts == ContentInit => ListsInv
<1> SUFFICES ASSUME ContentInit PROVE ListsInv
  OBVIOUS
<1> DEFINE N == {<<n, Original>> : n \in DOMAIN Initial}
<1>1. /\ DOMAIN Initial \subseteq Names /\ \A n \in DOMAIN Initial : Initial[n] \in Nat
      /\ \A n \in DOMAIN Initial : ParentOf[n] \in DOMAIN Initial \union {Root}
  BY ContentAssumption
<1>2. N \subseteq Row /\ \A x \in N : x[1] \in DOMAIN Initial /\ x[2] = Original
  BY <1>1 DEF Row
<1>3. order = [x \in N |-> Initial[x[1]]] /\ Present = N /\ used = N
  BY DEF ContentInit, Present
<1>4. order \in RowOrders
  <2>1. order \in [N -> Nat]
    BY <1>1, <1>2, <1>3
  <2> QED
    BY <1>2, <2>1, RowOrder
<1>5. edit \in [Requests -> EditStates] /\ \A r \in Requests : edit[r].kind = "idle"
  <2>1. Idle.kind = "idle"
    BY DEF Idle
  <2> QED
    BY <2>1, IdleIsState DEF ContentInit
<1>6. OpenEdits = {}
  BY <1>5 DEF OpenEdits, Open
<1>8. Rooted
  <2> SUFFICES ASSUME NEW x \in N, Parent(x) # Root PROVE Parent(x) \in N
    BY <1>3 DEF Rooted
  <2>1. Parent(x) = <<ParentOf[x[1]], Original>> /\ ParentOf[x[1]] # Root
    BY <1>2 DEF Parent
  <2> QED
    BY <1>1, <1>2, <2>1
<1>9. ContentInv
  BY <1>2, <1>3, <1>4, <1>5, <1>6, <1>8
     DEF ContentInv, ContentTypeOK, OwnNames, NewRowsFit
<1> QED
  BY <1>6, <1>9 DEF ListsInv, EditsInTurn

LEMMA ContentKeeps == ListsInv /\ [Next]_vars => ListsInv'
<1> SUFFICES ASSUME ListsInv, [Next]_vars PROVE ListsInv'
  OBVIOUS
<1>1. ContentInv /\ EditsInTurn
  BY DEF ListsInv
<1>2. CASE UNCHANGED contentVars
  BY <1>1, <1>2
     DEF contentVars, ListsInv, ContentInv, ContentTypeOK, OwnNames, Rooted, NewRowsFit,
         EditsInTurn, LeavesInTurn, Remains, Placed, Excused, OpenEdits, Open, Present,
         IsChapter, Parent
<1>3. ASSUME NEW r \in Requests, Request(r) PROVE ListsInv'
  BY <1>1, <1>3, RequestHasPlan, BeginKeepsContent, BeginKeepsTurn DEF ListsInv
<1>4. ASSUME NEW r \in Requests, Commit(r) PROVE ListsInv'
  BY <1>1, <1>4, CommitKeepsContent, CommitKeepsTurn DEF ListsInv
<1>5. ASSUME NEW r \in Requests, Fail(r) PROVE ListsInv'
  BY <1>1, <1>5, FailKeepsContent DEF ListsInv
<1> QED
  BY <1>2, <1>3, <1>4, <1>5, ContentSteps

(* Whatever staff do at once, from whatever content: the rows keep the     *)
(* shape of a tree of three levels, and no two rows share an id.           *)
THEOREM ContentTypes == Spec => []ContentInv
<1>1. Init => ListsInv
  BY ContentStarts DEF Init
<1>2. ListsInv => ContentInv
  BY DEF ListsInv
<1> QED
  BY <1>1, <1>2, ContentKeeps, PTL DEF Spec

(* Any number of requests at once: next to the rows that nobody else       *)
(* placed since it began, a request leaves a list as it would alone        *)
(* (chapters.go, lessons.go, blocks.go: NextSortOrder, the reorders and    *)
(* their renumbering, the editor's move; course_version.go: the restore).  *)
THEOREM ListsInEveryTurn == Spec => ListsInTurn
<1>1. Init => ListsInv
  BY ContentStarts DEF Init
<1>2. ListsInv /\ [Next]_vars =>
        [\A r \in Requests : Commit(r) =>
           LET e == edit[r]
               mine == Present' \ e.since
               inOrder(p) == e.kind \in Reorders /\ p \in e.lists
           IN  /\ \A x, y \in mine :
                     x # y /\ Parent(x) = Parent(y) /\ order'[x] = order'[y] =>
                        \/ Parent(x) \in e.tied /\ ~inOrder(Parent(x))
                        \/ e.kind \in Updates /\ {x, y} \intersect DOMAIN e.set # {}
                        \/ {x, y} \subseteq DOMAIN e.new
               /\ e.kind \in Restores =>
                     {x \in mine : IsChapter(x)} \subseteq DOMAIN e.new]_vars
  <2> SUFFICES ASSUME ListsInv, NEW r \in Requests, Commit(r)
               PROVE  /\ \A x, y \in Present' \ edit[r].since :
                           x # y /\ Parent(x) = Parent(y) /\ order'[x] = order'[y] =>
                             Excused(edit[r], x, y)
                      /\ edit[r].kind \in Restores =>
                           {x \in Present' \ edit[r].since : IsChapter(x)} \subseteq DOMAIN edit[r].new
    BY DEF Excused
  <2>1. ContentInv /\ LeavesInTurn(edit[r])
    BY CommitStates DEF ListsInv, EditsInTurn
  <2>2. \A x \in Present' \ edit[r].since : x \in Remains(edit[r]) /\ order'[x] = Placed(edit[r], x)
    BY CommitInTurn DEF ListsInv
  <2> QED
    BY <2>1, <2>2 DEF LeavesInTurn
<1> QED
  BY <1>1, <1>2, ContentKeeps, PTL DEF Spec, ListsInTurn

-----------------------------------------------------------------------------
(* Rows of learners                                                        *)

LEMMA SomeRows ==
  ASSUME NEW l \in Learners
  PROVE  /\ Access(l) \in LearnerRows /\ Certificate(l) \in LearnerRows
         /\ \A x \in Row : IsLesson(x) => Progress(l, x) \in LearnerRows
         /\ \A x \in Row, n \in Nat, w \in BOOLEAN :
              IsBlock(x) => /\ Attempt(l, x, n, w) \in LearnerRows
                            /\ Submission(l, x, n) \in LearnerRows
BY DEF Access, Certificate, Progress, Attempt, Submission, LearnerRow, LearnerRows, Tables

LEMMA RowFields ==
  ASSUME NEW x \in LearnerRows
  PROVE  /\ x = [table |-> x.table, who |-> x.who, at |-> x.at, number |-> x.number, won |-> x.won]
         /\ x.table \in Tables /\ x.who \in Learners /\ x.at \in Row \union {Root}
         /\ x.number \in Nat /\ x.won \in BOOLEAN
         /\ x.table \in {"access", "certificate"} => x.at = Root /\ x.number = 0
         /\ x.table = "progress" => x.at \in Row /\ IsLesson(x.at) /\ x.number = 0
         /\ x.table \in {"attempt", "submission", "grade"} => x.at \in Row /\ IsBlock(x.at)
         /\ x.table # "attempt" => ~x.won
BY DEF LearnerRows

LEMMA KeyFields ==
  ASSUME NEW x \in LearnerRows, NEW y \in LearnerRows
  PROVE  Key(x) = Key(y) <=> /\ x.table = y.table /\ x.who = y.who
                             /\ x.at = y.at /\ x.number = y.number
<1>1. /\ Key(x).table = x.table /\ Key(x).who = x.who /\ Key(x).at = x.at
      /\ Key(x).number = x.number
  BY DEF LearnerRows, Key
<1>2. /\ Key(y).table = y.table /\ Key(y).who = y.who /\ Key(y).at = y.at
      /\ Key(y).number = y.number
  BY DEF LearnerRows, Key
<1>3. ASSUME x.table = y.table, x.who = y.who, x.at = y.at, x.number = y.number
      PROVE  Key(x) = Key(y)
  BY <1>3 DEF LearnerRows, Key
<1> HIDE DEF Key
<1> QED
  BY <1>1, <1>2, <1>3

(* Only the outcome of an attempt is outside its key.                      *)
LEMMA KeyDecides ==
  ASSUME NEW x \in LearnerRows, NEW y \in LearnerRows, Key(x) = Key(y), x.table # "attempt"
  PROVE  x = y
<1>1. x.table = y.table /\ x.who = y.who /\ x.at = y.at /\ x.number = y.number
  BY KeyFields
<1>2. x.won = y.won
  BY <1>1, RowFields
<1> QED
  BY <1>1, <1>2, RowFields

LEMMA GradeFields ==
  ASSUME NEW s \in LearnerRows, s.table = "submission"
  PROVE  /\ Grade(s) \in LearnerRows /\ Graded(Grade(s)) = s
         /\ Grade(s).table = "grade" /\ Grade(s).who = s.who /\ Grade(s).at = s.at
         /\ Grade(s).number = s.number /\ ~Grade(s).won
<1>1. Grade(s) = [table |-> "grade", who |-> s.who, at |-> s.at, number |-> s.number, won |-> s.won]
  BY RowFields DEF Grade
<1>2. Graded(Grade(s)) = [table |-> "submission", who |-> s.who, at |-> s.at,
                          number |-> s.number, won |-> s.won]
  BY <1>1 DEF Graded
<1>3. Graded(Grade(s)) = s
  BY <1>2, RowFields
<1>4. s.who \in Learners /\ s.at \in Row /\ IsBlock(s.at) /\ s.number \in Nat /\ ~s.won
  BY RowFields
<1>5. Grade(s) \in LearnerRows
  BY <1>1, <1>4 DEF LearnerRows, Tables
<1> QED
  BY <1>1, <1>3, <1>4, <1>5

LEMMA CalmIsState == /\ Calm \in VisitStates /\ Calm.phase = "none" /\ Calm.rows = {}
                     /\ Calm.at = {} /\ Calm.report = {} /\ ~Calm.judges /\ ~Calm.overtaken
BY DEF Calm, VisitStates

LEMMA CountIsNat ==
  ASSUME IsFiniteSet(rows), NEW table, NEW l, NEW b
  PROVE  /\ IsFiniteSet(Of(table, l, b)) /\ Count(table, l, b) = Cardinality(Of(table, l, b))
         /\ Count(table, l, b) \in Nat
<1>1. IsFiniteSet(Of(table, l, b))
  BY FS_Subset DEF Of
<1>2. Count(table, l, b) = Cardinality(Of(table, l, b))
  BY DEF Count, Of
<1> QED
  BY <1>1, <1>2, FS_CardinalityType

-----------------------------------------------------------------------------
(* What requests of learners begin with                                    *)

LEMMA HomesOf ==
  ASSUME NEW e, NEW H, \A x \in e.rows : x.at \in H, e.at \subseteq H,
         \A w \in e.report : w[1] \in H
  PROVE  Homes(e) \subseteq H
BY DEF Homes

(* One row, or none, and nothing else written.                             *)
LEMMA OneRowIntent ==
  ASSUME ContentInv, NEW l \in Learners, NEW e \in VisitStates, ~e.overtaken,
         NEW R \in SUBSET LearnerRows, e.rows = R, \A x, y \in R : x = y,
         e.at \subseteq Lessons, \A w \in e.report : w[1] \in Present,
         \A x \in R : /\ x.who = l /\ x.table \notin Numbered \union {"certificate", "grade"}
                      /\ x.at \in Present \union {Root} /\ (~e.judges => ~Finishes(x))
  PROVE  Intends(l, e)
<1>1. Homes(e) \subseteq Present \union {Root}
  BY HomesOf DEF Lessons
<1> QED
  BY <1>1 DEF Intends, Lessons, Numbered

LEMMA PlainVisits ==
  ASSUME JourneyInv, NEW v \in Visits,
         \/ EnrollCourse(v) \/ ResumeLesson(v) \/ LessonPlayerPage(v)
         \/ ReportLessonProgress(v) \/ CompleteLesson(v)
  PROVE  \E h \in LearnerHandlers : \E l, e : Intends(l, e) /\ Arrive(v, h, l, e)
<1>1. ContentInv /\ Present \subseteq Row
  BY DEF JourneyInv, ContentInv, ContentTypeOK
<1>2. Calm \in VisitStates /\ ~Calm.overtaken /\ Calm.rows = {} /\ Calm.at = {} /\ Calm.report = {}
  BY CalmIsState
<1>3. /\ Entitled \subseteq Learners /\ Eligible \subseteq Learners
      /\ \A x \in Lessons : x \in Present /\ x \in Row /\ IsLesson(x)
  BY <1>1, JourneyAssumption DEF Entitled, Lessons
<1>4. CASE EnrollCourse(v)
  <2>1. PICK l \in Eligible \ Entitled :
          Arrive(v, "EnrollCourse", l, [Calm EXCEPT !.rows = {Access(l)}])
    BY <1>4 DEF EnrollCourse
  <2> DEFINE e == [Calm EXCEPT !.rows = {Access(l)}]
             R == {Access(l)}
  <2>2. l \in Learners /\ R \in SUBSET LearnerRows
    BY <1>3, SomeRows
  <2>3. /\ Access(l).who = l /\ Access(l).table = "access"
        /\ Access(l).at = Root /\ ~Access(l).won
    BY DEF Access, LearnerRow
  <2>4. e \in VisitStates /\ ~e.overtaken /\ e.rows = R /\ e.at = {} /\ e.report = {}
    BY <1>2, <2>2 DEF VisitStates
  <2> HIDE DEF e
  <2>5. Intends(l, e)
    BY <1>1, <2>2, <2>3, <2>4, OneRowIntent DEF Numbered, Finishes
  <2> QED
    BY <2>1, <2>5 DEF LearnerHandlers, e
<1>5. CASE ResumeLesson(v) \/ LessonPlayerPage(v)
  <2>1. PICK h \in {"ResumeLesson", "LessonPlayerPage"}, l \in Entitled, x \in Lessons :
          Arrive(v, h, l, [Calm EXCEPT !.at = {x}])
    BY <1>5 DEF ResumeLesson, LessonPlayerPage
  <2> DEFINE e == [Calm EXCEPT !.at = {x}]
  <2>2. l \in Learners /\ x \in Row
    BY <1>3
  <2>3. e \in VisitStates /\ ~e.overtaken /\ e.rows = {} /\ e.at = {x} /\ e.report = {}
    BY <1>2, <2>2 DEF VisitStates
  <2> HIDE DEF e
  <2>4. Intends(l, e)
    BY <1>1, <2>1, <2>2, <2>3, OneRowIntent
  <2> QED
    BY <2>1, <2>4 DEF LearnerHandlers, e
<1>6. ASSUME NEW l \in Learners, NEW x \in Lessons
      PROVE  /\ Progress(l, x) \in LearnerRows /\ Progress(l, x).who = l
             /\ Progress(l, x).table = "progress" /\ Progress(l, x).at = x
  BY <1>3, SomeRows DEF Progress, LearnerRow
<1>7. CASE ReportLessonProgress(v)
  <2>1. PICK l \in Entitled, x \in Lessons, enough \in BOOLEAN :
          Arrive(v, "ReportLessonProgress", l,
                 [Calm EXCEPT !.report = {<<x, enough>>}, !.judges = enough,
                              !.rows = IF enough THEN {Progress(l, x)} ELSE {}])
    BY <1>7 DEF ReportLessonProgress
  <2> DEFINE R == IF enough THEN {Progress(l, x)} ELSE {}
             W == {<<x, enough>>}
             e == [Calm EXCEPT !.report = W, !.judges = enough, !.rows = R]
  <2>2. /\ l \in Learners /\ R \in SUBSET LearnerRows /\ W \in SUBSET (Row \X BOOLEAN)
        /\ \A w \in W : w[1] \in Present
    BY <1>3, <1>6
  <2>3. /\ e \in VisitStates /\ ~e.overtaken /\ e.rows = R /\ e.at = {} /\ e.report = W
        /\ e.judges = enough
    <3> HIDE DEF R, W
    <3> QED
      BY <1>2, <2>2 DEF VisitStates
  <2>4. \A y \in R : /\ y.who = l /\ y.table = "progress" /\ y.at = x /\ enough
    BY <1>3, <1>6
  <2>5. \A y, z \in R : y = z
    OBVIOUS
  <2> HIDE DEF e, R, W
  <2>6. Intends(l, e)
    BY <1>1, <1>3, <2>2, <2>3, <2>4, <2>5, OneRowIntent DEF Numbered
  <2> QED
    BY <2>1, <2>6 DEF LearnerHandlers, e, R, W
<1>8. CASE CompleteLesson(v)
  <2>1. PICK l \in Entitled, x \in Lessons :
          Arrive(v, "CompleteLesson", l, [Calm EXCEPT !.rows = {Progress(l, x)}, !.judges = TRUE])
    BY <1>8 DEF CompleteLesson
  <2> DEFINE R == {Progress(l, x)}
             e == [Calm EXCEPT !.rows = R, !.judges = TRUE]
  <2>2. l \in Learners /\ R \in SUBSET LearnerRows
    BY <1>3, <1>6
  <2>3. /\ e \in VisitStates /\ ~e.overtaken /\ e.rows = R /\ e.at = {} /\ e.report = {}
        /\ e.judges
    <3> HIDE DEF R
    <3> QED
      BY <1>2, <2>2 DEF VisitStates
  <2>4. \A y \in R : /\ y.who = l /\ y.table = "progress" /\ y.at = x
    BY <1>3, <1>6
  <2> HIDE DEF e
  <2>5. Intends(l, e)
    BY <1>1, <1>3, <2>2, <2>3, <2>4, OneRowIntent DEF Numbered
  <2> QED
    BY <2>1, <2>5 DEF LearnerHandlers, e
<1> QED
  BY <1>4, <1>5, <1>7, <1>8

LEMMA SubmitQuizIntends ==
  ASSUME JourneyInv, NEW v \in Visits, SubmitQuiz(v)
  PROVE  \E h \in LearnerHandlers : \E l, e : Intends(l, e) /\ Arrive(v, h, l, e)
<1>1. PICK l \in Entitled, b \in Blocks("quiz") \intersect ready, passed \in BOOLEAN :
        Arrive(v, "SubmitQuiz", l,
               [Calm EXCEPT
                  !.rows = {Attempt(l, b, Count("attempt", l, b) + 1, passed)}
                             \union IF passed THEN {Progress(l, Parent(b))} ELSE {},
                  !.judges = passed])
  BY DEF SubmitQuiz
<1> DEFINE n == Count("attempt", l, b) + 1
           a == Attempt(l, b, n, passed)
           p == Progress(l, Parent(b))
           R == {a} \union IF passed THEN {p} ELSE {}
           e == [Calm EXCEPT !.rows = R, !.judges = passed]
<1>2. l \in Learners /\ b \in Present /\ b \in Row /\ IsBlock(b)
  BY DEF Entitled, Blocks, JourneyInv, ContentInv, ContentTypeOK
<1>3. Parent(b) \in Row /\ IsLesson(Parent(b)) /\ Parent(b) \in Present \union {Root}
  BY <1>2, Levels DEF JourneyInv, ContentInv, Rooted
<1>4. n \in Nat
  BY CountIsNat DEF JourneyInv, RowsFit
<1>5. /\ a \in LearnerRows /\ a.table = "attempt" /\ a.who = l /\ a.at = b /\ a.number = n
      /\ a.won = passed
  BY <1>2, <1>4, SomeRows DEF Attempt, LearnerRow
<1>6. p \in LearnerRows /\ p.table = "progress" /\ p.who = l /\ p.at = Parent(b)
  BY <1>2, <1>3, SomeRows DEF Progress, LearnerRow
<1>7. R \in SUBSET LearnerRows
  BY <1>5, <1>6
<1>8. /\ e \in VisitStates /\ ~e.overtaken /\ e.rows = R /\ e.at = {} /\ e.report = {}
      /\ e.judges = passed
  <2> HIDE DEF R
  <2> QED
    BY <1>7, CalmIsState DEF VisitStates
<1>9. /\ \A x \in R : x = a \/ (passed /\ x = p)
      /\ \A x, y \in R : x.table = y.table => x = y
  <2> HIDE DEF a, p
  <2> QED
    BY <1>5, <1>6
<1> HIDE DEF e, R, a, p
<1>10. Homes(e) \subseteq Present \union {Root}
  <2>1. \A x \in e.rows : x.at \in Present \union {Root}
    BY <1>2, <1>3, <1>5, <1>6, <1>8, <1>9
  <2> QED
    BY <1>8, <2>1, HomesOf
<1>11. \A x \in R :
         /\ x.who = l /\ x.table # "certificate" /\ (~e.judges => ~Finishes(x))
         /\ x.table \in Numbered => x.number = Count(x.table, l, x.at) + 1
         /\ x.table \notin {"submission", "grade"}
  BY <1>5, <1>6, <1>8, <1>9 DEF Numbered, Finishes
<1>12. Intends(l, e)
  BY <1>2, <1>8, <1>9, <1>10, <1>11 DEF Intends
<1> QED
  BY <1>1, <1>12 DEF LearnerHandlers, e, R, a, p

LEMMA SubmitAssignmentIntends ==
  ASSUME JourneyInv, NEW v \in Visits, SubmitAssignment(v)
  PROVE  \E h \in LearnerHandlers : \E l, e : Intends(l, e) /\ Arrive(v, h, l, e)
<1>1. PICK l \in Entitled, b \in Blocks("assignment") :
        LET n == Count("submission", l, b)
        IN  /\ n = 0 \/ b[1] \in Resubmit
            /\ Arrive(v, "SubmitAssignment", l,
                      [Calm EXCEPT !.rows = {Submission(l, b, n + 1), Progress(l, Parent(b))},
                                   !.judges = TRUE])
  BY DEF SubmitAssignment
<1> DEFINE n == Count("submission", l, b)
           a == Submission(l, b, n + 1)
           p == Progress(l, Parent(b))
           R == {a, p}
           e == [Calm EXCEPT !.rows = R, !.judges = TRUE]
<1>2. l \in Learners /\ b \in Present /\ b \in Row /\ IsBlock(b)
  BY DEF Entitled, Blocks, JourneyInv, ContentInv, ContentTypeOK
<1>3. Parent(b) \in Row /\ IsLesson(Parent(b)) /\ Parent(b) \in Present \union {Root}
  BY <1>2, Levels DEF JourneyInv, ContentInv, Rooted
<1>4. n \in Nat /\ (n = 0 \/ b[1] \in Resubmit)
  BY <1>1, CountIsNat DEF JourneyInv, RowsFit
<1>5. /\ a \in LearnerRows /\ a.table = "submission" /\ a.who = l /\ a.at = b
      /\ a.number = n + 1
  <2> HIDE DEF n
  <2>1. n + 1 \in Nat
    BY <1>4
  <2> HIDE DEF a
  <2>2. a \in LearnerRows
    BY <1>2, <2>1, SomeRows DEF a
  <2> QED
    BY <2>2 DEF a, Submission, LearnerRow
<1>6. p \in LearnerRows /\ p.table = "progress" /\ p.who = l /\ p.at = Parent(b)
  BY <1>2, <1>3, SomeRows DEF Progress, LearnerRow
<1>7. R \in SUBSET LearnerRows
  BY <1>5, <1>6
<1>8. e \in VisitStates /\ ~e.overtaken /\ e.rows = R /\ e.at = {} /\ e.report = {} /\ e.judges
  <2> HIDE DEF R
  <2> QED
    BY <1>7, CalmIsState DEF VisitStates
<1>9. \A x, y \in R : x.table = y.table => x = y
  <2> HIDE DEF a, p
  <2> QED
    BY <1>5, <1>6
<1> HIDE DEF e, a, p
<1>10. Homes(e) \subseteq Present \union {Root}
  <2>1. \A x \in e.rows : x.at \in Present \union {Root}
    BY <1>2, <1>3, <1>5, <1>6, <1>8
  <2> QED
    BY <1>8, <2>1, HomesOf
<1>11. \A x \in R :
         /\ x.who = l /\ x.table # "certificate" /\ x.table # "grade"
         /\ x.table \in Numbered => x.number = Count(x.table, l, x.at) + 1
         /\ x.table = "submission" /\ x.at[1] \notin Resubmit => x.number = 1
  BY <1>4, <1>5, <1>6 DEF Numbered
<1> HIDE DEF R
<1>12. Intends(l, e)
  BY <1>2, <1>8, <1>9, <1>10, <1>11 DEF Intends
<1> QED
  BY <1>1, <1>12 DEF LearnerHandlers, e, R, a, p

LEMMA GradeIntends ==
  ASSUME JourneyInv, NEW v \in Visits, GradeSubmission(v)
  PROVE  \E h \in LearnerHandlers : \E l, e : Intends(l, e) /\ Arrive(v, h, l, e)
<1>1. PICK s \in rows : /\ s.table = "submission"
                        /\ Arrive(v, "GradeSubmission", s.who, [Calm EXCEPT !.rows = {Grade(s)}])
  BY DEF GradeSubmission
<1> DEFINE e == [Calm EXCEPT !.rows = {Grade(s)}]
<1>2. /\ s \in LearnerRows /\ s.who \in Learners /\ s.at \in Present \union {Root}
  BY RowFields DEF JourneyInv, JourneyTypeOK, RowsFit
<1>3. /\ Grade(s) \in LearnerRows /\ Graded(Grade(s)) = s
      /\ Grade(s).table = "grade" /\ Grade(s).who = s.who /\ Grade(s).at = s.at /\ ~Grade(s).won
  BY <1>1, <1>2, GradeFields
<1>4. e \in VisitStates /\ ~e.overtaken /\ e.rows = {Grade(s)} /\ e.at = {} /\ e.report = {}
  BY <1>3, CalmIsState DEF VisitStates
<1> HIDE DEF e
<1>5. Homes(e) \subseteq Present \union {Root}
  BY <1>2, <1>3, <1>4, HomesOf
<1>6. Intends(s.who, e)
  BY <1>1, <1>2, <1>3, <1>4, <1>5 DEF Intends, Numbered, Finishes
<1> QED
  BY <1>1, <1>6 DEF LearnerHandlers, e

-----------------------------------------------------------------------------
(* A request of a learner that a step does not concern                     *)

LEMMA Unmoved ==
  ASSUME NEW v, visit'[v] = visit[v], order' = order, Settled \subseteq Settled',
         VisitFits(v)
  PROVE  VisitFits(v)'
BY DEF VisitFits, Homes, IsLesson, IsChapter, Parent, Present

LEMMA UnmovedNumbered ==
  ASSUME NEW v, visit'[v] = visit[v], order' = order, rows' = rows, VisitNumbered(v)
  PROVE  VisitNumbered(v)'
<1>1. \A table, l, b : Count(table, l, b)' = Count(table, l, b)
  BY DEF Count
<1> QED
  BY <1>1 DEF VisitNumbered, Present, Graded

LEMMA FinishedSame ==
  ASSUME order' = order
  PROVE  /\ Lessons' = Lessons /\ Quizzes' = Quizzes /\ Present' = Present
         /\ \A l, R : Finished(l, R)' <=> Finished(l, R)
<1>1. Lessons' = Lessons /\ Quizzes' = Quizzes /\ Present' = Present
  BY DEF Lessons, Quizzes, Blocks, Present, IsLesson, IsBlock, IsChapter, Parent
<1> QED
  BY <1>1 DEF Finished

LEMMA UnmovedJudges ==
  ASSUME NEW v, visit'[v] = visit[v], order' = order, rows' = rows, posted \subseteq posted',
         VisitJudges(v)
  PROVE  VisitJudges(v)'
<1>1. Finished(visit[v].who, rows \union visit[v].rows)'
        <=> Finished(visit[v].who, rows \union visit[v].rows)
  BY FinishedSame DEF Finished
<1> QED
  BY <1>1 DEF VisitJudges, Finishes, Certificate, LearnerRow, Paper

LEMMA RowsUnmoved ==
  ASSUME order' = order, rows' = rows, resume' = resume
  PROVE  /\ RowsFit => RowsFit'
         /\ RowsNumbered => RowsNumbered'
<1>1. \A table, l, b : Count(table, l, b)' = Count(table, l, b)
  BY DEF Count
<1>2. Lessons' = Lessons /\ Present' = Present
  BY FinishedSame
<1>3. RowsFit => RowsFit'
  BY <1>2 DEF RowsFit, Key
<1>4. RowsNumbered => RowsNumbered'
  BY <1>1, <1>2 DEF RowsNumbered, Of, Graded
<1> QED
  BY <1>3, <1>4

LEMMA CompleteIsFinished == \A l, R : Complete(l, R) <=> Finished(l, R)
BY DEF Complete, Holds, Finished, RulesHold, Done, Passed, Quizzes

-----------------------------------------------------------------------------
(* Counting                                                                *)

(* At most as many rows as places, and as many when every place has one.   *)
LEMMA OnePlaceEach ==
  ASSUME NEW S, NEW T, IsFiniteSet(T), \A x \in S : x.at \in T,
         \A x, y \in S : x.at = y.at => x = y
  PROVE  /\ IsFiniteSet(S) /\ Cardinality(S) <= Cardinality(T)
         /\ Cardinality(S) = Cardinality(T) <=> \A b \in T : \E x \in S : x.at = b
<1> DEFINE f == [x \in S |-> x.at]
<1>1. f \in Injection(S, T)
  BY DEF Injection, IsInjective
<1>2. f \in Surjection(S, T) <=> \A b \in T : \E x \in S : x.at = b
  BY DEF Surjection
<1> HIDE DEF f
<1> QED
  BY <1>1, <1>2, FS_Injection

(* Rules that hold of more content held of the content before.             *)
LEMMA RulesSurvive ==
  ASSUME NEW L2, NEW L \in SUBSET L2, IsFiniteSet(L2),
         NEW Q2, NEW Q \in SUBSET Q2, IsFiniteSet(Q2),
         NEW D, IsFiniteSet(D), Cardinality(D) <= Cardinality(L),
         NEW P, IsFiniteSet(P), Cardinality(P) <= Cardinality(Q),
         RulesHold(L2, D, Q2, P)
  PROVE  RulesHold(L, D, Q, P)
<1> DEFINE of(rule, part, all) ==
             IF rule.type \in {"all_lessons", "all_quizzes"}
             THEN all # {} /\ Cardinality(part) = Cardinality(all)
             ELSE PercentOf(Cardinality(part), Cardinality(all), rule.threshold)
           asked == IF Rules = {} THEN {DefaultRule} ELSE Rules
<1>1. \A rule \in asked : rule.threshold \in Nat \ {0}
  BY JourneyAssumption DEF DefaultRule
<1>2. ASSUME NEW t \in Nat \ {0}, NEW n \in Nat, NEW m \in Nat, n <= m, NEW p \in Nat, p <= n,
             PercentOf(p, m, t)
      PROVE  PercentOf(p, n, t)
  <2>1. m > 0 /\ p * 100 >= t * m
    BY <1>2 DEF PercentOf
  <2>2. t * m >= t * n /\ t * m >= 1
    BY <1>2, <2>1
  <2>3. t * m \in Nat /\ t * n \in Nat
    BY <1>2
  <2>4. p > 0
    BY <1>2, <2>1, <2>2, <2>3
  <2> HIDE DEF of
  <2> QED
    BY <1>2, <2>1, <2>2, <2>3, <2>4 DEF PercentOf
<1>3. ASSUME NEW A2, NEW A \in SUBSET A2, IsFiniteSet(A2),
             NEW B, IsFiniteSet(B), Cardinality(B) <= Cardinality(A),
             NEW rule \in asked, of(rule, B, A2)
      PROVE  of(rule, B, A)
  <2>1. /\ Cardinality(A2) \in Nat /\ Cardinality(A) \in Nat /\ Cardinality(B) \in Nat
        /\ Cardinality(A) <= Cardinality(A2)
    BY <1>3, FS_Subset, FS_CardinalityType
  <2>2. CASE rule.type \in {"all_lessons", "all_quizzes"}
    <3>1. A2 # {} /\ Cardinality(B) = Cardinality(A2)
      BY <1>3, <2>2
    <3>2. Cardinality(A2) # 0
      BY <1>3, <3>1, FS_EmptySet
    <3>3. Cardinality(A) = Cardinality(A2) /\ A # {}
      BY <1>3, <2>1, <3>1, <3>2, FS_EmptySet
    <3> QED
      BY <2>2, <3>1, <3>3
  <2>3. CASE rule.type \notin {"all_lessons", "all_quizzes"}
    <3>1. PercentOf(Cardinality(B), Cardinality(A2), rule.threshold)
      BY <1>3, <2>3
    <3>2. rule.threshold \in Nat \ {0}
      BY <1>1, <1>3
    <3>3. PercentOf(Cardinality(B), Cardinality(A), rule.threshold)
      BY <1>2, <1>3, <2>1, <3>1, <3>2
    <3> QED
      BY <2>3, <3>3
  <2> QED
    BY <2>2, <2>3
<1>4. \A rule \in asked : IF rule.type \in {"all_lessons", "percent_lessons"}
                          THEN of(rule, D, L2) ELSE of(rule, P, Q2)
  BY DEF RulesHold
<1> HIDE DEF of, asked
<1>5. \A rule \in asked : IF rule.type \in {"all_lessons", "percent_lessons"}
                          THEN of(rule, D, L) ELSE of(rule, P, Q)
  BY <1>3, <1>4
<1> QED
  BY <1>5 DEF RulesHold, of, asked

(* Nobody fulfils the rules without having done anything.                  *)
LEMMA NothingDone ==
  ASSUME NEW L, NEW Q, IsFiniteSet(L), IsFiniteSet(Q), RulesHold(L, {}, Q, {})
  PROVE  FALSE
<1>1. IsFiniteSet({}) /\ Cardinality({}) = 0
  BY FS_EmptySet
<1>2. RulesHold({}, {}, {}, {})
  BY <1>1, RulesSurvive, FS_CardinalityType
<1>3. PICK rule \in IF Rules = {} THEN {DefaultRule} ELSE Rules : TRUE
  OBVIOUS
<1> QED
  BY <1>1, <1>2, <1>3 DEF RulesHold, PercentOf

-----------------------------------------------------------------------------
(* Steps of learners' requests                                             *)

LearnersInv == JourneyInv /\ NumbersInv /\ CertificatesInv

LEMMA ContentIsFinite ==
  ASSUME ContentInv
  PROVE  IsFiniteSet(Lessons) /\ IsFiniteSet(Quizzes)
<1>1. Lessons \subseteq Row /\ Quizzes \subseteq Row
  BY DEF ContentInv, ContentTypeOK, Lessons, Quizzes, Blocks
<1> QED
  BY <1>1, FinitelyManyRows, FS_Subset

LEMMA LearnersStart == Init => LearnersInv
<1> SUFFICES ASSUME Init PROVE LearnersInv
  OBVIOUS
<1>1. ContentInv
  BY ContentStarts DEF Init, ListsInv
<1>2. PICK S \in SUBSET Eligible : rows = {Access(l) : l \in Learners \ S}
  BY DEF Init
<1>3. \A x \in rows : /\ x \in LearnerRows /\ x.table = "access" /\ x.at = Root /\ ~x.won
                      /\ \A y \in rows : x.who = y.who => x = y
  <2> SUFFICES ASSUME NEW x \in rows
               PROVE  /\ x \in LearnerRows /\ x.table = "access" /\ x.at = Root /\ ~x.won
                      /\ \A y \in rows : x.who = y.who => x = y
    OBVIOUS
  <2>1. PICK l \in Learners \ S : x = Access(l)
    BY <1>2
  <2>2. \A k : /\ Access(k).who = k /\ Access(k).table = "access"
               /\ Access(k).at = Root /\ ~Access(k).won
    BY DEF Access, LearnerRow
  <2>3. x \in LearnerRows
    BY <2>1, SomeRows
  <2> QED
    BY <1>2, <2>1, <2>2, <2>3
<1>4. IsFiniteSet(rows)
  <2> DEFINE f == [l \in Learners \ S |-> Access(l)]
  <2>1. IsFiniteSet(Learners \ S)
    BY JourneyAssumption, FS_Subset
  <2>2. f \in Surjection(Learners \ S, rows)
    BY <1>2 DEF Surjection
  <2> HIDE DEF f
  <2> QED
    BY <2>1, <2>2, FS_Surjection
<1>5. /\ visit \in [Visits -> VisitStates] /\ Live = {}
      /\ resume = [l \in Learners |-> Root] /\ unseen = {}
  BY CalmIsState DEF Init, Live
<1>6. JourneyInv
  <2>1. \A x, y \in rows : Key(x) = Key(y) => x = y
    BY <1>3, KeyFields
  <2>2. RowsFit
    BY <1>3, <1>4, <1>5, <2>1 DEF RowsFit
  <2>3. JourneyTypeOK
    BY <1>3, <1>5 DEF JourneyTypeOK
  <2> QED
    BY <1>1, <1>5, <2>2, <2>3 DEF JourneyInv
<1>7. NumbersInv
  <2>1. ASSUME NEW table \in Numbered, NEW l, NEW b
        PROVE  {x.number : x \in Of(table, l, b)} = 1 .. Count(table, l, b)
    <3>1. Of(table, l, b) = {}
      BY <1>3 DEF Of, Numbered
    <3>2. Count(table, l, b) = 0
      BY <1>4, <3>1, CountIsNat, FS_EmptySet
    <3> QED
      BY <3>1, <3>2
  <2> QED
    BY <1>3, <1>5, <2>1 DEF NumbersInv, RowsNumbered
<1>8. CertificatesInv
  <2>1. ASSUME NEW l PROVE ~Finished(l, rows)
    <3>1. Done(l, rows) = {} /\ Passed(l, rows, Quizzes) = {}
      BY <1>3 DEF Done, Passed
    <3> QED
      BY <1>1, <3>1, ContentIsFinite, NothingDone DEF Finished
  <2> QED
    BY <1>5, <2>1 DEF CertificatesInv, FinishedHaveCertificates
<1> QED
  BY <1>6, <1>7, <1>8 DEF LearnersInv

(* A step that moves some requests of learners, and no row.                *)
LEMMA OthersUnmoved ==
  ASSUME LearnersInv, ContentInv', order' = order, Settled \subseteq Settled',
         rows' = rows, resume' = resume, unseen' = unseen, posted \subseteq posted',
         visit' \in [Visits -> VisitStates],
         NEW W \in SUBSET Visits, \A o \in Visits \ W : visit'[o] = visit[o],
         \A v \in W : visit'[v].phase # "none" =>
                        VisitFits(v)' /\ VisitNumbered(v)' /\ VisitJudges(v)'
  PROVE  LearnersInv'
<1>1. /\ ContentInv /\ JourneyTypeOK /\ RowsFit /\ RowsNumbered /\ FinishedHaveCertificates
      /\ \A v \in Live : VisitFits(v) /\ VisitNumbered(v) /\ VisitJudges(v)
  BY DEF LearnersInv, JourneyInv, NumbersInv, CertificatesInv
<1>2. RowsFit' /\ RowsNumbered' /\ JourneyTypeOK'
  BY <1>1, RowsUnmoved DEF JourneyTypeOK
<1>3. \A v \in Live' : VisitFits(v)' /\ VisitNumbered(v)' /\ VisitJudges(v)'
  <2> SUFFICES ASSUME NEW v \in Visits, visit'[v].phase # "none"
               PROVE  VisitFits(v)' /\ VisitNumbered(v)' /\ VisitJudges(v)'
    BY DEF Live
  <2>1. CASE v \notin W
    <3>1. visit'[v] = visit[v] /\ v \in Live
      BY <2>1 DEF Live
    <3> QED
      BY <1>1, <3>1, Unmoved, UnmovedNumbered, UnmovedJudges
  <2> QED
    BY <2>1
<1>4. FinishedHaveCertificates'
  <2> SUFFICES ASSUME NEW l \in Learners, Finished(l, rows)'
               PROVE  Certificate(l) \in rows \/ l \in unseen
    BY DEF FinishedHaveCertificates, Certificate, LearnerRow
  <2>1. Finished(l, rows)
    BY FinishedSame DEF Finished
  <2> QED
    BY <1>1, <2>1 DEF FinishedHaveCertificates
<1> QED
  BY <1>2, <1>3, <1>4 DEF LearnersInv, JourneyInv, NumbersInv, CertificatesInv

(* Steps that change neither the content nor what learners have.           *)
Aside == /\ order' = order /\ Settled \subseteq Settled' /\ posted \subseteq posted'
         /\ UNCHANGED <<rows, resume, visit, unseen>>

LEMMA LearnerSteps ==
  ASSUME ListsInv, JourneyInv, [Next]_vars
  PROVE  \/ Aside
         \/ \E v \in Visits :
              \/ \E h \in LearnerHandlers : \E l, e : Intends(l, e) /\ Arrive(v, h, l, e)
              \/ Write(v) \/ CommitVisit(v) \/ \E how \in {"over", "lost"} : Ends(v, how)
         \/ \E r \in Requests : CommitEdit(r)
<1>1. UNCHANGED contentVars => order' = order /\ Settled' = Settled
  BY DEF contentVars, Settled, OpenEdits, Open
<1>2. CASE UNCHANGED vars
  BY <1>1, <1>2 DEF vars, journeyVars, Aside
<1>3. CASE UploadAssignmentSubmission
  BY <1>1, <1>3 DEF UploadAssignmentSubmission, Aside
<1>4. ASSUME NEW r \in Requests, Edit(r) PROVE Aside
  <2>1. UNCHANGED journeyVars /\ (Request(r) \/ Fail(r)) /\ ContentInv
    BY <1>4 DEF Edit, ListsInv
  <2>2. order' = order /\ Settled \subseteq Settled'
    BY <2>1, RequestHasPlan, BeginKeepsContent, FailKeepsContent
  <2> QED
    BY <2>1, <2>2 DEF journeyVars, Aside
<1>5. ASSUME NEW v \in Visits, Visit(v)
      PROVE  \/ \E h \in LearnerHandlers : \E l, e : Intends(l, e) /\ Arrive(v, h, l, e)
             \/ Write(v) \/ CommitVisit(v) \/ \E how \in {"over", "lost"} : Ends(v, how)
  BY <1>5, PlainVisits, SubmitQuizIntends, SubmitAssignmentIntends, GradeIntends
     DEF Visit, FailVisit, LoseVisit
<1> QED
  BY <1>2, <1>3, <1>4, <1>5 DEF Next

LEMMA AsideKeeps ==
  ASSUME LearnersInv, ContentInv', Aside
  PROVE  LearnersInv'
<1>1. visit \in [Visits -> VisitStates]
  BY DEF LearnersInv, JourneyInv, JourneyTypeOK
<1>2. {} \in SUBSET Visits /\ \A o \in Visits \ {} : visit'[o] = visit[o]
  BY DEF Aside
<1> QED
  BY <1>1, <1>2, OthersUnmoved DEF Aside

LEMMA EndKeeps ==
  ASSUME LearnersInv, ContentInv', NEW v \in Visits, NEW how \in {"over", "lost"}, Ends(v, how)
  PROVE  LearnersInv'
<1> DEFINE c == [Calm EXCEPT !.kind = how]
<1>1. c \in VisitStates /\ c.phase = "none"
  BY CalmIsState DEF VisitStates
<1>2. visit \in [Visits -> VisitStates] /\ visit' = [visit EXCEPT ![v] = c]
  BY DEF Ends, LearnersInv, JourneyInv, JourneyTypeOK
<1> HIDE DEF c
<1>3. /\ visit' \in [Visits -> VisitStates] /\ visit'[v].phase = "none"
      /\ \A o \in Visits \ {v} : visit'[o] = visit[o]
  BY <1>1, <1>2
<1>4. order' = order /\ Settled' = Settled
  BY DEF Ends, contentVars, Settled, OpenEdits, Open
<1> DEFINE W == {v}
<1>5. /\ W \in SUBSET Visits /\ \A o \in Visits \ W : visit'[o] = visit[o]
      /\ \A o \in W : visit'[o].phase = "none"
  BY <1>3
<1> HIDE DEF W
<1> QED
  BY <1>3, <1>4, <1>5, OthersUnmoved DEF Ends

LEMMA PresentIsSettled ==
  ASSUME ContentInv
  PROVE  Present \subseteq Settled
BY DEF ContentInv, ContentTypeOK, NewRowsFit, Settled

LEMMA ArriveKeeps ==
  ASSUME LearnersInv, ContentInv', NEW v \in Visits, NEW h \in LearnerHandlers, NEW l, NEW e,
         Intends(l, e), Arrive(v, h, l, e)
  PROVE  LearnersInv'
<1> DEFINE d == [e EXCEPT !.kind = h, !.who = l, !.phase = "read"]
<1>1. /\ visit \in [Visits -> VisitStates] /\ ContentInv /\ IsFiniteSet(rows)
  BY DEF LearnersInv, JourneyInv, JourneyTypeOK, RowsFit
<1>2. /\ order' = order /\ Settled' = Settled /\ rows' = rows /\ resume' = resume
      /\ unseen' = unseen /\ posted' = posted /\ visit' = [visit EXCEPT ![v] = d]
  BY DEF Arrive, contentVars, Settled, OpenEdits, Open
<1>3. e \in VisitStates /\ ~e.overtaken /\ l \in Learners
  BY DEF Intends
<1>4. /\ d \in VisitStates /\ d.phase = "read" /\ d.who = l /\ d.rows = e.rows
      /\ d.at = e.at /\ d.report = e.report /\ d.judges = e.judges
  BY <1>3 DEF VisitStates
<1> HIDE DEF d
<1>5. /\ visit' \in [Visits -> VisitStates] /\ visit'[v] = d
      /\ \A o \in Visits \ {v} : visit'[o] = visit[o]
  BY <1>1, <1>2, <1>4
<1>6. VisitFits(v)'
  <2>1. Homes(d) = Homes(e)
    BY <1>4 DEF Homes
  <2>2. Homes(d) \subseteq Settled' \union {Root}
    BY <1>1, <1>2, <2>1, PresentIsSettled DEF Intends
  <2>3. (\A x \in d.rows : x.who = l) /\ (\A x, y \in d.rows : x.table = y.table => x = y)
        /\ (\A x \in d.at : IsLesson(x))
    BY <1>4 DEF Intends
  <2>4. d.phase # "wrote"
    BY <1>4
  <2> QED
    BY <1>3, <1>4, <1>5, <2>2, <2>3, <2>4 DEF VisitFits, Homes, IsLesson, IsChapter, Parent
<1>7. VisitNumbered(v)'
  <2>1. \A table, b : Count(table, l, b)' = Count(table, l, b)
    BY <1>2 DEF Count
  <2>2. \A table, b : Count(table, l, b) \in Nat
    BY <1>1, CountIsNat
  <2>3. ASSUME NEW x \in d.rows
        PROVE  /\ x.who = l
               /\ x.table \in Numbered => x.number \in 1 .. Count(x.table, l, x.at) + 1
               /\ x.table = "submission" /\ x.at[1] \notin Resubmit => x.number = 1
               /\ x.table = "grade" => Graded(x) \in rows
    BY <1>4, <2>2 DEF Intends
  <2>4. /\ \A x \in d.rows : x.table \in Numbered =>
             x.number \in 1 .. Count(x.table, x.who, x.at)' + 1
        /\ \A x \in d.rows : x.table = "grade" => Graded(x) \in rows'
    BY <1>2, <2>1, <2>3
  <2> QED
    BY <1>5, <2>3, <2>4 DEF VisitNumbered, Graded
<1>8. VisitJudges(v)'
  <2>1. \A x \in d.rows : x.table # "certificate" /\ (~d.judges => ~Finishes(x))
    BY <1>4 DEF Intends
  <2>2. Certificate(l) \notin d.rows /\ d.phase # "wrote"
    BY <1>4, <2>1 DEF Certificate, LearnerRow
  <2> QED
    BY <1>4, <1>5, <2>1, <2>2 DEF VisitJudges, Finishes, Certificate, LearnerRow
<1> DEFINE W == {v}
<1>9. /\ W \in SUBSET Visits /\ \A o \in Visits \ W : visit'[o] = visit[o]
      /\ \A o \in W : VisitFits(o)' /\ VisitNumbered(o)' /\ VisitJudges(o)'
  BY <1>5, <1>6, <1>7, <1>8
<1> HIDE DEF W
<1> QED
  BY <1>2, <1>5, <1>9, OthersUnmoved

(* Rows of others and of other tables are no step towards completion.      *)
LEMMA RowsAside ==
  ASSUME NEW l, NEW R, NEW S, \A x \in S : x.who = l => ~Finishes(x)
  PROVE  Finished(l, R \union S) <=> Finished(l, R)
<1>1. Done(l, R \union S) = Done(l, R)
  BY DEF Done, Finishes
<1>2. Passed(l, R \union S, Quizzes) = Passed(l, R, Quizzes)
  BY DEF Passed, Finishes
<1> QED
  BY <1>1, <1>2 DEF Finished

LEMMA WriteKeeps ==
  ASSUME LearnersInv, ContentInv', NEW v \in Visits, Write(v)
  PROVE  LearnersInv'
<1> DEFINE e == visit[v]
           cert == Certificate(e.who)
           earned == IF Earns(e) THEN {cert} ELSE {}
           d == [e EXCEPT !.phase = "wrote", !.rows = e.rows \union earned]
<1>1. /\ visit \in [Visits -> VisitStates] /\ ContentInv /\ e \in VisitStates
  BY DEF LearnersInv, JourneyInv, JourneyTypeOK
<1>2. /\ order' = order /\ Settled' = Settled /\ rows' = rows /\ resume' = resume
      /\ unseen' = unseen
  BY DEF Write, contentVars, Settled, OpenEdits, Open
<1>3. /\ e.phase = "read" /\ MayWrite(e) /\ v \in Live
      /\ VisitFits(v) /\ VisitNumbered(v) /\ VisitJudges(v)
  BY DEF Write, Live, LearnersInv, JourneyInv, NumbersInv, CertificatesInv
<1>4. /\ visit' = [visit EXCEPT ![v].phase = "wrote", ![v].rows = e.rows \union earned]
      /\ posted \subseteq posted' /\ \A x \in earned : Paper("pdf", x) \in posted'
  BY DEF Write
<1>5. e.who \in Learners /\ \A x \in e.rows : x.who = e.who /\ x \in LearnerRows
  BY <1>1, <1>3 DEF VisitFits, VisitStates
<1>6. /\ cert \in LearnerRows /\ cert.table = "certificate" /\ cert.who = e.who /\ cert.at = Root
      /\ ~Finishes(cert)
      /\ earned \subseteq {cert} /\ \A x \in LearnerRows :
           x.table = "certificate" /\ x.who = e.who => x = cert
  <2>1. cert \in LearnerRows /\ cert.table = "certificate" /\ cert.who = e.who /\ cert.at = Root
        /\ cert.number = 0 /\ cert.won = FALSE /\ ~Finishes(cert)
    BY <1>5, SomeRows DEF Certificate, LearnerRow, Finishes
  <2>2. ASSUME NEW x \in LearnerRows, x.table = "certificate", x.who = e.who
        PROVE  x = cert
    <3>1. Key(x) = Key(cert)
      <4> HIDE DEF cert
      <4> QED
        BY <2>1, <2>2, RowFields, KeyFields
    <3> HIDE DEF cert
    <3> QED
      BY <2>1, <2>2, <3>1, KeyDecides
  <2> HIDE DEF cert
  <2> QED
    BY <2>1, <2>2
<1> HIDE DEF cert
<1>7. d \in VisitStates /\ d.phase = "wrote" /\ d.who = e.who /\ d.rows = e.rows \union earned
      /\ d.at = e.at /\ d.report = e.report /\ d.judges = e.judges /\ d.overtaken = e.overtaken
  <2>1. e.rows \union earned \in SUBSET LearnerRows
    BY <1>5, <1>6
  <2> HIDE DEF earned, e
  <2> QED
    BY <1>1, <2>1 DEF VisitStates
<1>8. /\ visit' \in [Visits -> VisitStates] /\ visit'[v] = d
      /\ \A o \in Visits \ {v} : visit'[o] = visit[o]
  <2>1. visit' = [visit EXCEPT ![v] = d]
    BY <1>1, <1>4 DEF VisitStates
  <2> HIDE DEF d
  <2> QED
    BY <1>1, <1>7, <2>1
<1> HIDE DEF d
<1>9. VisitFits(v)'
  <2>1. Homes(e) \subseteq Present \union {Root}
    BY <1>3 DEF MayWrite
  <2>2. Homes(d) \subseteq Present \union {Root}
    BY <1>6, <1>7, <2>1 DEF Homes
  <2>3. Present' = Present
    BY <1>2 DEF Present
  <2>4. Homes(d) \subseteq Settled' \union {Root}
    BY <1>1, <1>2, <2>2, PresentIsSettled
  <2>5. \A x \in d.rows : x.who = d.who
    BY <1>5, <1>6, <1>7
  <2>6. \A x, y \in d.rows : x.table = y.table => x = y
    <3>1. \A x, y \in e.rows : x.table = y.table => x = y
      BY <1>3 DEF VisitFits
    <3>2. \A x \in d.rows : x \in e.rows \/ x = cert
      BY <1>6, <1>7
    <3> QED
      BY <1>5, <1>6, <3>1, <3>2
  <2>7. \A x \in d.at : IsLesson(x)
    BY <1>3, <1>7 DEF VisitFits
  <2> QED
    BY <1>5, <1>7, <1>8, <2>2, <2>3, <2>4, <2>5, <2>6, <2>7
       DEF VisitFits, Homes, IsLesson, IsChapter, Parent
<1>10. VisitNumbered(v)'
  <2>1. \A table, l, b : Count(table, l, b)' = Count(table, l, b)
    BY <1>2 DEF Count
  <2>2. Present' = Present
    BY <1>2 DEF Present
  <2>3. \A x \in d.rows : x \in e.rows \/ x.table = "certificate"
    BY <1>6, <1>7
  <2> QED
    BY <1>2, <1>3, <1>8, <2>1, <2>2, <2>3 DEF VisitNumbered, Numbered, Graded
<1>11. VisitJudges(v)'
  <2>1. /\ cert \notin e.rows
        /\ ~e.judges => \A x \in e.rows : ~Finishes(x) /\ x.table # "certificate"
    BY <1>3 DEF VisitJudges, cert
  <2>2. (~e.judges => earned = {}) /\ (cert \in d.rows => earned = {cert})
    BY <1>7, <2>1 DEF Earns, cert
  <2>3. ~d.judges => \A x \in d.rows : ~Finishes(x) /\ x.table # "certificate"
    BY <1>7, <2>1, <2>2
  <2>4. cert \in d.rows => Paper("pdf", cert) \in posted'
    BY <1>4, <2>2
  <2>5. Finished(e.who, rows \union d.rows) <=> Finished(e.who, rows \union e.rows)
    <3>1. rows \union d.rows = (rows \union e.rows) \union earned
      BY <1>7
    <3>2. \A x \in earned : ~Finishes(x)
      BY <1>6
    <3> HIDE DEF earned
    <3> QED
      BY <3>1, <3>2, RowsAside
  <2>6. ASSUME e.judges
        PROVE  /\ cert \in d.rows => Finished(e.who, rows \union d.rows)
               /\ Finished(e.who, rows \union d.rows) => cert \in rows \union d.rows
    <3>1. Earns(e) <=> cert \notin rows /\ Finished(e.who, rows \union e.rows)
      BY <2>6, CompleteIsFinished DEF Earns, cert
    <3>2. (cert \in d.rows => Earns(e)) /\ (Earns(e) => cert \in d.rows)
      BY <1>7, <2>1 DEF earned
    <3> QED
      BY <2>5, <3>1, <3>2
  <2>7. Finished(visit[v].who, rows \union visit[v].rows)'
          <=> Finished(e.who, rows \union d.rows)
    BY <1>2, <1>7, <1>8, FinishedSame DEF Finished
  <2>8. /\ Certificate(visit[v].who)' = cert /\ rows' = rows /\ visit'[v] = d
        /\ (Paper("pdf", cert) \in posted)' <=> Paper("pdf", cert) \in posted'
    BY <1>2, <1>7, <1>8 DEF cert, Certificate, LearnerRow, Paper
  <2>9. /\ ~visit'[v].judges => \A x \in visit'[v].rows : ~Finishes(x) /\ x.table # "certificate"
        /\ cert \in visit'[v].rows => visit'[v].phase = "wrote" /\ Paper("pdf", cert) \in posted'
    BY <1>7, <2>3, <2>4, <2>8
  <2> QED
    BY <1>7, <2>6, <2>7, <2>8, <2>9 DEF VisitJudges, Finishes
<1> DEFINE W == {v}
<1>12. /\ W \in SUBSET Visits /\ \A o \in Visits \ W : visit'[o] = visit[o]
       /\ \A o \in W : VisitFits(o)' /\ VisitNumbered(o)' /\ VisitJudges(o)'
  BY <1>8, <1>9, <1>10, <1>11
<1> HIDE DEF W
<1> QED
  BY <1>2, <1>4, <1>8, <1>12, OthersUnmoved

(* A request that a step leaves alone, but for finding it overtaken.       *)
SameWork(v) ==
  /\ visit'[v].who = visit[v].who /\ visit'[v].phase = visit[v].phase
  /\ visit'[v].rows = visit[v].rows /\ visit'[v].at = visit[v].at
  /\ visit'[v].report = visit[v].report /\ visit'[v].judges = visit[v].judges

LEMMA OvertakenFields ==
  ASSUME NEW o \in Visits, visit \in [Visits -> VisitStates]
  PROVE  LET p == [visit[o] EXCEPT !.overtaken = TRUE]
         IN  /\ p \in VisitStates /\ p.who = visit[o].who
             /\ p.phase = visit[o].phase /\ p.rows = visit[o].rows
             /\ p.at = visit[o].at /\ p.report = visit[o].report
             /\ p.judges = visit[o].judges /\ p.overtaken = TRUE
<1> DEFINE d == visit[o]
<1>1. d \in VisitStates
  OBVIOUS
<1> HIDE DEF d
<1>2. LET p == [d EXCEPT !.overtaken = TRUE]
      IN  /\ p \in VisitStates /\ p.who = d.who
          /\ p.phase = d.phase /\ p.rows = d.rows
          /\ p.at = d.at /\ p.report = d.report
          /\ p.judges = d.judges /\ p.overtaken = TRUE
  BY <1>1 DEF VisitStates
<1> QED
  BY <1>2 DEF d

LEMMA CommitVisitStates ==
  ASSUME JourneyInv, NEW v \in Visits, CommitVisit(v)
  PROVE  LET e == visit[v]
         IN  /\ order' = order /\ Settled' = Settled /\ posted' = posted
             /\ rows' = rows \union e.rows /\ ~Clashes(e)
             /\ e.phase = "wrote" /\ e \in VisitStates /\ VisitFits(v)
             /\ e.rows \in SUBSET LearnerRows /\ IsFiniteSet(e.rows)
             /\ visit' \in [Visits -> VisitStates] /\ visit'[v].phase = "none"
             /\ \A o \in Visits \ {v} :
                  /\ SameWork(o)
                  /\ visit'[o].overtaken =
                       (visit[o].overtaken \/ (visit[o].phase = "wrote" /\ visit[o].who = e.who))
             /\ \A l \in Learners : resume'[l] = resume[l] \/ (l = e.who /\ resume'[l] \in e.at)
             /\ resume' \in [Learners -> Row \union {Root}]
             /\ unseen' = IF ~e.judges THEN unseen
                          ELSE IF e.overtaken THEN unseen \union {e.who} ELSE unseen \ {e.who}
<1> DEFINE e == visit[v]
           c == [Calm EXCEPT !.kind = "over"]
           passed(o) == [visit[o] EXCEPT !.overtaken = TRUE]
<1>1. /\ visit \in [Visits -> VisitStates] /\ e \in VisitStates
      /\ resume \in [Learners -> Row \union {Root}]
      /\ e.phase = "wrote" /\ v \in Live /\ VisitFits(v) /\ v \in Wrote
  BY DEF CommitVisit, JourneyInv, JourneyTypeOK, Live, Wrote
<1>2. c \in VisitStates /\ c.phase = "none"
  BY CalmIsState DEF VisitStates
<1>3. ASSUME NEW o \in Visits
      PROVE  /\ passed(o) \in VisitStates /\ passed(o).who = visit[o].who
             /\ passed(o).phase = visit[o].phase /\ passed(o).rows = visit[o].rows
             /\ passed(o).at = visit[o].at /\ passed(o).report = visit[o].report
             /\ passed(o).judges = visit[o].judges /\ passed(o).overtaken = TRUE
  BY <1>1, OvertakenFields
<1>4. visit' = [o \in Visits |->
                  IF o = v THEN c
                  ELSE IF o \in Wrote /\ visit[o].who = e.who THEN passed(o) ELSE visit[o]]
  BY DEF CommitVisit
<1> HIDE DEF c, passed
<1>5. visit' \in [Visits -> VisitStates] /\ visit'[v].phase = "none"
  BY <1>1, <1>2, <1>3, <1>4
<1>6. ASSUME NEW o \in Visits \ {v}
      PROVE  /\ SameWork(o)
             /\ visit'[o].overtaken =
                  (visit[o].overtaken \/ (visit[o].phase = "wrote" /\ visit[o].who = e.who))
  <2>1. CASE o \in Wrote /\ visit[o].who = e.who
    <3>1. visit'[o] = passed(o)
      BY <1>4, <2>1
    <3> QED
      BY <1>3, <2>1, <3>1 DEF SameWork, Wrote
  <2>2. CASE ~(o \in Wrote /\ visit[o].who = e.who)
    <3>1. visit'[o] = visit[o] /\ visit[o].overtaken \in BOOLEAN
      BY <1>1, <1>4, <2>2 DEF VisitStates
    <3>2. ~(visit[o].phase = "wrote" /\ visit[o].who = e.who)
      BY <2>2 DEF Wrote
    <3> QED
      BY <3>1, <3>2 DEF SameWork
  <2> QED
    BY <2>1, <2>2
<1>7. e.rows \in SUBSET LearnerRows /\ IsFiniteSet(e.rows)
  <2>1. e.rows \in SUBSET LearnerRows
    BY <1>1 DEF VisitStates
  <2> DEFINE S == e.rows
             f == [x \in S |-> x.table]
  <2>2. \A x, y \in S : x.table = y.table => x = y
    BY <1>1 DEF VisitFits
  <2>3. \A x \in S : x.table \in Tables
    BY <2>1 DEF LearnerRows
  <2> HIDE DEF S
  <2>4. f \in Injection(S, Tables)
    BY <2>2, <2>3 DEF Injection, IsInjective
  <2>5. IsFiniteSet(Tables)
    <3>1. IsFiniteSet({})
      BY FS_EmptySet
    <3>2. ASSUME NEW T, IsFiniteSet(T), NEW x PROVE IsFiniteSet(T \union {x})
      BY <3>2, FS_AddElement
    <3>3. Tables = ((((({} \union {"access"}) \union {"progress"}) \union {"attempt"})
                       \union {"submission"}) \union {"grade"}) \union {"certificate"}
      BY DEF Tables
    <3> QED
      BY <3>1, <3>2, <3>3
  <2> HIDE DEF f
  <2> QED
    BY <2>1, <2>4, <2>5, FS_Injection DEF S
<1>8. /\ \A l \in Learners : resume'[l] = resume[l] \/ (l = e.who /\ resume'[l] \in e.at)
      /\ resume' \in [Learners -> Row \union {Root}]
  <2> DEFINE next == IF e.at = {} THEN resume[e.who] ELSE CHOOSE x \in e.at : TRUE
  <2>1. e.who \in Learners /\ e.at \subseteq Row
    BY <1>1 DEF VisitFits, VisitStates
  <2>2. resume' = [resume EXCEPT ![e.who] = next]
    BY DEF CommitVisit
  <2>3. next = resume[e.who] \/ next \in e.at
    OBVIOUS
  <2> HIDE DEF next
  <2> QED
    BY <1>1, <2>1, <2>2, <2>3
<1>9. /\ order' = order /\ Settled' = Settled /\ posted' = posted
      /\ rows' = rows \union e.rows /\ ~Clashes(e)
      /\ unseen' = IF ~e.judges THEN unseen
                   ELSE IF e.overtaken THEN unseen \union {e.who} ELSE unseen \ {e.who}
  BY DEF CommitVisit, contentVars, Settled, OpenEdits, Open
<1> QED
  BY <1>1, <1>5, <1>6, <1>7, <1>8, <1>9

LEMMA SameWorkFits ==
  ASSUME NEW v, SameWork(v), order' = order, Settled \subseteq Settled', VisitFits(v)
  PROVE  VisitFits(v)'
BY DEF SameWork, VisitFits, Homes, IsLesson, IsChapter, Parent, Present

LEMMA CommitVisitFits ==
  ASSUME JourneyInv, ContentInv', NEW v \in Visits, CommitVisit(v)
  PROVE  JourneyInv'
<1> DEFINE e == visit[v]
<1>1. /\ ContentInv /\ JourneyTypeOK /\ RowsFit /\ \A o \in Live : VisitFits(o)
  BY DEF JourneyInv
<1>2. /\ order' = order /\ Settled' = Settled
      /\ rows' = rows \union e.rows /\ ~Clashes(e)
      /\ e.phase = "wrote" /\ e \in VisitStates /\ VisitFits(v)
      /\ e.rows \in SUBSET LearnerRows /\ IsFiniteSet(e.rows)
      /\ visit' \in [Visits -> VisitStates] /\ visit'[v].phase = "none"
      /\ \A o \in Visits \ {v} : SameWork(o)
      /\ \A l \in Learners : resume'[l] = resume[l] \/ (l = e.who /\ resume'[l] \in e.at)
      /\ resume' \in [Learners -> Row \union {Root}]
      /\ unseen' = IF ~e.judges THEN unseen
                   ELSE IF e.overtaken THEN unseen \union {e.who} ELSE unseen \ {e.who}
  BY CommitVisitStates
<1>3. Lessons' = Lessons /\ Present' = Present
  BY <1>2, FinishedSame
<1>4. /\ e.who \in Learners /\ \A x, y \in e.rows : x.table = y.table => x = y
      /\ \A x \in e.rows : x.at \in Present \union {Root}
      /\ \A x \in e.at : x \in Lessons
  <2>1. /\ e.who \in Learners /\ \A x, y \in e.rows : x.table = y.table => x = y
        /\ Homes(e) \subseteq Present \union {Root} /\ \A x \in e.at : IsLesson(x) /\ x \in Row
    BY <1>2 DEF VisitFits, VisitStates
  <2> HIDE DEF e
  <2> QED
    BY <2>1, RootIsNoRow DEF Homes, Lessons
<1>5. JourneyTypeOK'
  BY <1>1, <1>2, <1>4 DEF JourneyTypeOK
<1>6. ASSUME NEW x \in rows', NEW y \in rows', Key(x) = Key(y) PROVE x = y
  <2>1. rows \subseteq LearnerRows /\ x \in LearnerRows /\ y \in LearnerRows
    BY <1>1, <1>2 DEF JourneyTypeOK
  <2>2. x.table = y.table
    BY <1>6, <2>1, KeyFields
  <2>3. ASSUME NEW a \in rows, NEW b \in e.rows, Key(a) = Key(b), a \in LearnerRows,
               b \in LearnerRows
        PROVE  a = b
    <3>1. b.table = "progress"
      BY <1>2, <2>3 DEF Clashes, Keys, Unique
    <3> QED
      BY <2>3, <3>1, KeyDecides
  <2> QED
    BY <1>1, <1>2, <1>4, <1>6, <2>1, <2>2, <2>3 DEF RowsFit
<1>7. RowsFit'
  <2>1. IsFiniteSet(rows')
    BY <1>1, <1>2, FS_Union DEF RowsFit
  <2>2. \A x \in rows' : x.at \in Present' \union {Root}
    BY <1>1, <1>2, <1>3, <1>4 DEF RowsFit
  <2>3. \A l \in Learners : resume'[l] \in Lessons' \union {Root}
    BY <1>1, <1>2, <1>3, <1>4 DEF RowsFit
  <2> QED
    BY <1>6, <2>1, <2>2, <2>3 DEF RowsFit, Key
<1>8. \A o \in Live' : VisitFits(o)'
  <2> SUFFICES ASSUME NEW o \in Visits, visit'[o].phase # "none" PROVE VisitFits(o)'
    BY DEF Live
  <2>1. SameWork(o)
    BY <1>2
  <2>2. VisitFits(o)
    BY <1>1, <2>1 DEF SameWork, Live
  <2> QED
    BY <1>2, <2>1, <2>2, SameWorkFits
<1> QED
  BY <1>5, <1>7, <1>8 DEF JourneyInv

LEMMA CommitVisitNumbers ==
  ASSUME JourneyInv, NumbersInv, ContentInv', NEW v \in Visits, CommitVisit(v)
  PROVE  NumbersInv'
<1> DEFINE e == visit[v]
<1>1. /\ ContentInv /\ JourneyTypeOK /\ RowsFit /\ RowsNumbered
      /\ \A o \in Live : VisitFits(o) /\ VisitNumbered(o)
  BY DEF JourneyInv, NumbersInv
<1>2. /\ order' = order
      /\ rows' = rows \union e.rows /\ ~Clashes(e)
      /\ e.phase = "wrote" /\ e \in VisitStates /\ VisitFits(v)
      /\ e.rows \in SUBSET LearnerRows /\ IsFiniteSet(e.rows)
      /\ visit' \in [Visits -> VisitStates] /\ visit'[v].phase = "none"
      /\ \A o \in Visits \ {v} : SameWork(o)
  BY CommitVisitStates
<1>3. Present' = Present /\ VisitNumbered(v)
  BY <1>1, <1>2 DEF Live, Present
<1>4. /\ \A x, y \in e.rows : x.table = y.table => x = y
      /\ \A x \in e.rows : x.at \in Present \union {Root}
  <2>1. /\ \A x, y \in e.rows : x.table = y.table => x = y
        /\ Homes(e) \subseteq Present \union {Root}
    BY <1>2 DEF VisitFits
  <2> HIDE DEF e
  <2> QED
    BY <2>1 DEF Homes
<1>5. IsFiniteSet(rows) /\ IsFiniteSet(rows')
  BY <1>1, <1>2, FS_Union DEF RowsFit
<1>6. \A table, l, b : Count(table, l, b) \in Nat
  BY <1>5, CountIsNat
<1>7. \A table, l, b : Count(table, l, b)' = Cardinality(Of(table, l, b)')
  BY DEF Count, Of
<1>8. ASSUME NEW l, NEW b, NEW table \in Numbered,
             {x.number : x \in Of(table, l, b)} = 1 .. Count(table, l, b),
             \A x \in e.rows : x.table \in Numbered /\ x.at = b
                                 => x.number \in 1 .. Count(x.table, x.who, x.at) + 1
      PROVE  /\ {x.number : x \in Of(table, l, b)'} = 1 .. Count(table, l, b)'
             /\ Count(table, l, b)' \in Nat /\ Count(table, l, b) <= Count(table, l, b)'
  <2> DEFINE O == Of(table, l, b)
             O2 == Of(table, l, b)'
             n == Count(table, l, b)
             new == {x \in e.rows : x.table = table /\ x.who = l /\ x.at = b}
             numbers(S) == {x.number : x \in S}
  <2>1. O2 = O \union new
    BY <1>2 DEF Of
  <2>2. n \in Nat /\ n = Cardinality(O) /\ IsFiniteSet(O)
    BY <1>5, CountIsNat
  <2>3. Count(table, l, b)' = Cardinality(O2)
    BY <1>7
  <2>4. numbers(O) = 1 .. n
    BY <1>8
  <2>5. ASSUME NEW a \in new
        PROVE  new = {a} /\ a.number = n + 1
    <3>1. new = {a}
      BY <1>4
    <3>2. a.number \in 1 .. n + 1
      BY <1>8
    <3>3. a.number \notin 1 .. n
      <4> SUFFICES ASSUME a.number \in 1 .. n PROVE FALSE
        OBVIOUS
      <4>1. PICK y \in O : y.number = a.number
        BY <2>4
      <4>2. y \in rows /\ y \in LearnerRows /\ a \in LearnerRows
        BY <1>1, <1>2, <4>1 DEF JourneyTypeOK, Of
      <4>3. Key(a) = Key(y)
        BY <4>1, <4>2, KeyFields DEF Of
      <4>4. a.table # "progress"
        BY DEF Numbered
      <4> QED
        BY <1>2, <4>2, <4>3, <4>4 DEF Clashes, Keys, Unique
    <3> HIDE DEF n, new
    <3> QED
      BY <2>2, <3>1, <3>2, <3>3
  <2> HIDE DEF O, O2, n, new
  <2>6. CASE new = {}
    <3>1. O2 = O
      BY <2>1, <2>6
    <3> QED
      BY <2>2, <2>3, <2>4, <3>1 DEF O2, n
  <2>7. CASE new # {}
    <3>1. PICK a \in new : new = {a} /\ a.number = n + 1
      BY <2>5, <2>7
    <3>2. a \notin O
      <4>1. a.number \notin 1 .. n
        BY <2>2, <3>1
      <4> QED
        BY <2>4, <4>1
    <3>3. Cardinality(O \union {a}) = n + 1
      BY <2>2, <3>2, FS_AddElement
    <3>4. Cardinality(O2) = n + 1
      BY <2>1, <3>1, <3>3
    <3>5. numbers(O2) = (1 .. n) \union {n + 1}
      BY <2>1, <2>4, <3>1
    <3>6. (1 .. n) \union {n + 1} = 1 .. n + 1
      BY <2>2
    <3> QED
      BY <2>2, <2>3, <3>4, <3>5, <3>6 DEF O2, n
  <2> QED
    BY <2>6, <2>7
<1>9. ASSUME NEW x, x \in e.rows \/ \E o \in Live : x \in visit[o].rows
      PROVE  /\ x.table \in Numbered /\ x.at \in Present =>
                  x.number \in 1 .. Count(x.table, x.who, x.at) + 1
             /\ x.table = "submission" /\ x.at[1] \notin Resubmit => x.number = 1
             /\ x.table = "grade" /\ x.at \in Present => Graded(x) \in rows
  BY <1>1, <1>3, <1>9 DEF VisitNumbered
<1>10. ASSUME NEW l \in Learners, NEW b \in Present, NEW table \in Numbered
       PROVE  /\ {x.number : x \in Of(table, l, b)'} = 1 .. Count(table, l, b)'
              /\ Count(table, l, b)' \in Nat /\ Count(table, l, b) <= Count(table, l, b)'
  BY <1>1, <1>8, <1>9 DEF RowsNumbered
<1>11. RowsNumbered'
  <2>1. ASSUME NEW x \in rows', x.table = "submission", x.at[1] \notin Resubmit
        PROVE  x.number = 1
    BY <1>1, <1>2, <1>9, <2>1 DEF RowsNumbered
  <2>2. ASSUME NEW x \in rows', x.table = "grade" PROVE Graded(x) \in rows'
    <3>1. CASE x \in rows
      BY <1>1, <1>2, <2>2, <3>1 DEF RowsNumbered
    <3>2. CASE x \in e.rows
      <4>1. x.at \in Row
        BY <1>2, <2>2, <3>2 DEF LearnerRows
      <4>2. x.at \in Present
        BY <1>4, <3>2, <4>1, RootIsNoRow
      <4> QED
        BY <1>2, <1>9, <2>2, <3>2, <4>2
    <3> QED
      BY <1>2, <3>1, <3>2
  <2> QED
    BY <1>3, <1>10, <2>1, <2>2 DEF RowsNumbered, Graded
<1>12. ASSUME NEW o \in Live' PROVE VisitNumbered(o)'
  <2>1. o \in Live /\ visit'[o].rows = visit[o].rows /\ visit[o] \in VisitStates
    BY <1>1, <1>2 DEF Live, SameWork, JourneyTypeOK
  <2>2. ASSUME NEW x \in visit'[o].rows
        PROVE  /\ x.table \in Numbered /\ x.at \in Present' =>
                    x.number \in 1 .. Count(x.table, x.who, x.at)' + 1
               /\ x.table = "submission" /\ x.at[1] \notin Resubmit => x.number = 1
               /\ x.table = "grade" /\ x.at \in Present' => Graded(x) \in rows'
    <3>1. x \in LearnerRows /\ x.who \in Learners /\ x.number \in Nat
      BY <2>1, <2>2 DEF VisitStates, LearnerRows
    <3>2. ASSUME x.table \in Numbered, x.at \in Present
          PROVE  x.number \in 1 .. Count(x.table, x.who, x.at)' + 1
      <4>1. x.number \in 1 .. Count(x.table, x.who, x.at) + 1
        BY <1>9, <2>1, <2>2, <3>2
      <4>2. /\ Count(x.table, x.who, x.at)' \in Nat
            /\ Count(x.table, x.who, x.at) <= Count(x.table, x.who, x.at)'
        BY <1>10, <3>1, <3>2
      <4> QED
        BY <1>6, <4>1, <4>2
    <3>3. x.table = "submission" /\ x.at[1] \notin Resubmit => x.number = 1
      BY <1>9, <2>1, <2>2
    <3>4. x.table = "grade" /\ x.at \in Present => Graded(x) \in rows'
      BY <1>2, <1>9, <2>1, <2>2
    <3> QED
      BY <1>3, <3>2, <3>3, <3>4
  <2> QED
    BY <2>2 DEF VisitNumbered, Graded
<1> QED
  BY <1>11, <1>12 DEF NumbersInv

LEMMA CommitVisitCertificates ==
  ASSUME JourneyInv, CertificatesInv, ContentInv', NEW v \in Visits, CommitVisit(v)
  PROVE  CertificatesInv'
<1> DEFINE e == visit[v]
           k == e.who
<1>1. /\ JourneyTypeOK /\ FinishedHaveCertificates
      /\ \A o \in Live : VisitFits(o) /\ VisitJudges(o)
  BY DEF JourneyInv, CertificatesInv
<1>2. /\ order' = order /\ posted' = posted
      /\ rows' = rows \union e.rows
      /\ e.phase = "wrote" /\ e \in VisitStates /\ VisitFits(v)
      /\ visit' \in [Visits -> VisitStates] /\ visit'[v].phase = "none"
      /\ \A o \in Visits \ {v} :
           /\ SameWork(o)
           /\ visit'[o].overtaken =
                (visit[o].overtaken \/ (visit[o].phase = "wrote" /\ visit[o].who = e.who))
      /\ unseen' = IF ~e.judges THEN unseen
                   ELSE IF e.overtaken THEN unseen \union {e.who} ELSE unseen \ {e.who}
  BY CommitVisitStates
<1>3. VisitJudges(v) /\ k \in Learners /\ \A x \in e.rows : x.who = k
  BY <1>1, <1>2 DEF Live, VisitFits
<1>4. ASSUME NEW l, l # k, NEW S
      PROVE  /\ Finished(l, rows' \union S) <=> Finished(l, rows \union S)
             /\ Finished(l, rows') <=> Finished(l, rows)
  <2>1. rows' \union S = (rows \union S) \union e.rows
    BY <1>2
  <2>2. \A x \in e.rows : x.who = l => ~Finishes(x)
    BY <1>3, <1>4
  <2> QED
    BY <1>2, <2>1, <2>2, RowsAside
<1>5. FinishedHaveCertificates'
  <2> SUFFICES ASSUME NEW l \in Learners,
                      RulesHold(Lessons', Done(l, rows'), Quizzes', Passed(l, rows', Quizzes'))
               PROVE  Certificate(l) \in rows' \/ l \in unseen'
    BY DEF FinishedHaveCertificates, Certificate, LearnerRow, Finished
  <2>1. Finished(l, rows')
    BY <1>2, FinishedSame DEF Finished
  <2>2. CASE l # k
    BY <1>1, <1>2, <1>4, <2>1, <2>2 DEF FinishedHaveCertificates
  <2>3. CASE l = k /\ ~e.judges
    <3>1. \A x \in e.rows : ~Finishes(x)
      BY <1>3, <2>3 DEF VisitJudges
    <3>2. Finished(l, rows)
      BY <1>2, <2>1, <3>1, RowsAside
    <3> QED
      BY <1>1, <1>2, <2>3, <3>2 DEF FinishedHaveCertificates
  <2>4. CASE l = k /\ e.judges /\ e.overtaken
    BY <1>2, <2>4
  <2>5. CASE l = k /\ e.judges /\ ~e.overtaken
    BY <1>2, <1>3, <2>1, <2>5 DEF VisitJudges
  <2> QED
    BY <2>2, <2>3, <2>4, <2>5
<1>6. ASSUME NEW o \in Live' PROVE VisitJudges(o)'
  <2> DEFINE d == visit[o]
             cert == Certificate(d.who)
  <2>1. /\ o \in Live /\ o # v /\ VisitJudges(o) /\ SameWork(o) /\ d.overtaken \in BOOLEAN
        /\ visit'[o].overtaken = (d.overtaken \/ (d.phase = "wrote" /\ d.who = k))
    BY <1>1, <1>2 DEF Live, SameWork, JourneyTypeOK, VisitStates
  <2>2. /\ visit'[o].who = d.who /\ visit'[o].phase = d.phase /\ visit'[o].rows = d.rows
        /\ visit'[o].judges = d.judges
    BY <2>1 DEF SameWork
  <2>3. Certificate(visit[o].who)' = cert
    BY <2>2 DEF Certificate, LearnerRow
  <2>4. /\ ~d.judges => \A x \in d.rows : ~Finishes(x) /\ x.table # "certificate"
        /\ cert \in d.rows => d.phase = "wrote" /\ Paper("pdf", cert) \in posted'
    BY <1>2, <2>1 DEF VisitJudges
  <2>5. ASSUME d.phase = "wrote", d.judges, ~visit'[o].overtaken
        PROVE  /\ cert \in d.rows => Finished(d.who, rows' \union d.rows)
               /\ Finished(d.who, rows' \union d.rows) => cert \in rows' \union d.rows
    <3>1. d.who # k /\ ~d.overtaken
      BY <2>1, <2>5
    <3>2. Finished(d.who, rows' \union d.rows) <=> Finished(d.who, rows \union d.rows)
      BY <1>4, <3>1
    <3>3. /\ cert \in d.rows => Finished(d.who, rows \union d.rows)
          /\ Finished(d.who, rows \union d.rows) => cert \in rows \union d.rows
      BY <2>1, <2>5, <3>1 DEF VisitJudges
    <3> QED
      BY <1>2, <3>2, <3>3
  <2>6. Finished(visit[o].who, rows \union visit[o].rows)' <=> Finished(d.who, rows' \union d.rows)
    BY <1>2, <2>2, FinishedSame DEF Finished
  <2> HIDE DEF cert
  <2> QED
    BY <2>2, <2>3, <2>4, <2>5, <2>6 DEF VisitJudges, Finishes, Paper
<1> QED
  BY <1>5, <1>6 DEF CertificatesInv

LEMMA CommitVisitKeeps ==
  ASSUME LearnersInv, ContentInv', NEW v \in Visits, CommitVisit(v)
  PROVE  LearnersInv'
BY CommitVisitFits, CommitVisitNumbers, CommitVisitCertificates DEF LearnersInv

(* Content that is added takes completion away, never gives it.            *)
LEMMA GrowthSurvives ==
  ASSUME ContentInv, ContentInv', Present \subseteq Present', NEW l \in Learners,
         NEW R \in SUBSET LearnerRows, IsFiniteSet(R),
         \A x \in R : x.at \in Present \union {Root},
         RulesHold(Lessons', Done(l, R), Quizzes', Passed(l, R, Quizzes'))
  PROVE  Finished(l, R)
<1> DEFINE D == Done(l, R)
           P == Passed(l, R, Quizzes')
<1>1. /\ Lessons \subseteq Lessons' /\ Quizzes \subseteq Quizzes'
      /\ \A x \in Present : (x \in Lessons <=> IsLesson(x)) /\ (x \in Quizzes' => x \in Quizzes)
  BY DEF Lessons, Quizzes, Blocks, IsLesson, IsBlock, IsChapter, Parent
<1>2. /\ IsFiniteSet(Lessons) /\ IsFiniteSet(Lessons') /\ IsFiniteSet(Quizzes)
      /\ IsFiniteSet(Quizzes')
  <2>1. IsFiniteSet(Lessons) /\ IsFiniteSet(Quizzes)
    BY ContentIsFinite
  <2>2. Lessons' \subseteq Row /\ Quizzes' \subseteq Row
    BY DEF ContentInv, ContentTypeOK, Lessons, Quizzes, Blocks, Row
  <2> QED
    BY <2>1, <2>2, FinitelyManyRows, FS_Subset
<1>3. \A x \in D : /\ x \in LearnerRows /\ x.who = l /\ x.at \in Lessons
                   /\ \A y \in D : x.at = y.at => x = y
  <2>1. \A x \in D : /\ x \in LearnerRows /\ x.table = "progress" /\ x.who = l
                     /\ x.at \in Present \union {Root}
    BY DEF Done
  <2>2. \A x \in D : x.at \in Row /\ IsLesson(x.at) /\ x.number = 0
    BY <2>1, RowFields
  <2>3. \A x \in D : x.at \in Lessons
    BY <1>1, <2>1, <2>2, RootIsNoRow
  <2>4. \A x, y \in D : x.at = y.at => x = y
    BY <2>1, <2>2, KeyFields, KeyDecides
  <2> QED
    BY <2>1, <2>3, <2>4
<1>4. IsFiniteSet(D) /\ Cardinality(D) <= Cardinality(Lessons)
  <2> HIDE DEF D
  <2> QED
    BY <1>2, <1>3, OnePlaceEach
<1>5. P = Passed(l, R, Quizzes) /\ P \subseteq Quizzes
  <2> SUFFICES ASSUME NEW b \in P PROVE b \in Quizzes
    BY <1>1 DEF Passed
  <2>1. PICK x \in R : x.table = "attempt" /\ x.at = b
    BY DEF Passed
  <2>2. x.at \in Row /\ x.at \in Present
    BY <2>1, RowFields, RootIsNoRow
  <2> QED
    BY <1>1, <2>1, <2>2 DEF Passed
<1>6. IsFiniteSet(P) /\ Cardinality(P) <= Cardinality(Quizzes)
  <2> HIDE DEF P
  <2> QED
    BY <1>2, <1>5, FS_Subset
<1>7. RulesHold(Lessons', D, Quizzes', P)
  OBVIOUS
<1> HIDE DEF D, P
<1>8. RulesHold(Lessons, D, Quizzes, P)
  BY <1>1, <1>2, <1>4, <1>6, <1>7, RulesSurvive
<1> QED
  BY <1>5, <1>8 DEF Finished, D

LEMMA CommitEditStates ==
  ASSUME ContentInv, JourneyInv, NEW r \in Requests, CommitEdit(r)
  PROVE  LET lost == Lost(r)
             new == DOMAIN edit[r].new
         IN  /\ ContentInv' /\ Present' = (Present \ lost) \union new /\ lost \subseteq Present
             /\ Settled \subseteq Settled' /\ new \intersect (Settled \union Present) = {}
             /\ rows' = {x \in rows : x.at \notin lost} /\ posted' = posted
             /\ \A v \in Wrote : Homes(visit[v]) \intersect lost = {}
             /\ visit' \in [Visits -> VisitStates]
             /\ \A v \in Visits : /\ SameWork(v)
                                  /\ visit[v].phase = "wrote" => visit'[v].overtaken
             /\ unseen' = (IF lost = {} THEN unseen ELSE Learners)
             /\ resume' = [l \in Learners |-> IF resume[l] \in lost THEN Root ELSE resume[l]]
<1> DEFINE lost == Lost(r)
           new == DOMAIN edit[r].new
           passed(o) == [visit[o] EXCEPT !.overtaken = TRUE]
<1>1. Commit(r)
  BY DEF CommitEdit
<1>2. /\ ContentInv' /\ Present' = (Present \ lost) \union new /\ lost \subseteq Present
      /\ Settled \subseteq Settled' /\ new \intersect (Settled \union Present) = {}
  <2>1. /\ ContentInv' /\ Settled' = Settled \union new
        /\ new \intersect Settled = {} /\ new \intersect Present = {}
    BY <1>1, CommitKeepsContent
  <2>2. Present' = (Present \ lost) \union new
    BY <1>1, CommitStates
  <2>3. lost \subseteq Present
    BY LostCloses
  <2> HIDE DEF lost, new
  <2> QED
    BY <2>1, <2>2, <2>3
<1>3. /\ rows' = {x \in rows : x.at \notin lost} /\ posted' = posted
      /\ \A v \in Wrote : Homes(visit[v]) \intersect lost = {}
      /\ unseen' = (IF lost = {} THEN unseen ELSE Learners)
      /\ resume' = [l \in Learners |-> IF resume[l] \in lost THEN Root ELSE resume[l]]
      /\ visit' = [v \in Visits |-> IF v \in Wrote THEN passed(v) ELSE visit[v]]
  BY DEF CommitEdit
<1>4. visit \in [Visits -> VisitStates]
  BY DEF JourneyInv, JourneyTypeOK
<1>5. ASSUME NEW o \in Visits
      PROVE  /\ passed(o) \in VisitStates /\ passed(o).who = visit[o].who
             /\ passed(o).phase = visit[o].phase /\ passed(o).rows = visit[o].rows
             /\ passed(o).at = visit[o].at /\ passed(o).report = visit[o].report
             /\ passed(o).judges = visit[o].judges /\ passed(o).overtaken = TRUE
  BY <1>4, OvertakenFields
<1> HIDE DEF passed
<1>6. visit' \in [Visits -> VisitStates]
  BY <1>3, <1>4, <1>5
<1>7. \A v \in Visits : /\ SameWork(v)
                        /\ visit[v].phase = "wrote" => visit'[v].overtaken
  <2> SUFFICES ASSUME NEW v \in Visits
               PROVE  SameWork(v) /\ (visit[v].phase = "wrote" => visit'[v].overtaken)
    OBVIOUS
  <2>1. CASE v \in Wrote
    <3>1. visit'[v] = passed(v)
      BY <1>3, <2>1
    <3> QED
      BY <1>5, <3>1 DEF SameWork
  <2>2. CASE v \notin Wrote
    <3>1. visit'[v] = visit[v] /\ visit[v].phase # "wrote"
      BY <1>3, <2>2 DEF Wrote
    <3> QED
      BY <3>1 DEF SameWork
  <2> QED
    BY <2>1, <2>2
<1> QED
  BY <1>2, <1>3, <1>6, <1>7

LEMMA CommitEditKeeps ==
  ASSUME LearnersInv, NEW r \in Requests, CommitEdit(r)
  PROVE  LearnersInv'
<1> DEFINE lost == Lost(r)
           new == DOMAIN edit[r].new
<1>1. /\ ContentInv /\ JourneyTypeOK /\ RowsFit /\ RowsNumbered /\ FinishedHaveCertificates
      /\ \A v \in Live : VisitFits(v) /\ VisitNumbered(v) /\ VisitJudges(v)
  BY DEF LearnersInv, JourneyInv, NumbersInv, CertificatesInv
<1>2. /\ ContentInv' /\ Present' = (Present \ lost) \union new /\ lost \subseteq Present
      /\ Settled \subseteq Settled' /\ new \intersect (Settled \union Present) = {}
      /\ rows' = {x \in rows : x.at \notin lost} /\ posted' = posted
      /\ \A v \in Wrote : Homes(visit[v]) \intersect lost = {}
      /\ visit' \in [Visits -> VisitStates]
      /\ \A v \in Visits : /\ SameWork(v)
                           /\ visit[v].phase = "wrote" => visit'[v].overtaken
      /\ unseen' = (IF lost = {} THEN unseen ELSE Learners)
      /\ resume' = [l \in Learners |-> IF resume[l] \in lost THEN Root ELSE resume[l]]
  BY CommitEditStates DEF LearnersInv, JourneyInv
<1> HIDE DEF lost, new
<1>3. Present \subseteq Row /\ Present' \subseteq Row /\ Root \notin Row
  BY <1>1, <1>2, RootIsNoRow DEF ContentInv, ContentTypeOK, Row
<1>4. RowsFit' /\ JourneyTypeOK'
  <2>1. IsFiniteSet(rows') /\ rows' \subseteq rows
    BY <1>1, <1>2, FS_Subset DEF RowsFit
  <2>2. \A x \in rows' : x.at \in Present' \union {Root}
    BY <1>1, <1>2 DEF RowsFit
  <2>3. ASSUME NEW l \in Learners PROVE resume'[l] \in Lessons' \union {Root}
    <3>1. resume[l] \in Lessons \union {Root}
      BY <1>1 DEF RowsFit
    <3>2. CASE resume[l] \in lost \/ resume[l] = Root
      BY <1>2, <3>2
    <3>3. CASE resume[l] \in Lessons \ lost
      BY <1>2, <3>3 DEF Lessons, IsLesson, IsChapter, Parent
    <3> QED
      BY <3>1, <3>2, <3>3
  <2>4. resume' \in [Learners -> Row \union {Root}] /\ unseen' \subseteq Learners
    BY <1>1, <1>2 DEF JourneyTypeOK
  <2> QED
    BY <1>1, <1>2, <2>1, <2>2, <2>3, <2>4 DEF RowsFit, JourneyTypeOK, Key
<1>5. ASSUME NEW v \in Live' PROVE v \in Live /\ VisitFits(v)'
  <2> DEFINE e == visit[v]
  <2>1. v \in Live /\ VisitFits(v) /\ SameWork(v)
    BY <1>1, <1>2 DEF Live, SameWork
  <2>2. /\ visit'[v].who = e.who /\ visit'[v].phase = e.phase /\ visit'[v].rows = e.rows
        /\ visit'[v].at = e.at /\ visit'[v].report = e.report
    BY <2>1 DEF SameWork
  <2>3. Homes(visit[v])' = Homes(e)
    BY <2>2 DEF Homes
  <2>4. Homes(e) \subseteq Settled' \union {Root}
    BY <1>2, <2>1 DEF VisitFits
  <2>5. e.phase = "wrote" => Homes(e) \subseteq Present' \union {Root}
    BY <1>2, <2>1 DEF VisitFits, Wrote, Live
  <2> QED
    BY <2>1, <2>2, <2>3, <2>4, <2>5 DEF VisitFits, IsLesson, IsChapter, Parent
<1>6. \A table, l, b : b \in Present \ lost =>
        Of(table, l, b)' = Of(table, l, b) /\ Count(table, l, b)' = Count(table, l, b)
  BY <1>2 DEF Of, Count
<1>7. \A table, l, b : b \in new => Of(table, l, b)' = {} /\ Count(table, l, b)' = 0
  <2> SUFFICES ASSUME NEW b \in new
               PROVE  \A table, l : Of(table, l, b)' = {} /\ Count(table, l, b)' = 0
    OBVIOUS
  <2>1. \A x \in rows' : x.at # b
    BY <1>1, <1>2, <1>3 DEF RowsFit
  <2> QED
    BY <2>1, FS_EmptySet DEF Of, Count
<1>8. RowsNumbered'
  <2>1. ASSUME NEW l \in Learners, NEW b \in Present', NEW table \in Numbered
        PROVE  {x.number : x \in Of(table, l, b)'} = 1 .. Count(table, l, b)'
    <3>1. CASE b \in Present \ lost
      BY <1>1, <1>6, <3>1 DEF RowsNumbered
    <3>2. CASE b \in new
      BY <1>7, <3>2
    <3> QED
      BY <1>2, <3>1, <3>2
  <2>2. ASSUME NEW x \in rows', x.table = "grade" PROVE Graded(x) \in rows'
    <3>1. x \in rows /\ x \in LearnerRows /\ Graded(x) \in rows
      BY <1>1, <1>2, <2>2 DEF RowsNumbered, JourneyTypeOK
    <3>2. Graded(x).at = x.at
      BY <3>1 DEF Graded, LearnerRows
    <3> QED
      BY <1>2, <3>1, <3>2
  <2> QED
    BY <1>1, <1>2, <2>1, <2>2 DEF RowsNumbered, Graded
<1>9. ASSUME NEW v \in Live' PROVE VisitNumbered(v)'
  <2> DEFINE e == visit[v]
  <2>1. /\ v \in Live /\ visit'[v].rows = e.rows /\ e \in VisitStates
        /\ VisitFits(v) /\ VisitNumbered(v)
    BY <1>1, <1>2, <1>5 DEF SameWork, JourneyTypeOK, Live
  <2>2. ASSUME NEW x \in e.rows
        PROVE  /\ x.table \in Numbered /\ x.at \in Present' =>
                    x.number \in 1 .. Count(x.table, x.who, x.at)' + 1
               /\ x.table = "submission" /\ x.at[1] \notin Resubmit => x.number = 1
               /\ x.table = "grade" /\ x.at \in Present' => Graded(x) \in rows'
    <3>1. x \in LearnerRows /\ x.at \in Settled \union {Root}
      BY <2>1 DEF VisitStates, VisitFits, Homes
    <3>2. x.at \in Present' => x.at \in Present \ lost
      BY <1>2, <1>3, <3>1
    <3>3. Graded(x).at = x.at
      BY <3>1 DEF Graded, LearnerRows
    <3> QED
      BY <1>2, <1>6, <2>1, <3>2, <3>3 DEF VisitNumbered
  <2> QED
    BY <2>1, <2>2 DEF VisitNumbered, Graded
<1>10. FinishedHaveCertificates'
  <2> SUFFICES ASSUME NEW l \in Learners,
                      RulesHold(Lessons', Done(l, rows'), Quizzes', Passed(l, rows', Quizzes'))
               PROVE  Certificate(l) \in rows' \/ l \in unseen'
    BY DEF FinishedHaveCertificates, Certificate, LearnerRow, Finished
  <2>1. CASE lost # {}
    BY <1>2, <2>1
  <2>2. CASE lost = {}
    <3>1. rows' = rows /\ Present \subseteq Present' /\ unseen' = unseen
      BY <1>2, <2>2
    <3>2. /\ rows \in SUBSET LearnerRows /\ IsFiniteSet(rows)
          /\ \A x \in rows : x.at \in Present \union {Root}
      BY <1>1 DEF RowsFit, JourneyTypeOK
    <3>3. Finished(l, rows)
      BY <1>1, <1>2, <3>1, <3>2, GrowthSurvives
    <3> QED
      BY <1>1, <3>1, <3>3 DEF FinishedHaveCertificates
  <2> QED
    BY <2>1, <2>2
<1>11. ASSUME NEW v \in Live' PROVE VisitJudges(v)'
  <2> DEFINE e == visit[v]
  <2>1. v \in Live /\ VisitJudges(v) /\ SameWork(v) /\ (e.phase = "wrote" => visit'[v].overtaken)
    BY <1>1, <1>2, <1>5 DEF Live
  <2>2. /\ visit'[v].who = e.who /\ visit'[v].phase = e.phase /\ visit'[v].rows = e.rows
        /\ visit'[v].judges = e.judges
    BY <2>1 DEF SameWork
  <2>3. Certificate(visit[v].who)' = Certificate(e.who)
    BY <2>2 DEF Certificate, LearnerRow
  <2>4. /\ ~e.judges => \A x \in e.rows : ~Finishes(x) /\ x.table # "certificate"
        /\ Certificate(e.who) \in e.rows =>
             e.phase = "wrote" /\ Paper("pdf", Certificate(e.who)) \in posted'
    BY <1>2, <2>1 DEF VisitJudges
  <2> QED
    BY <2>1, <2>2, <2>3, <2>4 DEF VisitJudges, Finishes, Paper
<1> QED
  BY <1>2, <1>4, <1>5, <1>8, <1>9, <1>10, <1>11
     DEF LearnersInv, JourneyInv, NumbersInv, CertificatesInv

-----------------------------------------------------------------------------
(* The learners' rows in every state                                       *)

LEMMA LearnersKeep ==
  ListsInv /\ LearnersInv /\ [Next]_vars => LearnersInv'
<1> SUFFICES ASSUME ListsInv, LearnersInv, [Next]_vars PROVE LearnersInv'
  OBVIOUS
<1>1. ContentInv' /\ JourneyInv
  BY ContentKeeps DEF ListsInv, LearnersInv
<1> QED
  BY <1>1, LearnerSteps, AsideKeeps, ArriveKeeps, WriteKeeps, CommitVisitKeeps,
     EndKeeps, CommitEditKeeps

JourneysInv == ListsInv /\ LearnersInv

LEMMA JourneysStart == Init => JourneysInv
BY ContentStarts, LearnersStart DEF Init, JourneysInv

LEMMA JourneysKeep == JourneysInv /\ [Next]_vars => JourneysInv'
BY ContentKeeps, LearnersKeep DEF JourneysInv

(* Every learner's row is a row of its table, below content that is there  *)
(* or was, and every request of a learner writes its own.                  *)
THEOREM JourneyTypes == Spec => []JourneyInv
<1>1. JourneysInv => JourneyInv
  BY DEF JourneysInv, LearnersInv
<1> QED
  BY <1>1, JourneysStart, JourneysKeep, PTL DEF Spec

-----------------------------------------------------------------------------
(* What learners are shown                                                 *)

LEMMA ListsHaveAFirst ==
  ASSUME ContentInv, NEW S \in SUBSET Present, S # {}
  PROVE  First(S) # {}
<1> DEFINE N == {order[x] : x \in S}
<1>1. \A x \in Present : order[x] \in Nat
  BY OrderOfRow DEF ContentInv, ContentTypeOK, Present
<1>2. N \in SUBSET Nat /\ N # {}
  BY <1>1
<1> HIDE DEF N
<1>3. PICK n \in N : \A m \in N : n <= m
  BY <1>2, HasLeast
<1> QED
  BY <1>3 DEF First, N

(* The lists of the chapters hold exactly the lessons of the course.       *)
LEMMA ChaptersHoldLessons ==
  ASSUME ContentInv
  PROVE  \A x : x \in Lessons <=> \E c \in Siblings(Root) : x \in Siblings(c)
<1>1. Present \subseteq Row /\ Rooted
  BY DEF ContentInv, ContentTypeOK
<1>2. ASSUME NEW x \in Lessons
      PROVE  Parent(x) \in Siblings(Root) /\ x \in Siblings(Parent(x))
  <2>1. x \in Present /\ x \in Row /\ IsLesson(x)
    BY <1>1 DEF Lessons
  <2>2. Parent(x) \in Row /\ IsChapter(Parent(x))
    BY <2>1, Levels
  <2>3. Parent(x) \in Present
    BY <1>1, <2>1, <2>2, RootIsNoRow DEF Rooted
  <2> QED
    BY <2>1, <2>2, <2>3 DEF Siblings, IsChapter
<1>3. ASSUME NEW c \in Siblings(Root), NEW x \in Siblings(c) PROVE x \in Lessons
  BY <1>1, <1>3, RootIsNoRow DEF Siblings, Lessons, IsLesson, IsChapter
<1> QED
  BY <1>2, <1>3

LEMMA PlayerOpensLesson ==
  ASSUME JourneyInv, NEW l \in Learners
  PROVE  GetPlayer(l) \subseteq Lessons /\ (GetPlayer(l) = {} <=> Lessons = {})
<1>1. ContentInv /\ resume[l] \in Lessons \union {Root}
  BY DEF JourneyInv, RowsFit
<1>2. CASE resume[l] # Root
  <2>1. GetPlayer(l) = {resume[l]}
    BY <1>2 DEF GetPlayer
  <2> QED
    BY <1>1, <1>2, <2>1
<1>3. CASE resume[l] = Root
  <2> DEFINE C == {c \in Siblings(Root) : Siblings(c) # {}}
  <2>1. GetPlayer(l) = UNION {First(Siblings(c)) : c \in First(C)}
    BY <1>3 DEF GetPlayer
  <2>2. \A S : First(S) \subseteq S
    BY DEF First
  <2>3. GetPlayer(l) \subseteq Lessons
    BY <1>1, <2>1, <2>2, ChaptersHoldLessons
  <2>4. ASSUME Lessons # {} PROVE GetPlayer(l) # {}
    <3>1. C # {} /\ C \in SUBSET Present
      BY <1>1, <2>4, ChaptersHoldLessons DEF Siblings
    <3> HIDE DEF C
    <3>2. PICK c \in First(C) : TRUE
      BY <1>1, <3>1, ListsHaveAFirst
    <3>3. Siblings(c) # {} /\ Siblings(c) \in SUBSET Present
      BY <2>2 DEF C, Siblings
    <3>4. First(Siblings(c)) # {}
      BY <1>1, <3>3, ListsHaveAFirst
    <3> QED
      BY <2>1, <3>2, <3>4
  <2> QED
    BY <2>3, <2>4
<1> QED
  BY <1>2, <1>3

LEMMA ShownIsCounted ==
  ASSUME JourneyInv, NEW l \in Learners
  PROVE  Holds(DefaultRule, l, rows) <=>
           /\ GetCourseProgress(l).total > 0
           /\ GetCourseProgress(l).done = GetCourseProgress(l).total
<1> DEFINE T == StructureWithProgress(l)
           D == Done(l, rows)
<1>1. /\ ContentInv /\ IsFiniteSet(Lessons) /\ rows \subseteq LearnerRows
      /\ \A x \in rows : x.at \in Present \union {Root}
  BY ContentIsFinite DEF JourneyInv, RowsFit, JourneyTypeOK
<1>2. T = {x \in Lessons : Progress(l, x) \in rows}
  BY <1>1, ChaptersHoldLessons DEF StructureWithProgress
<1>3. \A x \in D : /\ x \in LearnerRows /\ x \in rows /\ x.table = "progress" /\ x.who = l
                   /\ x.at \in Row /\ IsLesson(x.at) /\ x.number = 0 /\ x.won = FALSE
  BY <1>1, RowFields DEF Done
<1>4. ASSUME NEW x \in D PROVE x.at \in T /\ x = Progress(l, x.at)
  <2>1. x = [table |-> x.table, who |-> x.who, at |-> x.at, number |-> x.number, won |-> x.won]
    BY <1>3, RowFields
  <2>2. x = Progress(l, x.at)
    BY <1>3, <2>1 DEF Progress, LearnerRow
  <2>3. x.at \in Lessons
    BY <1>1, <1>3, RootIsNoRow DEF Lessons
  <2> QED
    BY <1>2, <1>3, <2>2, <2>3
<1>5. \A b \in T : Progress(l, b) \in D /\ Progress(l, b).at = b
  BY <1>2 DEF Done, Progress, LearnerRow
<1>6. IsFiniteSet(T)
  BY <1>1, <1>2, FS_Subset
<1> HIDE DEF T, D
<1>7. Cardinality(D) = Cardinality(T)
  BY <1>4, <1>5, <1>6, OnePlaceEach
<1>8. Holds(DefaultRule, l, rows) <=> Lessons # {} /\ Cardinality(D) = Cardinality(Lessons)
  BY DEF Holds, DefaultRule, Done, D
<1>9. Lessons # {} <=> Cardinality(Lessons) > 0
  BY <1>1, FS_EmptySet, FS_CardinalityType
<1>10. /\ GetCourseProgress(l).done = Cardinality(T)
       /\ GetCourseProgress(l).total = Cardinality(Lessons)
  BY DEF GetCourseProgress, T
<1> QED
  BY <1>7, <1>8, <1>9, <1>10

(* No row of a learner outlives its lesson or block, the player opens a    *)
(* lesson that is there, and the progress shown is what completion counts  *)
(* (progress.go, player.go, completion.go, the foreign keys).              *)
THEOREM RowsAreHoused == Spec => []LearnerRowsHoused
<1>1. JourneysInv => LearnerRowsHoused
  <2> SUFFICES ASSUME JourneysInv PROVE LearnerRowsHoused
    OBVIOUS
  <2>1. JourneyInv /\ \A x \in rows : x.at \in Present \union {Root}
    BY DEF JourneysInv, LearnersInv, JourneyInv, RowsFit
  <2> QED
    BY <2>1, PlayerOpensLesson, ShownIsCounted DEF LearnerRowsHoused
<1> QED
  BY <1>1, JourneysStart, JourneysKeep, PTL DEF Spec

-----------------------------------------------------------------------------
(* Numbers and certificates                                                *)

LEMMA GradesOfSubmissions ==
  ASSUME JourneyInv, NumbersInv, NEW l, NEW b
  PROVE  Count("grade", l, b) <= Count("submission", l, b)
<1> DEFINE S == Of("grade", l, b)
           T == Of("submission", l, b)
           f == [x \in S |-> Graded(x)]
<1>1. /\ IsFiniteSet(T) /\ Count("submission", l, b) = Cardinality(T)
      /\ Count("grade", l, b) = Cardinality(S)
  BY CountIsNat DEF JourneyInv, RowsFit
<1>2. ASSUME NEW x \in S
      PROVE  /\ Graded(x) \in T /\ Graded(x).number = x.number
             /\ Graded(x).won = x.won
  <2>1. x \in rows /\ x \in LearnerRows /\ x.table = "grade" /\ x.who = l /\ x.at = b
    BY DEF Of, JourneyInv, JourneyTypeOK
  <2>2. /\ Graded(x).table = "submission" /\ Graded(x).who = l /\ Graded(x).at = b
        /\ Graded(x).number = x.number /\ Graded(x).won = x.won
    BY <2>1 DEF Graded, LearnerRows
  <2>3. Graded(x) \in rows
    BY <2>1 DEF NumbersInv, RowsNumbered
  <2> QED
    BY <2>2, <2>3 DEF Of
<1>3. ASSUME NEW x \in S, NEW y \in S, Graded(x) = Graded(y) PROVE x = y
  <2>1. /\ x \in LearnerRows /\ y \in LearnerRows /\ x.table = y.table /\ x.who = y.who
        /\ x.at = y.at
    BY DEF Of, JourneyInv, JourneyTypeOK
  <2>2. x.number = y.number /\ x.won = y.won
    BY <1>2, <1>3
  <2> QED
    BY <2>1, <2>2, RowFields
<1> HIDE DEF S, T
<1>4. f \in Injection(S, T)
  BY <1>2, <1>3 DEF Injection, IsInjective
<1> HIDE DEF f
<1> QED
  BY <1>1, <1>4, FS_Injection

(* Attempts and submissions are numbered from 1 without a gap, one         *)
(* submission where no second is allowed, one grade for a submission       *)
(* (quiz.go, assignments.go: the counted number and its unique key).       *)
THEOREM NumbersWithoutGap == Spec => []NumbersInSequence
<1>1. JourneysInv => NumbersInSequence
  <2> SUFFICES ASSUME JourneysInv, NEW l \in Learners, NEW b \in Present
               PROVE  /\ \A table \in Numbered :
                           {x.number : x \in Of(table, l, b)} = 1 .. Count(table, l, b)
                      /\ b[1] \notin Resubmit => Count("submission", l, b) <= 1
                      /\ Count("grade", l, b) <= Count("submission", l, b)
    BY DEF NumbersInSequence, Numbered, Of
  <2>1. JourneyInv /\ NumbersInv
    BY DEF JourneysInv, LearnersInv
  <2>2. \A table \in Numbered : {x.number : x \in Of(table, l, b)} = 1 .. Count(table, l, b)
    BY <2>1 DEF NumbersInv, RowsNumbered
  <2>3. ASSUME b[1] \notin Resubmit PROVE Count("submission", l, b) <= 1
    <3> DEFINE n == Count("submission", l, b)
    <3>1. n \in Nat
      BY <2>1, CountIsNat DEF JourneyInv, RowsFit
    <3>2. \A i \in 1 .. n : \E x \in Of("submission", l, b) : x.number = i
      BY <2>2 DEF Numbered
    <3>3. \A x \in Of("submission", l, b) : x.number = 1
      BY <2>1, <2>3 DEF NumbersInv, RowsNumbered, Of
    <3> HIDE DEF n
    <3>4. n <= 1
      BY <3>1, <3>2, <3>3
    <3> QED
      BY <3>4 DEF n
  <2> QED
    BY <2>1, <2>2, <2>3, GradesOfSubmissions
<1> QED
  BY <1>1, JourneysStart, JourneysKeep, PTL DEF Spec

(* Who fulfils the rules has the certificate, but for the races that the   *)
(* property names (completion.go: EvaluateCompletion at the end of every   *)
(* request that can complete a course).                                    *)
THEOREM CertificatesFollowRules == Spec => []CertificateUnlessRace
<1>1. JourneysInv => CertificateUnlessRace
  BY CompleteIsFinished
     DEF JourneysInv, LearnersInv, CertificatesInv, FinishedHaveCertificates,
         CertificateUnlessRace, VerifyCertificate
<1> QED
  BY <1>1, JourneysStart, JourneysKeep, PTL DEF Spec

LEMMA StepsEarnCertificates ==
  ASSUME JourneysInv, [Next]_vars, NEW l \in Learners,
         ~VerifyCertificate(l), VerifyCertificate(l)'
  PROVE  /\ GetCourseCertificate(l)'
         /\ \/ Complete(l, rows)'
            \/ \E v \in Visits : /\ visit[v].overtaken /\ visit'[v].kind = "over"
                                 /\ Certificate(l) \in visit[v].rows
<1> DEFINE cert == Certificate(l)
<1>1. cert \notin rows /\ cert \in rows' /\ cert.who = l /\ cert.table = "certificate"
  BY DEF VerifyCertificate, Certificate, LearnerRow
<1>2. ListsInv /\ JourneyInv /\ \A v \in Live : VisitJudges(v)
  BY DEF JourneysInv, LearnersInv, CertificatesInv
<1>3. PICK v \in Visits : CommitVisit(v)
  BY <1>1, <1>2, LearnerSteps DEF Aside, Arrive, Write, Ends, CommitEdit
<1> DEFINE e == visit[v]
<1>4. /\ rows' = rows \union e.rows /\ posted' = posted /\ order' = order
      /\ e.phase = "wrote" /\ VisitFits(v) /\ VisitJudges(v) /\ e \in VisitStates
  BY <1>2, <1>3, CommitVisitStates DEF Live
<1>5. cert \in e.rows /\ e.who = l /\ e.judges
  BY <1>1, <1>4 DEF VisitFits, VisitJudges
<1>6. GetCourseCertificate(l)'
  BY <1>1, <1>4, <1>5 DEF GetCourseCertificate, VerifyCertificate, VisitJudges, Certificate,
                          LearnerRow, Paper
<1>7. CASE e.overtaken
  <2>1. visit'[v].kind = "over"
    BY <1>3, CalmIsState DEF CommitVisit, Calm
  <2> QED
    BY <1>5, <1>6, <1>7, <2>1
<1>8. CASE ~e.overtaken
  <2>1. Finished(l, rows \union e.rows)
    BY <1>4, <1>5, <1>8 DEF VisitJudges
  <2>2. Finished(l, rows)'
    BY <1>4, <2>1, FinishedSame DEF Finished
  <2>3. Complete(l, rows)' <=> Finished(l, rows)'
    BY DEF Complete, Holds, Finished, RulesHold, Done, Passed, Quizzes
  <2> QED
    BY <1>6, <2>2, <2>3
<1> QED
  BY <1>7, <1>8

(* A certificate goes to who fulfils the rules at that moment, but for a   *)
(* commit that came between; who can verify it can download it             *)
(* (completion.go: IssueCertificate; certificates.go).                     *)
THEOREM CertificatesAreEarned == Spec => CertificateEarned
<1>1. JourneysInv /\ [Next]_vars =>
        [\A l \in Learners :
           ~VerifyCertificate(l) /\ VerifyCertificate(l)' =>
              /\ GetCourseCertificate(l)'
              /\ \/ Complete(l, rows)'
                 \/ \E v \in Visits : /\ visit[v].overtaken /\ visit'[v].kind = "over"
                                      /\ Certificate(l) \in visit[v].rows]_vars
  BY StepsEarnCertificates
<1> QED
  BY <1>1, JourneysStart, JourneysKeep, PTL DEF Spec, CertificateEarned
=============================================================================
