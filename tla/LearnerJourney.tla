--------------------------- MODULE LearnerJourney ---------------------------
(***************************************************************************)
(* Learners at work in a published course whose content staff edit:        *)
(* enrolment, progress, quiz attempts, assignments and their grades, and   *)
(* the certificate, which the request that completes the course issues.    *)
(*                                                                         *)
(* A learner's request reads and decides, then writes its rows and judges  *)
(* completion, then commits: the writes of another request are seen only   *)
(* once they are committed.                                                *)
(***************************************************************************)
EXTENDS CourseContent

CONSTANTS
    Learners,
    Eligible,    \* learners who completed the prerequisites
    Visits,      \* bound: requests of learners and graders
    Rules,       \* the course's completion rules
    Short,       \* <<part, total>> whose float64 quotient times 100 falls short
    Resubmit     \* assignments that allow another submission

ASSUME JourneyAssumption ==
    /\ IsFiniteSet(Learners) /\ Eligible \subseteq Learners
    /\ Root \notin Learners
    /\ Resubmit \subseteq Names
    /\ \A rule \in Rules : rule.threshold \in Nat \ {0}

VARIABLES
    rows,       \* committed rows of the learner tables
    resume,     \* learner -> current lesson, Root when there is none
    watched,    \* <<learner, lesson>> whose last report reached the threshold
    posted,     \* uploads and e-mails, which no rollback takes back
    visit,      \* learners' requests: what their transaction has done so far
    unseen      \* ghost: learners whose completion no request could see

journeyVars == <<rows, resume, watched, posted, visit, unseen>>
vars == <<contentVars, journeyVars>>

-----------------------------------------------------------------------------
(* Rows, with the columns of their unique key; won is outside the key.     *)

LearnerRow(table, l, x, n, won) ==
    [table |-> table, who |-> l, at |-> x, number |-> n, won |-> won]

Access(l)           == LearnerRow("access", l, Root, 0, FALSE)
Progress(l, x)      == LearnerRow("progress", l, x, 0, FALSE)
Attempt(l, b, n, w) == LearnerRow("attempt", l, b, n, w)
Submission(l, b, n) == LearnerRow("submission", l, b, n, FALSE)
Grade(s)            == [s EXCEPT !.table = "grade"]
Certificate(l)      == LearnerRow("certificate", l, Root, 0, FALSE)

Key(x) == [x EXCEPT !.won = FALSE]
Keys(S) == {Key(x) : x \in S}
Unique(S) == {x \in S : x.table # "progress"}   \* progress is upserted

Count(table, l, b) == Cardinality({x \in rows : x.table = table /\ x.who = l /\ x.at = b})

Lessons == {x \in Present : IsLesson(x)}
Blocks(type) == {x \in Present : IsBlock(x) /\ TypeOf[x[1]] = type}

-----------------------------------------------------------------------------
(* Completion                                                              *)

\* 29 of 100 come out below 29 per cent; up to 39 rows nothing does.
PercentOf(part, total, threshold) ==
    /\ total > 0 /\ part * 100 >= threshold * total
    /\ part * 100 = threshold * total => <<part, total>> \notin Short

Holds(rule, l, R) ==
    LET done   == {x \in R : x.table = "progress" /\ x.who = l}
        passed == {b \in Blocks("quiz") :
                     \E x \in R : x.table = "attempt" /\ x.who = l /\ x.at = b /\ x.won}
        of(part, all) ==
            IF rule.type \in {"all_lessons", "all_quizzes"}
            THEN all # {} /\ Cardinality(part) = Cardinality(all)
            ELSE PercentOf(Cardinality(part), Cardinality(all), rule.threshold)
    IN  IF rule.type \in {"all_lessons", "percent_lessons"}
        THEN of(done, Lessons) ELSE of(passed, Blocks("quiz"))

\* EvaluateCompletion: every rule, all lessons when there is none.
DefaultRule == [type |-> "all_lessons", threshold |-> 100]
Complete(l, R) ==
    \A rule \in IF Rules = {} THEN {DefaultRule} ELSE Rules : Holds(rule, l, R)

-----------------------------------------------------------------------------
(* A request reads: what it will write                                     *)

Calm == [kind |-> "idle", who |-> Root, phase |-> "none", rows |-> {}, at |-> {},
         report |-> {}, judges |-> FALSE, overtaken |-> FALSE]

Arrive(v, handler, l, e) ==
    /\ handler \in team
    /\ visit[v].kind = "idle"
    /\ visit' = [visit EXCEPT ![v] = [e EXCEPT !.kind = handler, !.who = l,
                                                !.phase = "read"]]
    /\ UNCHANGED <<contentVars, rows, resume, watched, posted, unseen>>

\* RequireEntitlement: a row of access to the course.
Entitled == {l \in Learners : Access(l) \in rows}

EnrollCourse(v) ==
    \E l \in Eligible \ Entitled :
        Arrive(v, "EnrollCourse", l, [Calm EXCEPT !.rows = {Access(l)}])

ResumeLesson(v) ==
    \E l \in Entitled, x \in Lessons :
        Arrive(v, "ResumeLesson", l, [Calm EXCEPT !.at = {x}])

LessonPlayerPage(v) ==
    \E l \in Entitled, x \in Lessons :
        Arrive(v, "LessonPlayerPage", l, [Calm EXCEPT !.at = {x}])

ReportLessonProgress(v) ==
    \E l \in Entitled, x \in Lessons, enough \in BOOLEAN :
        Arrive(v, "ReportLessonProgress", l,
               [Calm EXCEPT !.report = {<<x, enough>>}, !.judges = enough,
                            !.rows = IF enough THEN {Progress(l, x)} ELSE {}])

\* mutant: the lesson is marked without a look at the course
CompleteLessonUnjudged(v) ==
    \E l \in Entitled, x \in Lessons :
        Arrive(v, "CompleteLesson", l, [Calm EXCEPT !.rows = {Progress(l, x)}])

CompleteLesson(v) ==
    \E l \in Entitled, x \in Lessons :
        Arrive(v, "CompleteLesson", l,
               [Calm EXCEPT !.rows = {Progress(l, x)}, !.judges = TRUE])

\* A quiz without questions is refused; a passed one completes its lesson.
SubmitQuiz(v) ==
    \E l \in Entitled, b \in Blocks("quiz") \intersect ready, passed \in BOOLEAN :
        Arrive(v, "SubmitQuiz", l,
               [Calm EXCEPT
                  !.rows = {Attempt(l, b, Count("attempt", l, b) + 1, passed)}
                             \union IF passed THEN {Progress(l, Parent(b))} ELSE {},
                  !.judges = passed])

File(l, b) == [what |-> "file", row |-> Submission(l, b, 0)]
UploadAssignmentSubmission ==
    \E l \in Entitled, b \in Blocks("assignment") :
        /\ "SubmitAssignment" \in team /\ File(l, b) \notin posted
        /\ posted' = posted \union {File(l, b)}
        /\ UNCHANGED <<contentVars, rows, resume, watched, visit, unseen>>

SubmitAssignment(v) ==
    \E l \in Entitled, b \in Blocks("assignment") :
        LET n == Count("submission", l, b)
        IN  /\ n = 0 \/ b[1] \in Resubmit
            /\ File(l, b) \in posted
            /\ Arrive(v, "SubmitAssignment", l,
                      [Calm EXCEPT !.rows = {Submission(l, b, n + 1), Progress(l, Parent(b))},
                                   !.judges = TRUE])

\* Whatever grade the submission may have already: its key decides.
GradeSubmission(v) ==
    \E s \in {x \in rows : x.table = "submission"} :
        Arrive(v, "GradeSubmission", s.who, [Calm EXCEPT !.rows = {Grade(s)}])

-----------------------------------------------------------------------------
(* It writes, judges completion, and ends                                  *)

Wrote == {v \in Visits : visit[v].phase = "wrote"}

\* Rows it hangs its own on, which a deletion may have taken away.
Homes(e) == {x.at : x \in e.rows} \union e.at \union {w[1] : w \in e.report}

\* mutant: no unique constraint
ClashesNever(e) == FALSE

Clashes(e) == Keys(Unique(e.rows)) \intersect Keys(rows) # {}

\* mutant: no foreign key
MayWriteUnhoused(e) ==
    \A o \in Wrote : Keys(visit[o].rows) \intersect Keys(e.rows) = {}

\* It waits for a row another open request wrote under the same key.
MayWrite(e) ==
    /\ \A o \in Wrote : Keys(visit[o].rows) \intersect Keys(e.rows) = {}
    /\ Homes(e) \subseteq Present \union {Root}
    /\ ~Clashes(e)

Paper(what, x) == [what |-> what, row |-> x]

\* mutant: the rules are not asked
EarnsUnruled(e) == e.judges /\ Certificate(e.who) \notin rows

Earns(e) == /\ e.judges /\ Certificate(e.who) \notin rows
            /\ Complete(e.who, rows \union e.rows)

Write(v) ==
    LET e == visit[v]
        earned == IF Earns(e) THEN {Certificate(e.who)} ELSE {}
        news == earned \union {x \in e.rows : x.table = "grade"}
    IN  /\ e.phase = "read" /\ MayWrite(e)
        /\ visit' = [visit EXCEPT ![v].phase = "wrote", ![v].rows = e.rows \union earned]
        /\ \E mails \in {{}, news} :      \* a queue that is down is only logged
              posted' = posted \union {Paper("pdf", x) : x \in earned}
                               \union {Paper("mail", x) : x \in mails}
        /\ UNCHANGED <<contentVars, rows, resume, watched, unseen>>

CommitVisit(v) ==
    LET e == visit[v]
    IN  /\ e.phase = "wrote" /\ ~Clashes(e)
        /\ rows' = rows \union e.rows
        /\ resume' = [resume EXCEPT ![e.who] = IF e.at = {} THEN @ ELSE CHOOSE x \in e.at : TRUE]
        /\ watched' = (watched \ {<<e.who, w[1]>> : w \in e.report})
                        \union {<<e.who, w[1]>> : w \in {u \in e.report : u[2]}}
        /\ visit' = [o \in Visits |->
                       IF o = v THEN [Calm EXCEPT !.kind = "over"]
                       ELSE IF o \in Wrote /\ visit[o].who = e.who
                            THEN [visit[o] EXCEPT !.overtaken = TRUE] ELSE visit[o]]
        /\ unseen' = IF ~e.judges THEN unseen
                     ELSE IF e.overtaken THEN unseen \union {e.who} ELSE unseen \ {e.who}
        /\ UNCHANGED <<contentVars, posted>>

\* Nothing of its transaction is kept.
Ends(v, how) ==
    /\ visit[v].phase \in {"read", "wrote"}
    /\ visit' = [visit EXCEPT ![v] = [Calm EXCEPT !.kind = how]]
    /\ UNCHANGED <<contentVars, rows, resume, watched, posted, unseen>>

\* A lost block, a taken number or certificate, storage that is down: the
\* answer is an error.
FailVisit(v) == Ends(v, "over")

\* The last statement is the ignored insertion of an analytics event: when it
\* fails the answer is 2xx, and the commit of the aborted transaction fails.
LoseVisit(v) ==
    /\ visit[v].phase = "wrote"
    /\ \/ visit[v].kind \in {"EnrollCourse", "CompleteLesson"}
       \/ \E x \in visit[v].rows : x.table = "certificate"
    /\ Ends(v, "lost")

-----------------------------------------------------------------------------
(* Staff requests, with what their end does to the learners' rows          *)

CommitEdit(r) ==
    LET lost == Lost(r)
    IN  /\ \A v \in Wrote : Homes(visit[v]) \intersect lost = {}
        /\ Commit(r)
        /\ rows' = {x \in rows : x.at \notin lost}
        /\ resume' = [l \in Learners |-> IF resume[l] \in lost THEN Root ELSE resume[l]]
        /\ watched' = {w \in watched : w[2] \notin lost}
        /\ visit' = [v \in Visits |->
                       IF v \in Wrote THEN [visit[v] EXCEPT !.overtaken = TRUE] ELSE visit[v]]
        /\ unseen' = IF lost = {} THEN unseen ELSE Learners
        /\ UNCHANGED posted

Edit(r) == (Request(r) \/ Fail(r)) /\ UNCHANGED journeyVars

Visit(v) ==
    \/ EnrollCourse(v) \/ ResumeLesson(v) \/ LessonPlayerPage(v)
    \/ ReportLessonProgress(v) \/ CompleteLesson(v) \/ SubmitQuiz(v)
    \/ SubmitAssignment(v) \/ GradeSubmission(v)
    \/ Write(v) \/ CommitVisit(v) \/ FailVisit(v) \/ LoseVisit(v)

Init ==
    /\ ContentInit
    /\ \E S \in SUBSET Eligible : rows = {Access(l) : l \in Learners \ S}
    /\ resume = [l \in Learners |-> Root]
    /\ watched = {} /\ posted = {} /\ unseen = {}
    /\ visit = [v \in Visits |-> Calm]

Next ==
    \/ \E r \in Requests : Edit(r) \/ CommitEdit(r)
    \/ \E v \in Visits : Visit(v)
    \/ UploadAssignmentSubmission

Spec == Init /\ [][Next]_vars

-----------------------------------------------------------------------------
(* What a learner is shown                                                 *)

\* The lessons of the list of every chapter that the learner has completed.
StructureWithProgress(l) ==
    {x \in UNION {Siblings(c) : c \in Siblings(Root)} : Progress(l, x) \in rows}

GetCourseProgress(l) ==
    [done  |-> Cardinality(StructureWithProgress(l)), total |-> Cardinality(Lessons)]

First(S) == {x \in S : \A y \in S : order[x] <= order[y]}

\* The lesson resumed last, or a first one of the first chapter that has any.
GetPlayer(l) ==
    IF resume[l] # Root THEN {resume[l]}
    ELSE UNION {First(Siblings(c)) : c \in First({c \in Siblings(Root) : Siblings(c) # {}})}

\* The public page, and the learner's download.
VerifyCertificate(l) == Certificate(l) \in rows
GetCourseCertificate(l) == VerifyCertificate(l) /\ Paper("pdf", Certificate(l)) \in posted

-----------------------------------------------------------------------------
(* Properties                                                              *)

Updates == {"UpdateChapter", "UpdateLesson", "UpdateBlock"}
Restores == {"RestoreVersion", "CourseEditorRestoreVersion"}

\* Among the rows that nobody else placed since it began, a request leaves what
\* it would leave alone: equal orders only where the list had them, it was asked
\* for one, or a version holds them, and none after a reorder; and after a
\* restore no other chapters than those of the version.
ListsInTurn ==
    [][\A r \in Requests : Commit(r) =>
          LET e == edit[r]
              mine == Present' \ e.since
              inOrder(p) == e.kind \in Reorders /\ p \in e.lists
          IN  /\ \A x, y \in mine :
                    x # y /\ Parent(x) = Parent(y) /\ order'[x] = order'[y] =>
                       \/ Parent(x) \in e.tied /\ ~inOrder(Parent(x))
                       \/ e.kind \in Updates /\ {x, y} \intersect DOMAIN e.set # {}
                       \/ {x, y} \subseteq DOMAIN e.new
              /\ e.kind \in Restores =>
                    {x \in mine : IsChapter(x)} \subseteq DOMAIN e.new]_vars

\* No row of a learner outlives the lesson or block it is about, although the
\* request that writes it found the lesson before the deletion: the player
\* opens a lesson that is there, and what the learner is shown as finished is
\* what completion counts, by course, as finished.
LearnerRowsHoused ==
    /\ \A x \in rows : x.at \in Present \union {Root}
    /\ \A l \in Learners :
          /\ GetPlayer(l) \subseteq Lessons /\ (GetPlayer(l) = {} <=> Lessons = {})
          /\ LET shown == GetCourseProgress(l)
             IN  Holds(DefaultRule, l, rows) <=> shown.total > 0 /\ shown.done = shown.total

\* Attempts and submissions are numbered from 1 without a gap, an assignment
\* that allows no resubmission has one, and a submission one grade.
NumbersInSequence ==
    \A l \in Learners, b \in Present :
        /\ \A table \in {"attempt", "submission"} :
              {x.number : x \in {y \in rows : y.table = table /\ y.who = l /\ y.at = b}}
                  = 1 .. Count(table, l, b)
        /\ b[1] \notin Resubmit => Count("submission", l, b) <= 1
        /\ Count("grade", l, b) <= Count("submission", l, b)

\* A certificate goes to a learner who fulfils the rules at that moment,
\* unless another commit came between the judgement and its own; and whoever
\* can verify it, its learner can download it.
CertificateEarned ==
    [][\A l \in Learners :
          ~VerifyCertificate(l) /\ VerifyCertificate(l)' =>
              /\ GetCourseCertificate(l)'
              /\ \/ Complete(l, rows)'
                 \/ \E v \in Visits : /\ visit[v].overtaken /\ visit'[v].kind = "over"
                                      /\ Certificate(l) \in visit[v].rows]_vars

\* Who fulfils the rules has the certificate, unless two requests completed
\* the course together and neither saw the other, or a deletion by staff
\* completed it.
CertificateUnlessRace ==
    \A l \in Learners : Complete(l, rows) => VerifyCertificate(l) \/ l \in unseen
=============================================================================
