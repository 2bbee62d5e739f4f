-------------------------- MODULE MCLearnerJourney --------------------------
(* A course of a full and an empty chapter; the full one has a lesson with   *)
(* a quiz and an assignment and an empty lesson. An older version of it has  *)
(* the first lesson and its quiz only.                                       *)
EXTENDS LearnerJourney, TLC

CONSTANTS c1, c2, c3, c4, x1, x2, x3, quiz, task, text

MCNames == {c1, c2, c3, c4, x1, x2, x3, quiz, task, text}
MCParentOf ==
    [n \in MCNames |-> CASE n \in {c1, c2, c3, c4} -> Root
                         [] n \in {x1, x2} -> c1 [] n = x3 -> c2
                         [] n \in {quiz, task} -> x1 [] n = text -> x2]
MCTypeOf == [n \in {quiz, task, text} |->
               IF n = quiz THEN "quiz" ELSE IF n = task THEN "assignment" ELSE "text"]
MCInitial == [n \in {c1, c2, x1, x2, quiz, task} |-> IF n \in {c2, x2, task} THEN 4 ELSE 2]
MCVersion == [n \in {c1, x1, quiz} |-> 2]

LessonsAndQuizzes ==
    {[type |-> "percent_lessons", threshold |-> 100], [type |-> "percent_quizzes", threshold |-> 50]}

\* Requests of a kind may trade places.
Symmetric == Permutations(Requests) \cup Permutations(Visits)

\* Which handlers run together in a behaviour: those of staff, those of learners
\* and graders, and each way to remove content with learners at work in it.
Staff == {"CreateChapter", "CreateLesson", "CreateBlock", "CourseEditorCreateChapter",
          "CourseEditorCreateLesson", "CourseEditorCreateBlock", "UpdateChapter", "UpdateLesson",
          "UpdateBlock", "AutosaveBlock", "CourseEditorAutosaveBlock", "DeleteChapter",
          "DeleteLesson", "DeleteBlock", "ReorderChapters", "ReorderLessons", "ReorderBlocks",
          "CourseEditorMoveChapter", "RestoreVersion", "CourseEditorRestoreVersion"}
Learning == {"EnrollCourse", "ResumeLesson", "LessonPlayerPage", "ReportLessonProgress",
             "CompleteLesson", "SubmitQuiz", "SubmitAssignment", "GradeSubmission"}
Removals == {"DeleteLesson", "DeleteBlock", "CourseEditorRestoreVersion"}
Teams == {Staff, Learning, Removals \union {"CompleteLesson", "SubmitQuiz"},
          Removals \union {"SubmitAssignment", "ResumeLesson"}}
=============================================================================
