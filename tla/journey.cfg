SPECIFICATION Spec
CONSTANTS
  c1 = c1  c2 = c2  c3 = c3  c4 = c4
  x1 = x1  x2 = x2  x3 = x3
  quiz = quiz  task = task  text = text
  Names <- MCNames
  ParentOf <- MCParentOf
  TypeOf <- MCTypeOf
  Initial <- MCInitial
  Version <- MCVersion
  Root = root
  Original = original
  Requests = {r1, r2}
  Unit = 2
  MaxOrder = 2
  Learners = {ann}
  Eligible = {ann}
  Visits = {v1, v2, v3}
  Rules <- LessonsAndQuizzes
  Short = {}
  Resubmit = {}
  Handlers <- Teams
SYMMETRY Symmetric
INVARIANTS LearnerRowsHoused NumbersInSequence CertificateUnlessRace
PROPERTIES ListsInTurn CertificateEarned
CHECK_DEADLOCK FALSE
