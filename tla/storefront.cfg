SPECIFICATION Spec
CONSTANTS
  basic = basic
  swe = swe
  Offers = {basic}
  CourseOf <- MCCourseOf
  Names = {ten}
  Tokens = {t1}
  Learners = {ann, bob}
  Orders = {x1, x2}
  Currencies = {"INR", "USD"}
  OfferRequests <- MCOfferRequests
  CodeRequests <- MCCodeRequests
  CommissionPercent = 10
  None = none
  Handlers <- Teams
  LastTime = 1
  MaxCaptures = 2
SYMMETRY Symmetric
INVARIANTS TokenAdmitsOne SeatsSoldInTurn CodesInTurn SharesAddUp
CHECK_DEADLOCK FALSE
