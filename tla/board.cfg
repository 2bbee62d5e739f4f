CONSTANTS
  x = x  y = y  a = a  b = b
  Elements = {x, y}
  Values = {a, b}
  Absent = Absent
  Nothing = Nothing
  Seeds <- TemplateOrBlank
  Slots = {s1, s2}
  MaxOps = 3
  MaxFaults = 2

SPECIFICATION BoardFairSpec
INVARIANTS SavedUnlessMishap
PROPERTIES OthersUntouched ChangesAreFlushed
CHECK_DEADLOCK FALSE
