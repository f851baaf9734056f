\* The year 0000, which the parser accepts.
CONSTANTS
  Texts <- YearZero
  Tested = {}
  Windows = {}
SPECIFICATION Spec
CHECK_DEADLOCK FALSE
INVARIANT WeekdayIsGregorian
