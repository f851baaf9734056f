\* Every date of a 400-year cycle; every hour of a week against the windows.
CONSTANTS
  Texts <- MCTexts
  Tested <- Week
  Windows <- MCWindows
SPECIFICATION Spec
CHECK_DEADLOCK FALSE
INVARIANT TypeOK
INVARIANT AcceptsTheCalendar
INVARIANT WeekdayIsGregorian
INVARIANT ActiveFromStartToEnd
