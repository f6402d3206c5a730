SPECIFICATION Spec
CONSTANTS
  DaySeconds = 2
  Days = 2
  WeekDays = 3
  MaxShown = 2
INVARIANTS TypeOK ReadIsAMoment SetTakes
