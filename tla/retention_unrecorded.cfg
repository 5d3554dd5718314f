SPECIFICATION Spec
CONSTANTS
  Archives = {a1, a2}
  Scheduler = Scheduler
  Manual = {m1}
  ColdAfter = 1
  DeleteAfter = 2
  YearLength = 2
  LeapDay = 1
  LeapYears = {1}
  MaxOpen = 1
  MaxTime = 6
  MaxFailures = 1
INVARIANT OutcomeIsRecorded
