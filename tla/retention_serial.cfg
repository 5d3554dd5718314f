SPECIFICATION Spec
CONSTANTS
  Archives = {a1, a2}
  Scheduler = Scheduler
  Manual = {m1, m2}
  ColdAfter = 1
  DeleteAfter = 2
  YearLength = 2
  LeapDay = 1
  LeapYears = {1}
  MaxOpen = 1
  MaxTime = 8
  MaxFailures = 1
SYMMETRY Symmetry
INVARIANT AuditTellsHistory
PROPERTY ImplementsContract
