SPECIFICATION Spec
CONSTANTS
  Notes = {n1, n2}
  Requests = {r1, r2}
  Deliveries = {d1, d2, d3}
  MaxOpen = 3
  None = None
SYMMETRY Symmetry
INVARIANTS
  TypeOK
  QueuedHasPendingJob
  IssuedIsDocumented
  DocumentsAreBacked
  BatchAgreesWithJobs
  AttemptsAreAudited
  EveryWaitCanEnd
PROPERTY NothingForgotten
