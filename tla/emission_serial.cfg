SPECIFICATION Spec
CONSTANTS
  Notes = {n1, n2, n3}
  Requests = {r1, r2, r3}
  Deliveries = {d1, d2, d3}
  MaxOpen = 1
  None = None
SYMMETRY Symmetry
INVARIANTS
  IssuedOnce
  OneFateEach
PROPERTIES
  FinalBatchIsKept
  ImplementsContract
