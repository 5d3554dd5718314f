SPECIFICATION FairSpec
CONSTANTS
  Notes = {n1, n2}
  Requests = {r1, r2}
  Deliveries = {d1, d2}
  MaxOpen = 2
  None = None
PROPERTY EveryTransactionEnds
