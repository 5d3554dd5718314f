SPECIFICATION Spec
CONSTANTS
  Calls = {c1, c2, c3}
  Emails = {e1, e2, e3}
  Registered = {e1, e2}
  Documents = {d1, d2}
  AccessLife = 1
  RefreshLife = 2
  MaxOpen = 3
  MaxTime = 2
SYMMETRY Symmetry
INVARIANTS
  TypeOK
  KeysAreUnique
  CompanyHasOwner
  TokensHaveUsers
PROPERTIES
  GrantedByAdmin
  CallsAreAuthenticated
  ImplementsContract
CHECK_DEADLOCK FALSE
