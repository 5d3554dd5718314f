SPECIFICATION FairSpec
CONSTANTS
  Tabs = {t1, t2}
  Users = {u1, u2}
  None = None
  MaxLogins = 2
  MaxCompanies = 1
  MaxLoads = 3
INVARIANTS TypeOK StoredIsLatest LogoutSticks
PROPERTIES BootstrapEnds LoneLoadAgrees
CHECK_DEADLOCK FALSE
