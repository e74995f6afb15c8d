SPECIFICATION FairSpec
CONSTANTS
  Callers = {"c1", "c2"}
  Servers = {"pinned", "other"}
  Pinned = {"pinned"}
  MaxRequests = 2
  MaxChanges = 2
  None = None
INVARIANTS SessionsTracked AuditComplete RevokedMeansOver
PROPERTIES SessionsEndUnlessStuck
CHECK_DEADLOCK FALSE
