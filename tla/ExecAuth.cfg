SPECIFICATION FairSpec
CONSTANTS
  Execs = {"e1", "e2"}
  Files = {"f"}
  FileOf <- OneFile
  RootFiles = {}
  LongPaths = {"e2"}
  Unreadable = {"e2"}
  Targets = {"e1"}
  Slow = {"e1"}
  Probed = {"e1"}
  CelAllows = {"e1"}
  ByESClients = {"e2"}
  IgnoreOtherESClients = TRUE
  FailClosed = FALSE
  HasPidSuspend = TRUE
  Changes = {1, 2}
  Starts <- ThreeStarts
  None = None
INVARIANTS EntriesOwned HeldUntilApproved FreshUnlessRaced ESCachesPlainAllows
PROPERTIES HandlersReturn
