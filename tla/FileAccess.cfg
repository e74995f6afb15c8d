SPECIFICATION Spec
CONSTANTS
  Procs = {1, 2}
  DataProcs = {1}
  Images <- MCImages
  First = "tool"
  Files <- MCFiles
  Accesses <- MCAccesses
  Configs <- MCConfigs
  InitialConfig = "open"
  Rules <- MCRules
  RulesIn <- MCRulesIn
  ReadsCap = 1
  ReadsProcs = 1
  IgnoreOtherESClients = TRUE
  PolicyCap = 1
  MaxDepth = 3
  MaxLogs = 1
  Window = 1
  MaxChanges = 2
  MaxAccesses = 2
  MaxInputs = 3
  Slow = {"data", "process"}
INVARIANTS AnswersJustified WatchKept TreesSound RateLimited
CHECK_DEADLOCK FALSE
