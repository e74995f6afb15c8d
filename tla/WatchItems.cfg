SPECIFICATION WatchFairSpec
CONSTANTS
  d1 = d1
  d2 = d2
  pol = pol
  f1 = f1
  bad = bad
  empty = empty
  p1 = p1
  p2 = p2
  Configs <- MCConfigs
  DbConfigs = {d1, d2}
  EmptyRules = empty
  Policies = {pol}
  FileConfigs = {f1, bad}
  Invalid = {bad}
  Paths = {p1, p2}
  PathsOf <- MCPathsOf
  ProcConfigs = {d1, pol}
  Writers = {sync}
  MaxChanges = 2
  Nil = Nil
INVARIANTS ClientsMatch DatabaseWins
PROPERTIES RulesSettle
