SPECIFICATION Spec
CONSTANTS
  Binaries = {bin}
  SigningIDs = {sid}
  TeamIDs = {}
  LaunchdCerts = {}
  IdsOf <- MCSignedIds
  Adders = {sync}
  FromSantactl = {}
  SyncEnabled = TRUE
  Closers = {c1}
  Batches <- MCBatches
  Cleanups <- MCTwoCleanups
  StaticRuleSets <- MCStaticSets
  FlushThreshold = 2
  UnknownAllowed = FALSE
  Standalone = TRUE
INVARIANTS HashCurrent CachedAllowsJustified
