SPECIFICATION FairSpec
CONSTANTS
  Batchers = {"any", "zstd"}
  Threshold = 2
  Leniency = 3
  MaxSpool = 1
  Cluster = 1
  MaxRecords = 3
  MaxFailures = 1
  MaxFiles = 2
  MaxBytes = 3
  MaxExports = 2
INVARIANTS LossIsOneBatch SpoolBounded ExportedBeforeRemoved
PROPERTIES ExportEnds RecordsLeave
CHECK_DEADLOCK FALSE
