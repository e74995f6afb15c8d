SPECIFICATION TreeSpec
CONSTANTS
  W = 2
  MaxProcs = 4
  MaxEvents = 6
INVARIANTS WindowKept OriginatorInherited
CHECK_DEADLOCK FALSE
