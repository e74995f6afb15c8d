SPECIFICATION TreeSpec
CONSTANTS
  W = 1
  MaxProcs = 3
  MaxEvents = 4
INVARIANTS TokensRetain
CHECK_DEADLOCK FALSE
