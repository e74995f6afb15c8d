SPECIFICATION Spec
CONSTANTS
    Keys <- SomeKeys
    Profiles <- SomeProfiles
    Events = {e1}
    EnableCleanSyncEventUpload = FALSE
    MaxDisturbances = 2
    MaxPending = 0
INVARIANTS PermitsConserved EventsKept CleaningKept RestartKeepsSettings
PROPERTIES EventsArrive
CHECK_DEADLOCK FALSE
