SPECIFICATION Spec
CONSTANTS
    MaxDepth = 6
    EventTypes <- SomeTypes
    Files <- SomeFiles
    Programs <- SomePrograms
    RegexMatches <- SomeMatches
    PrefixFilters <- SomeFilters
    Masks <- SomeMasks
    IgnoreOtherESClients = TRUE
    MaxEvents = 2
    MaxEvaluations = 1
    MaxChanges = 2
INVARIANTS MessagesOwned EventsCounted StaleAnswersGo RecordsJustified
CHECK_DEADLOCK FALSE
