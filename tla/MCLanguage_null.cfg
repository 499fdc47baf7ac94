CONSTANTS
    MaxNesting = 5
    Sources <- SomeSources
    Custom <- SomeOperators
    Half = 8
    NameValue <- Least
    Contracts <- NullInBothWays
    Nesting <- DepthInBothWays
    CallValues <- SomeValues
    Slots <- MoreSlots
    Functions <- SomeFunctions
    Arguments <- SomeArguments
    Results <- SomeResults
    Keys = {k1, k2}
    Values = {v1, v2, v3}
    Conforming = {v1, v2}
    None = None
    Mixed = FALSE
    Reentrant = FALSE
    Replace = TRUE
    MaxMaps = 2
    MaxReads = 2
SPECIFICATION LanguageSpec
INVARIANT SlotCallsBind
CHECK_DEADLOCK FALSE
