CONSTANTS
    MaxNesting = 5
    Sources <- SomeSources
    Custom <- SomeOperators
    Half = 8
    NameValue <- Least
    Contracts <- NullOmitted
    Nesting <- DepthOmitted
    CallValues <- SomeValues
    Slots <- SomeSlots
    Functions <- SomeFunctions
    Arguments <- SomeArguments
    Results <- SomeResults
    Keys = {k1, k2}
    Values = {v1, v2, v3}
    Conforming = {v1, v2}
    None = None
    Mixed = FALSE
    Reentrant = FALSE
    Replace = TRUE
    MaxMaps = 2
    MaxReads = 2
    A = A
    B = B
    Nowhere = Nowhere
    Names <- TypeNames
    Layouts <- LayoutsOf
    EnumNames <- Enums
    FieldNames <- MemberNames
    MaxDefinitions = 3
    MaxInstances = 3
    MaxPending = 1
SPECIFICATION ProgramSpec
INVARIANTS
    BracesFindTheirContext
    TreesFollowPrecedence
    FoldingKeepsMeaning
    ArithmeticWraps
    SlotCallsBind
    SlotResultsFit
    ArgumentsAreUsed
    ReadsAgree
    FieldsConform
    LookupsEnd
    ReceiversFit
PROPERTIES
    StatementsFindTheirContext
    DefaultsAreMadeOnce
    FailuresStoreNothing
CHECK_DEADLOCK FALSE
