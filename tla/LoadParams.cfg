SPECIFICATION FairSpec
CONSTANTS
    Params <- MCParams
    NoParam = NoParam
    Null = Null
    Unknown = Unknown
    StackMax = 2
    Inputs <- MCInputs
INVARIANTS OnceAfterDeps LoadsNextDoor
PROPERTIES
    Ends
CHECK_DEADLOCK FALSE
