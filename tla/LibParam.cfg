SPECIFICATION Spec
CONSTANTS
    Null = Null
    Slots = 3
    OneLetter = {"d", "e"}
    Setups <- MCSetups
INVARIANTS
    InstancesAsMeant
    UnparseReadsBack
    KeepsTables
PROPERTIES
    SpecsUntouched
CHECK_DEADLOCK FALSE
