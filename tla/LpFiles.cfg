SPECIFICATION LpFairSpec
CONSTANTS
    None = None
    MaxInputFiles = 3
    Setups <- MCSetups
INVARIANTS ScannerInStep ReadsAsAsked UnparseRecreates
PROPERTIES
    LoadsEnd
CHECK_DEADLOCK FALSE
