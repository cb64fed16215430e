CONSTANTS
    AssertsEnabled = TRUE
    Params <- MCParams
    Calls <- MCCalls
    MaxScalingCalls = 2
INIT LInit
NEXT LNext
CHECK_DEADLOCK FALSE
INVARIANTS
    LTypeOK
    ScalingInfoOrder
    ReadsLocals
