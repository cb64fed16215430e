CONSTANTS
    AssertsEnabled = TRUE
    Params <- MCParams
    Calls <- MCCalls
    MaxScalingCalls = 2
INIT LInit
NEXT LNext
CHECK_DEADLOCK FALSE
INVARIANT
    LiteralsTyped
