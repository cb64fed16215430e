CONSTANTS
    Dim = 3
    Fields <- MCFields
    FieldDType <- MCFieldDType
    Comps <- MCComps
    MaxOffset = 2
    Calls <- MCCallsWide
    CudaBuilt = FALSE
    AssertsEnabled = FALSE
INIT Init
NEXT Next
CHECK_DEADLOCK FALSE
INVARIANT
    HaloWidthRejected
