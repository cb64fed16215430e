CONSTANTS
    Dim = 2
    Fields <- MCFields
    FieldDType <- MCFieldDType
    Comps <- MCComps
    MaxOffset = 1
    Calls <- MCCalls
    CudaBuilt = FALSE
    AssertsEnabled = TRUE
    N = 2
    Stale = Stale
SPECIFICATION HSpec
CHECK_DEADLOCK FALSE
INVARIANTS
    HTypeOK
    GhostNeverWrong
PROPERTIES
    HaloEventuallyCurrent
