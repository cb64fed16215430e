CONSTANTS
    Dim = 3
    Fields <- MCFields
    FieldDType <- MCFieldDType
    Comps <- MCComps
    MaxOffset = 2
    Calls <- MCCalls
    CudaBuilt = FALSE
    AssertsEnabled = TRUE
INIT Init
NEXT Next
CHECK_DEADLOCK FALSE
INVARIANTS
    TypeOK
    PackSpecClosedForm
