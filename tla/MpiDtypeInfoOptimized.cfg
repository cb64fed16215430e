CONSTANTS
    Dim = 2
    MaxOffset = 2
    AssertsEnabled = FALSE
    Fields <- MCFields
    Rank <- MCRank
    Comps <- MCComps
    Kernels <- MCKernels

INIT MInit
NEXT MNext

\* a call ends, in "done" or "error"
CHECK_DEADLOCK FALSE

INVARIANTS
    HeaderComplete
