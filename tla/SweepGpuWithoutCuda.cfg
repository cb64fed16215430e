CONSTANTS
    AssertsEnabled = TRUE
    Calls <- MCCalls

INIT SInit
NEXT SNext

\* a call ends: written, returned or raised
CHECK_DEADLOCK FALSE

INVARIANT
    GpuWithoutCudaFatal
