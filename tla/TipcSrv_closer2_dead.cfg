\* closer2 alone, with one calloc failure: is a service whose restart
\* failed ever brought back?
CONSTANTS
    Handles = {h1, h2}
    NoHandle = NoHandle
    NULL = NULL
    SrvList <- SrvsCloser2
    MaxConns = 2
    MaxPending = 1
    MaxInq = 0
    MaxFaults = 0
    MaxAllocFail = 1
SPECIFICATION Spec
PROPERTY ServiceRestored
CHECK_DEADLOCK FALSE
