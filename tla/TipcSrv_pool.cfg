\* closer3's pool of 4 with connect and uuid; channels pooled by closer3
\* run the datasink channel handler.  Seven handle ids: three ports and a
\* full pool, with one id to spare for reuse.
CONSTANTS
    Handles = {h1, h2, h3, h4, h5, h6}
    NoHandle = NoHandle
    NULL = NULL
    SrvList <- SrvsPool
    MaxConns = 5
    MaxPending = 1
    MaxInq = 1
    MaxFaults = 1
    MaxAllocFail = 1
SPECIFICATION Spec
INVARIANT TypeOK
SYMMETRY HandleSymmetry
CHECK_DEADLOCK FALSE
