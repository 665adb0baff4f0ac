\* closer1, closer2, datasink, echo, connect: restarts, port errors,
\* calloc failures; six handle ids, one per port and one spare.
CONSTANTS
    Handles = {h1, h2, h3, h4, h5, h6}
    NoHandle = NoHandle
    NULL = NULL
    SrvList <- SrvsChurn
    MaxConns = 4
    MaxPending = 1
    MaxInq = 1
    MaxFaults = 1
    MaxAllocFail = 1
SPECIFICATION Spec
INVARIANT StartupRollback
INVARIANT RegistryConsistent
INVARIANT EchoStateAccounted
CHECK_DEADLOCK FALSE
SYMMETRY HandleSymmetry
