\* datasink alone, two channels: one peer hangs up while the other keeps
\* sending.  Does the hung-up channel get closed?  Three handle ids: the
\* port and two channels.  No symmetry, as this run checks a liveness
\* property.
CONSTANTS
    Handles = {h1, h2, h3}
    NoHandle = NoHandle
    NULL = NULL
    SrvList <- SrvsDatasink
    MaxConns = 2
    MaxPending = 1
    MaxInq = 1
    MaxFaults = 0
    MaxAllocFail = 0
SPECIFICATION Spec
PROPERTY DatasinkHangupClosed
CHECK_DEADLOCK FALSE
