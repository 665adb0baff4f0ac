\* datasink alone: every datasink channel whose peer hangs up is closed,
\* once the peers stop sending, although each drain holds the dispatcher;
\* and a datasink channel is closed with messages unread only when the
\* kernel failed it.  Four handle ids: the port and three channels open at
\* once; two messages queued per channel, so a hangup can come mid-drain.
\* No symmetry, as this run checks a liveness property.
CONSTANTS
    Handles = {h1, h2, h3, h4}
    NoHandle = NoHandle
    NULL = NULL
    SrvList <- SrvsDatasink
    MaxConns = 3
    MaxPending = 1
    MaxInq = 2
    MaxFaults = 1
    MaxAllocFail = 0
SPECIFICATION QuietSpec
PROPERTY DatasinkHangupClosed
PROPERTY DatasinkRetiresAll
CHECK_DEADLOCK FALSE
