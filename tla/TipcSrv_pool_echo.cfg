\* closer3 and echo: a pooled channel closed by the datasink channel handler
\* leaves its id in closer3's pool; the id is reused for an echo channel and
\* closer3's bulk close then closes it, leaking its echo_chan_state.
CONSTANTS
    Handles = {h1, h2, h3, h4, h5, h6}
    NoHandle = NoHandle
    NULL = NULL
    SrvList <- SrvsPoolEcho
    MaxConns = 5
    MaxPending = 1
    MaxInq = 0
    MaxFaults = 0
    MaxAllocFail = 0
SPECIFICATION Spec
INVARIANT EchoStateAccounted
SYMMETRY HandleSymmetry
CHECK_DEADLOCK FALSE
