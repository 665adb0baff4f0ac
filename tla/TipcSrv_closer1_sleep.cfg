\* closer1 next to datasink: after k accepted connections, has closer1
\* slept ceil(k/2) times, as the spec says?  Three handle ids: two ports
\* and one datasink channel fill the table, so an accept of closer1 fails.
CONSTANTS
    Handles = {h1, h2, h3}
    NoHandle = NoHandle
    NULL = NULL
    SrvList <- SrvsCloser1
    MaxConns = 3
    MaxPending = 1
    MaxInq = 0
    MaxFaults = 0
    MaxAllocFail = 0
SPECIFICATION Spec
INVARIANT Closer1SleepsEveryOther
CHECK_DEADLOCK FALSE
