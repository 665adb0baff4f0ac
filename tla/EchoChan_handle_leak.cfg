SPECIFICATION Spec
CONSTANTS
    MsgNum = 2
    ClientQueue = 1
    N = 3
    MaxHandles = 1
    MaxFail = 0
    MayHangup = TRUE
    ReadAfterSend = FALSE
INVARIANT NoHandleLeak
CHECK_DEADLOCK FALSE
