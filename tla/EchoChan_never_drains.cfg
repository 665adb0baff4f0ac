SPECIFICATION FairSpec
CONSTANTS
    MsgNum = 2
    ClientQueue = 1
    N = 5
    MaxHandles = 1
    MaxFail = 0
    MayHangup = FALSE
    ReadAfterSend = TRUE
PROPERTY HandlerReturns
CHECK_DEADLOCK FALSE
