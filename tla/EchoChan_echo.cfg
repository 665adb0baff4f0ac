SPECIFICATION FairSpec
CONSTANTS
    MsgNum = 3
    ClientQueue = 2
    N = 6
    MaxHandles = 1
    MaxFail = 1
    MayHangup = TRUE
    ReadAfterSend = FALSE
INVARIANT TypeOK
PROPERTY EchoRefines
PROPERTY HangupCloses
PROPERTY HandlerReturns
PROPERTY AllEchoed
CHECK_DEADLOCK FALSE
