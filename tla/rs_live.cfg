SPECIFICATION FairSpec
CONSTANTS
    MsgLimit <- TwoUp
    MsgSize <- Sizes
    MaxWindow = 1
    AppCap = 1
    SocketCap = 1
    MaxConns = 2
    MaxBreaks = 1
    MaxIds = 2
    MayCancel = {"client", "server"}
    MayDropReceiver = {}
    MayDropSender = {"client"}
    MayRestart = {}
    MayFailAccept = FALSE
PROPERTY EventuallyAcked
PROPERTY CancelledStops
CHECK_DEADLOCK FALSE
