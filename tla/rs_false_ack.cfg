SPECIFICATION Spec
CONSTANTS
    MsgLimit <- OneEach
    MsgSize <- Sizes
    MaxWindow = 3
    AppCap = 1
    SocketCap = 1
    MaxConns = 3
    MaxBreaks = 0
    MaxIds = 3
    MayCancel = {}
    MayDropReceiver = {}
    MayDropSender = {}
    MayRestart = {"client"}
    MayFailAccept = FALSE
INVARIANT AckedWasDelivered
CHECK_DEADLOCK FALSE
