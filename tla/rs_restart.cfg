SPECIFICATION Spec
CONSTANTS
    MsgLimit <- OneEach
    MsgSize <- Sizes
    MaxWindow = 3
    AppCap = 1
    SocketCap = 1
    MaxConns = 3
    MaxBreaks = 1
    MaxIds = 4
    MayCancel = {}
    MayDropReceiver = {}
    MayDropSender = {}
    MayRestart = {"client", "server"}
    MayFailAccept = FALSE
INVARIANT DeliveredInOrder
INVARIANT NothingLost
INVARIANT NoProtocolError
INVARIANT StreamInv
PROPERTY LinkSpec
CHECK_DEADLOCK FALSE
