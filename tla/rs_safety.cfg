SPECIFICATION Spec
CONSTANTS
    MsgLimit <- ThreeAndOne
    MsgSize <- Sizes
    MaxWindow = 3
    AppCap = 1
    SocketCap = 1
    MaxConns = 3
    MaxBreaks = 2
    MaxIds = 2
    MayCancel = {}
    MayDropReceiver = {"server"}
    MayDropSender = {"client"}
    MayRestart = {}
    MayFailAccept = TRUE
INVARIANT TypeOK
INVARIANT DeliveredInOrder
INVARIANT NothingLost
INVARIANT AckedWasDelivered
INVARIANT WindowBound
INVARIANT NoProtocolError
INVARIANT StreamIsWhole
PROPERTY LinkSpec
CHECK_DEADLOCK FALSE
