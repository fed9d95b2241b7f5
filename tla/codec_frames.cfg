SPECIFICATION Spec
CONSTANTS
    LenMod = 33
    Sizes = {0, 19, 20}
    MaxMsgs = 2
    MaxAcks = 1
    MaxBreaks = 1
INVARIANT TypeOK
INVARIANT CodecInv
INVARIANT DecodedIsGiven
INVARIANT NothingHeldBack
INVARIANT NeverFails
CHECK_DEADLOCK FALSE
