\* One cycle of two attempts under every pair of configurations, with altered datagrams.
\* The longest sealed RESPONSE, of 13 bytes, exceeds the packet limit.
SPECIFICATION Spec
CONSTANTS
    NoEntry = NoEntry
    Me = Me
    MAGIC = MAGIC
    Cipher = Cipher
    Junk = Junk
    Secrets = {s1, s2}
    Params <- TextsToSend
    EarlierParams <- TextsStored
    ParamLimits = {1, 2}
    PacketLimits = {12}
    Overhead = 2
    ReplyOverhead = 1
    LenMod = 5
    MaxAttempts = 2
    MaxNonces = 2
    MaxAltered = 1
SYMMETRY Symmetry
INVARIANTS
    TypeOK
    OneEncoding
    AcceptedAsBuilt
    OwnTrafficFaultless
    ParamReachesHook
    ReplyIsForHello
CHECK_DEADLOCK FALSE
