\* Two sources, two handlers, every threshold within reach of the packets received.
SPECIFICATION Spec
CONSTANTS
    NoEntry = NoEntry
    IPs = {ip1, ip2}
    Tasks = {t1, t2}
    MaxInflight = 2
    MaxTracked = 2
    HelloMax = 1
    HelloWindow = 2
    MaxFaulty = 1
    BlockTime = 2
    AttackThreshold = 1
    RejectionThreshold = 1
    AttackWindow = 2
    ActiveTtl = 2
    MaxClock = 4
    MaxPackets = 4
SYMMETRY Symmetry
INVARIANTS
    TypeOK
    RateBounded
    OnlyFaultyBlocked
PROPERTIES
    LockdownHasCause
    BlockRunsOut
