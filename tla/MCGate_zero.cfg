\* The blacklist trigger set to 0, the rejection trigger on.
SPECIFICATION Spec
CONSTANTS
    NoEntry = NoEntry
    IPs = {ip1, ip2}
    Tasks = {t1, t2}
    MaxInflight = 2
    MaxTracked = 2
    HelloMax = 1
    HelloWindow = 2
    MaxFaulty = 1
    BlockTime = 2
    AttackThreshold = 0
    RejectionThreshold = 2
    AttackWindow = 2
    ActiveTtl = 2
    MaxClock = 2
    MaxPackets = 3
SYMMETRY Symmetry
INVARIANTS
    ZeroDisablesTrigger
