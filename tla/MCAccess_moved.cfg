\* A client that roams between two IPs within its lease and its cooldown.
SPECIFICATION Spec
CONSTANTS
    NoEntry = NoEntry
    Clients = {c1}
    IPs = {ip1, ip2}
    Params = {}
    Intervals = {1}
    Tasks = {t1}
    Scans = {s1}
    GraceMultiplier = 2
    LeaseMax = 2
    MaxEntries = 1
    MaxConcurrent = 1
    Cooldown = 2
    RevokeModes = {TRUE}
    Horizon = 2
    MaxAnswers = 2
    MaxRestarts = 0
INVARIANTS
    LeasedIpGranted
