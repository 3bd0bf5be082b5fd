\* Two clients on two IPs, one restart, which leaves running hooks behind, with and
\* without a revoke hook; leases that end are drained, released or lost.
SPECIFICATION FairSpec
CONSTANTS
    NoEntry = NoEntry
    Clients = {c1, c2}
    IPs = {ip1, ip2}
    Params = {}
    Intervals = {1}
    Tasks = {t1}
    Scans = {s1}
    GraceMultiplier = 1
    LeaseMax = 1
    MaxEntries = 2
    MaxConcurrent = 1
    Cooldown = 0
    RevokeModes = {TRUE, FALSE}
    Horizon = 1
    MaxAnswers = 3
    MaxRestarts = 1
PROPERTIES
    EventuallyAllRevoked
    IpClientsExact
    KeepsLedger
