\* The documented re-check before the revoke of an expired lease.
SPECIFICATION Spec
CONSTANTS
    NoEntry = NoEntry
    Clients = {c1}
    IPs = {ip1}
    Params = {}
    Intervals = {1}
    Tasks = {t1}
    Scans = {s1}
    GraceMultiplier = 1
    LeaseMax = 1
    MaxEntries = 1
    MaxConcurrent = 1
    Cooldown = 0
    RevokeModes = {TRUE}
    Horizon = 2
    MaxAnswers = 2
    MaxRestarts = 0
PROPERTIES
    RevokeRechecksLease
