\* Two clients that compete for one lease slot, two answers and two lease scans in
\* flight, intervals below and above the clamp, a cooldown that outlives a lease.
SPECIFICATION Spec
CONSTANTS
    NoEntry = NoEntry
    Clients = {c1, c2}
    IPs = {ip1}
    Params = {}
    Intervals = {0, 5}
    Tasks = {t1, t2}
    Scans = {s1, s2}
    GraceMultiplier = 1
    LeaseMax = 1
    MaxEntries = 1
    MaxConcurrent = 1
    Cooldown = 2
    RevokeModes = {TRUE}
    Horizon = 2
    MaxAnswers = 3
    MaxRestarts = 0
SYMMETRY Symmetry
INVARIANTS
    TypeOK
    SessionAsksGrant
    LeaseCap
    LeaseBounded
