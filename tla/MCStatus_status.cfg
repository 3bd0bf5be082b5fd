\* Two processes come and go under two pids and share a state path; two `status`
\* commands ask at once.  Where there is no /proc every live process passes the check.
SPECIFICATION FairSpec
CONSTANTS
    NoEntry = NoEntry
    Pids = {p1, p2}
    NumPaths = 1
    Requests = {r1, r2}
    MaxPolls = 1
    MaxStarts = 2
    MaxDumps = 2
    Kinds = {"server", "foreign"}
    HasProc = FALSE
INVARIANTS
    TypeOK
    PublishedWhole
    NoticedIsFresh
PROPERTIES
    SignalAnswered
CHECK_DEADLOCK FALSE
