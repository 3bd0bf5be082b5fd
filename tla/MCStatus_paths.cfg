\* The safety properties with two candidate paths: two processes come and go under
\* two pids, two `status` commands probe the paths.
SPECIFICATION Spec
CONSTANTS
    NoEntry = NoEntry
    Pids = {p1, p2}
    NumPaths = 2
    Requests = {r1, r2}
    MaxPolls = 1
    MaxStarts = 2
    MaxDumps = 2
    Kinds = {"server", "foreign"}
    HasProc = TRUE
SYMMETRY Symmetry
INVARIANTS
    TypeOK
    PublishedWhole
    NoticedIsFresh
CHECK_DEADLOCK FALSE
