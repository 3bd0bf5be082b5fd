\* Duplicates of two HELLOs (one of a client that is not configured) in two
\* concurrent tasks, over a clock that runs past both skew windows.
SPECIFICATION Spec
CONSTANTS
    I64Max = 1000
    NoEntry = NoEntry
    ClientIds = {c1, stranger}
    Configured = {c1}
    Endpoints = {e1}
    HelloNonces = {h1}
    Nonces = {n1, n2}
    Bodies = {b1}
    BadBodies = {}
    HelloTasks = {t1, t2}
    AnswerTasks = {}
    Skew = 1
    NonceTtl = 1
    MaxClock = 5
    MaxAnswers = 0
    StepBack = FALSE
    Cleartext = FALSE
SYMMETRY TaskNonceSymmetry
INVARIANTS
    HelloSingleUse
    ChallengeOnlyValidHello
