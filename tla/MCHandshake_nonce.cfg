\* One client answers a nonce twice (a RESPONSE, a BYE, any body) while two tasks
\* handle duplicates and the clock steps both ways.
SPECIFICATION Spec
CONSTANTS
    I64Max = 2
    NoEntry = NoEntry
    ClientIds = {c1}
    Configured = {c1}
    Endpoints = {e1, e2}
    HelloNonces = {h1}
    Nonces = {n1}
    Bodies = {b1, bad}
    BadBodies = {bad}
    HelloTasks = {t1}
    AnswerTasks = {u1, u2}
    Skew = 1
    NonceTtl = 1
    MaxClock = 2
    MaxAnswers = 2
    StepBack = TRUE
    Cleartext = FALSE
SYMMETRY FullSymmetry
INVARIANTS
    TypeOK
    NonceSingleUse
    BurntBySignerOnly
    AcceptedIsAuthentic
PROPERTIES
    ImplementsContract
