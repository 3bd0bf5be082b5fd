SPECIFICATION FairSpec
CONSTANTS
    NoEntry = NoEntry
    Targets = {sealed, clear}
    SealedTargets = {sealed}
    Main = Main
    Commands = {"run", "pulse", "ping", "bye"}
    ByeModes = {TRUE, FALSE}
    Retries = 2
    T1 = 1
    T2 = 2
    Noise = TRUE
    MaxCycles = 2
INVARIANTS
    TypeOK
    AnswersOwnHello
    ExitCodeTells
PROPERTIES
    StopsInTheEnd
CHECK_DEADLOCK FALSE
