\* A base timeout of 0, allowed without a command, and an added server with a command.
SPECIFICATION Spec
CONSTANTS
    NoEntry = NoEntry
    Labels = {main, other}
    Primary = main
    LenLimit = 1
    Intervals = {1}
    Numbers = {0, 2}
    Commands = {k1}
    MaxChanges = 4
SYMMETRY Symmetry
INVARIANTS
    CommandHasTimeout
