\* A server added in the default mode to a client set up without encryption.
SPECIFICATION Spec
CONSTANTS
    NoEntry = NoEntry
    Labels = {main, other}
    Primary = main
    LenLimit = 1
    Intervals = {1}
    Numbers = {0, 2}
    Commands = {k1}
    MaxChanges = 2
SYMMETRY Symmetry
INVARIANTS
    AddedIsSealed
