\* Commands that overlap, edits of every field; numbers below and above every limit.
SPECIFICATION Spec
CONSTANTS
    NoEntry = NoEntry
    Labels = {main, other}
    Primary = main
    LenLimit = 1
    Intervals = {1}
    Numbers = {0, 2}
    Commands = {k1, k2}
    MaxChanges = 4
SYMMETRY Symmetry
INVARIANTS
    TargetsUsable
    LoadedResolves
PROPERTIES
    AddedAsAsked
