\* Commands that overlap, edits of every item; numbers below and above every limit.
SPECIFICATION Spec
CONSTANTS
    NoEntry = NoEntry
    Ids = {d1, d2}
    PublicKeys = {k1, k2}
    Spellings = {"plain", "upper", "padded", "newline"}
    LeaseLimit = 1
    PacketLimit = 1
    ParamLimit = 1
    Numbers = {0, 2}
    Commands = {m1, m2}
    MaxChanges = 3
SYMMETRY Symmetry
PROPERTIES
    AddedIsServed
    AuthorizedIsServed
