\* Ids in every spelling, added and edited.
SPECIFICATION Spec
CONSTANTS
    NoEntry = NoEntry
    Ids = {d1, d2}
    PublicKeys = {k1, k2}
    Spellings = {"plain", "upper", "padded", "newline"}
    LeaseLimit = 1
    PacketLimit = 1
    ParamLimit = 1
    Numbers = {0, 2}
    Commands = {m1}
    MaxChanges = 3
SYMMETRY Symmetry
INVARIANTS
    LookupsUnambiguous
