SPECIFICATION LogSpec
CONSTANTS
    ascii = ascii
    czech = czech
    split = split
    Events = {ascii, czech, split}
    Text <- Mixed
    MaxAppends = 5
    MaxTorn = 3
INVARIANTS
    ReadsWhatWasAppended
    HoleOnlyAtEnd
CHECK_DEADLOCK FALSE
