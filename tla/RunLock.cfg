SPECIFICATION FairSpec
CONSTANTS
    None = None
    Missing = Missing
    Empty = Empty
    Procs = {p1, p2, p3}
    Pids = {i1, i2, i3}
INVARIANTS
    MutualExclusion
    FileNamesHolder
PROPERTIES
    AttemptsDecided
