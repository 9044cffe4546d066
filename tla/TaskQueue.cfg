SPECIFICATION FairSpec
CONSTANTS
    first = first
    second = second
    single = single
    c1 = c1
    c2 = c2
    Tasks = {first, second, single}
    Clients = {c1, c2}
    Calls <- ChainAndSingle
    None = None
    MaxCalls = 2
    MaxDirect = 1
    MaxFaults = 1
INVARIANTS
    NoDuplicateItems
    NothingVanishes
    RunsInOrder
    BuildsOnBase
PROPERTIES
    PassEnds
    IndependentLeaves
