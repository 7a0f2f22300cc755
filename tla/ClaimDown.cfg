SPECIFICATION Spec
CONSTANTS
    Symbols = {s1}
    MaxLots = 2
    MaxSyncs = 3
    FaultSets = {{"crash"}}
CHECK_DEADLOCK FALSE
INVARIANTS DownCloseJournaled
