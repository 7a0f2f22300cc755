SPECIFICATION LiveSpec
CONSTANTS
    Symbols = {s1, s2}
    Days = 3
    Open = 1
    Early = 3
    Full = 4
    NormalLead = 1
    PreLead = 2
    MaxEntries = 2
    MaxBoots = 2
    MaxErrors = 1
    None = None
    Ranges = {2}
    MaxPrice = 2
    MaxArmed = 1
    MaxAge = 1
    MaxArms = 3
    Revisable = FALSE
    Threads = {t1, t2}
    MaxRetries = 1
    TTL = 1
    MaxTime = 1
    MaxChanges = 2
    MaxWrites = 1
    FaultSets = {{"server", "timeout"}, {"rate", "connect", "timeout"}}
    MaxOrders = 6
    MaxLegs = 1
    SameTime = TRUE
    Limit = 2
    MaxPages = 4
SYMMETRY Symmetry
CHECK_DEADLOCK FALSE
INVARIANTS Types FlatInTime DoneLeavesNone  ReadsTrue WritesOnce HistoryWhole
PROPERTIES ExitsInSession TodayKept PinnedStays
