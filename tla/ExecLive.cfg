SPECIFICATION FairSpec
CONSTANTS
    Symbols = {s1}
    Orders = {o1, o2}
    None = None
    MaxConcurrent = 1
    MaxPerTick = 1
    FreshCap = 1
    MaxBackouts = 1
    FailLimit = 1
    AutoApprove = TRUE
    FlattenOnBreach = TRUE
    Faults = {"read_fails", "emit_fails", "midnight"}
INVARIANTS TypeOK
PROPERTIES ArmedResolves BenchHolds
