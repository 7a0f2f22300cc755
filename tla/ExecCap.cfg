SPECIFICATION Spec
CONSTANTS
    Symbols = {s1, s2}
    Orders = {o1, o2, o3}
    None = None
    MaxConcurrent = 2
    MaxPerTick = 2
    FreshCap = 1
    MaxBackouts = 2
    FailLimit = 1
    AutoApprove = TRUE
    FlattenOnBreach = TRUE
    Faults = {}
SYMMETRY Symmetry
INVARIANTS CountWithinCap OpenIsTracked FlatAfterClose
