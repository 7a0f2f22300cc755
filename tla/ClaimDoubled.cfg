SPECIFICATION Spec
CONSTANTS
    Symbols = {s1}
    Orders = {o1, o2}
    None = None
    MaxConcurrent = 1
    MaxPerTick = 1
    FreshCap = 0
    MaxBackouts = 2
    FailLimit = 1
    AutoApprove = TRUE
    FlattenOnBreach = TRUE
    Faults = {"cancel_fails"}
SYMMETRY Symmetry
INVARIANTS OneLiveEntryPerSymbol
