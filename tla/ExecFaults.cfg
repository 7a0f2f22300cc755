SPECIFICATION Spec
CONSTANTS
    Symbols = {s1}
    Orders = {o1, o2}
    None = None
    MaxConcurrent = 1
    MaxPerTick = 1
    FreshCap = 0
    MaxBackouts = 1
    FailLimit = 1
    AutoApprove = FALSE
    FlattenOnBreach = TRUE
    Faults = {"cancel_fails", "submit_lost", "restart"}
SYMMETRY Symmetry
INVARIANTS OneEntryPerSymbol
PROPERTIES ImplementsLifecycle
