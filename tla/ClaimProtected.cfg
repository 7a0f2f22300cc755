SPECIFICATION Spec
CONSTANTS
    Symbols = {s1}
    None = None
    MaxPrice = 4
    Entry = 3
    BracketStop = 2
    Floor = 1
    Grace = 2
    SyntheticTrail = FALSE
    FirstRed = FALSE
    ScaleOut = FALSE
    MaxPositions = 1
    FaultSets = {{"orders_fail"}}
PROPERTIES ProtectedKept
