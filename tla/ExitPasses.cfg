SPECIFICATION Spec
CONSTANTS
    Symbols = {s1}
    None = None
    MaxPrice = 4
    Entry = 3
    BracketStop = 2
    Floor = 1
    Grace = 2
    SyntheticTrail = TRUE
    FirstRed = TRUE
    ScaleOut = TRUE
    MaxPositions = 2
    FaultSets = {{"calls_fail"}, {"late_legs"}, {"calls_fail", "strip", "late_legs"},
                 {"orders_fail", "calls_fail", "strip", "late_legs"}}
INVARIANTS TypeOK ProtectionKept
PROPERTIES FlattensWhatItSaw StopOnlyRises GraceKept
