SPECIFICATION FairSpec
CONSTANTS
    Symbols = {s1}
    None = None
    MaxPrice = 4
    Entry = 3
    BracketStop = 2
    Floor = 1
    Grace = 2
    SyntheticTrail = TRUE
    FirstRed = FALSE
    ScaleOut = FALSE
    MaxPositions = 2
    FaultSets = {{"strip", "late_legs"}}
PROPERTIES NakedResolved
