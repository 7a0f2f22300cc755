SPECIFICATION RulesSpec
CONSTANTS
    Entry = 10
    InitStop = 6
    Configs <- AllRules
    Bars <- SmallBars
    MaxBars = 3
    Shapes <- SomeShapes
    MaxTape = 5
    K <- SomeK
    Settings <- SomeSettings
    Contexts <- SomeContexts
    Floors <- SomeFloors
    Tape <- SomeTape
    Shares = {1, 2}
    MaxFills = 3
    MaxMinute = 2
    MaxBackfills = 2
INVARIANTS StopsAgree ExitsBounded 
PROPERTIES SetupsSound NoLookAhead OneTradeAtATime
CHECK_DEADLOCK FALSE
