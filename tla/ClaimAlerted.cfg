SPECIFICATION Spec
CONSTANTS
    ScanLimit = 2
    MaxRisks = 3
    MaxQuestions = 1
    MaxStarts = 1
    NoticeFaults = {{}}
CHECK_DEADLOCK FALSE
PROPERTIES AllAlerted
