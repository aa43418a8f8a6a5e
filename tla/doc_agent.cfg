SPECIFICATION Spec
CONSTANTS
    NSections = 2
    MaxSections = 3
    MaxOuter = 2
    MaxInner = 2
    MaxRounds = 2
INVARIANTS CancelRestores ReviewedIsWhole
PROPERTY CommandReturns
CHECK_DEADLOCK FALSE
