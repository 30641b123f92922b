SPECIFICATION Spec
CONSTANTS
    Texts <- TwoTexts
    Size <- Lengths
    MaxNum = 3
    MaxIn = 3
    MaxRows = 2
    MaxFaults = 2
    MaxTime = 2
    MaxStops = 1
INVARIANTS TypeOK SentRecoverable OneTextPerNumber NothingSkipped AlwaysOpens
PROPERTIES OnlyLastRedelivered KeepsRecords
CHECK_DEADLOCK FALSE
