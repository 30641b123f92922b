SPECIFICATION FairSpec
CONSTANTS
    Bound = 5
    MaxPage = 2
    MaxUnits = 2
    MaxProbes = 1
    MaxLost = 2
    MaxStops = 1
CHECK_DEADLOCK FALSE
INVARIANTS TypeOK Restorable NumbersIssuedOnce NoGapInRecovery LowerLogonCovered
PROPERTIES RecoveryEnds
