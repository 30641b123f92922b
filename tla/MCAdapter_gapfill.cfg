SPECIFICATION Spec
CONSTANTS
    Bound = 5
    MaxPage = 2
    MaxUnits = 2
    MaxProbes = 1
    MaxLost = 0
    MaxStops = 0
CHECK_DEADLOCK FALSE
INVARIANTS MandatoryNeverGapFilled
