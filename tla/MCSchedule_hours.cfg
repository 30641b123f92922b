CONSTANTS
    DayLength = 4
    Marks = {0, 2, 3}
    Days = {2, 6}
    Ranges <- Hours
    MaxTime = 56
SPECIFICATION Spec
INVARIANTS TypeOK
PROPERTIES KeptWithinSession FreshNumbersPerSession EndsWithSession
