CONSTANTS
    ResetOnLogon = FALSE
    ResetOnLogout = FALSE
    ResetOnDisconnect = FALSE
    PersistMessages = TRUE
    SendRedundantResendRequests = FALSE
    SendNextExpectedMsgSeqNum = TRUE
    MaxApps = 2
    MaxBreaks = 1
    MaxLogouts = 1
    MaxNum = 7
SPECIFICATION Spec
CHECK_DEADLOCK FALSE
INVARIANTS NeverAhead NoneTwice
