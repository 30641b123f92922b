CONSTANTS
    ResetOnLogon = FALSE
    ResetOnLogout = FALSE
    ResetOnDisconnect = FALSE
    PersistMessages = TRUE
    SendRedundantResendRequests = FALSE
    SendNextExpectedMsgSeqNum = FALSE
    MaxApps = 2
    MaxBreaks = 2
    MaxLogouts = 0
    MaxNum = 7
SPECIFICATION Spec
CHECK_DEADLOCK FALSE
INVARIANTS NeverAhead
PROPERTIES KeepsPromise
