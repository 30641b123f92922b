CONSTANTS
    ResetOnLogon = FALSE
    ResetOnLogout = FALSE
    ResetOnDisconnect = FALSE
    PersistMessages = TRUE
    SendRedundantResendRequests = FALSE
    SendNextExpectedMsgSeqNum = FALSE
    MaxApps = 1
    MaxBreaks = 2
    MaxLogouts = 0
    MaxNum = 12
SPECIFICATION FairSpec
CHECK_DEADLOCK FALSE
PROPERTIES AllDelivered
