CONSTANTS
    ResetOnLogon = FALSE
    ResetOnLogout = FALSE
    ResetOnDisconnect = FALSE
    PersistMessages = TRUE
    SendRedundantResendRequests = FALSE
    SendNextExpectedMsgSeqNum = TRUE
    MaxApps = 1
    MaxBreaks = 0
    MaxLogouts = 0
    MaxNum = 7
SPECIFICATION FairSpec
CHECK_DEADLOCK FALSE
PROPERTIES AllDelivered
