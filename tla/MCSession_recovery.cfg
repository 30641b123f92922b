CONSTANTS
    ResetOnLogon = FALSE
    ResetOnLogout = FALSE
    ResetOnDisconnect = FALSE
    PersistMessages = TRUE
    SendRedundantResendRequests = FALSE
    SendNextExpectedMsgSeqNum = FALSE
    Initiate = FALSE
    Inbound <- RecoveryInbound
    Refusals = {}
    Withholdings <- NothingWithheld
    Sched <- AlwaysOpen
    Elapsed <- NoDeadline
    Overtaken = {"none"}
    MaxNum = 5
SPECIFICATION Spec
INVARIANTS TypeOK NothingOutlivesConnection StoreMatchesSender DeliveredBelowTarget GapRequested
PROPERTIES InOrderDelivery NumbersAdvance
