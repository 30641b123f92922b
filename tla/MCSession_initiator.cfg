CONSTANTS
    ResetOnLogon = TRUE
    ResetOnLogout = TRUE
    ResetOnDisconnect = TRUE
    PersistMessages = TRUE
    SendRedundantResendRequests = TRUE
    SendNextExpectedMsgSeqNum = FALSE
    Initiate = TRUE
    Inbound <- AdmissionInbound
    Refusals = {"reject", "business", "logout"}
    Withholdings <- SomeWithheld
    Sched <- AllSched
    Elapsed <- EachDeadline
    Overtaken = {"none", "filled", "filledHeld", "saved"}
    MaxNum = 4
SPECIFICATION Spec
INVARIANTS NothingOutlivesConnection StoreMatchesSender
PROPERTIES NumbersAdvance
