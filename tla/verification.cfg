SPECIFICATION FairSpec
CONSTANTS
    None = None
    v1 = v1
    v2 = v2
    Incoming = {v1, v2}
    Outgoing = {v1, v2}
INVARIANTS
    TypeOK
    OutcomeIsReportedOnce
    ResponsesAreMatched
PROPERTIES
    VerifyDeviceReturns
CHECK_DEADLOCK FALSE
