SPECIFICATION FairSpec
CONSTANTS
    Requests = {r1, r2}
    Messages = {m1}
    NoOutcome = NoOutcome
    NoDelivery = NoDelivery
    MaxDeletions = 1
    MaxRestarts = 1
    MaxFaults = 1
CHECK_DEADLOCK FALSE
INVARIANTS
    OneOutcomePerMessage
    RepliesAgree
    LiveTaskIsKept
PROPERTIES
    IngressIsFinal
    AdmittedIsSettled
