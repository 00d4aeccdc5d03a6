SPECIFICATION FairSpec
CONSTANTS
    Effects = {log, deploy, wipe}
    NeedsApproval = {deploy}
    Forbidden = {wipe}
    MaxLoops = 2
    MaxCalls = 2
    MaxFaults = 1
CHECK_DEADLOCK FALSE
INVARIANTS
    StartedEffectIsOnRecord
    OperatorDecides
    EndSettlesLedger
PROPERTIES
    SettledIsFinal
    StartedEffectIsSettled
