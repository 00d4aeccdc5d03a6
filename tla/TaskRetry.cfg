SPECIFICATION FairSpec
CONSTANTS
    MaxTasks = 3
    Operators = {o1, o2}
    MaxCrashes = 1
INVARIANTS
    LineageIsSafe
    ClicksConverge
PROPERTY RetryIsExecuted
CHECK_DEADLOCK FALSE
