SPECIFICATION FairSpec
CONSTANTS
    Tasks = {t1, t2}
    NoTask = NoTask
    Workers = {w1}
    Requests = {r1, r2}
    Boot = Boot
    MaxSlices = 2
    MaxCrashes = 1
CHECK_DEADLOCK FALSE
PROPERTIES
    QueuedWorkIsStarted
    ImplementsProcess
