SPECIFICATION FairSpec
CONSTANTS
    Tasks = {t1}
    NoTask = NoTask
    Workers = {w1}
    Requests = {r1, r2}
    Boot = Boot
    MaxSlices = 2
    MaxCrashes = 0
CHECK_DEADLOCK FALSE
PROPERTY
    CommandProgress
