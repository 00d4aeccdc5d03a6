SPECIFICATION FairSpec
CONSTANTS
    Threads = {t1, t2}
    MaxUnits = 2
    MaxWrites = 2
    MaxCrashes = 2
INVARIANT OpenMeansComplete
PROPERTIES
    KeepsPromise
    CommittedIsAnnounced
CHECK_DEADLOCK FALSE
