SPECIFICATION Spec
CONSTANTS
    Tasks = {t1, t2}
    NoTask = NoTask
    Workers = {w1, w2}
    Requests = {r1, r2}
    Boot = Boot
    MaxSlices = 3
    MaxCrashes = 2
SYMMETRY Symmetry
CHECK_DEADLOCK FALSE
INVARIANTS
    RowsConsistent
    OneWorkerPerTask
    RunningHasWorker
PROPERTIES
    TerminalIsFinal
    CancellationWins
