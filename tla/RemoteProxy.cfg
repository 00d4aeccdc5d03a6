SPECIFICATION FairSpec
CONSTANTS
    Readers = {s, r}
    Stream = s
    Endpoints = {e1, e2}
    WireStates = {"submitted", "working", "input-required", "completed", "canceled", "unknown"}
    MaxEdits = 1
CHECK_DEADLOCK FALSE
INVARIANTS
    TerminalMatchesChild
    HistoryAdvances
    RowsStandTogether
PROPERTIES
    ChildEndReachesStream
