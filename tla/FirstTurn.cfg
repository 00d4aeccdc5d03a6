SPECIFICATION TurnSpec
CONSTANTS
    Agents = {a1}
    a1 = a1
    Ghost = ghost
    SuffixLength = 1
    Lengths = {0, 2, 5}
    MaxHistory = 3
    MaxLater = 1
    MaxPieces = 4
INVARIANTS
    ContextIsTheInputCut
    RouteIsSound
    ActionIsAuthored
CHECK_DEADLOCK FALSE
