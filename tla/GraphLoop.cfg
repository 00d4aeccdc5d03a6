SPECIFICATION FairSpec
CONSTANTS
    MaxBatch = 2
    Policies <- MCPolicies
INVARIANTS
    WorkWithinPolicy
    StopIsDue
PROPERTIES
    WorkOnlyWhenPermitted
    SliceEnds
CHECK_DEADLOCK FALSE
