SPECIFICATION FairCalls
CONSTANTS
    SshCalls = {ssh}
    McpCalls = {mcp}
    ModelCalls = {model}
    Timeout = 2
    Grace = 1
    MaxChunks = 1
    MaxTime = 2
INVARIANT StopsInTime
PROPERTIES ResultIsTruthful EveryCallReturns
CHECK_DEADLOCK FALSE
