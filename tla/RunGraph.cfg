CONSTANTS
    Pipelines <- MCPipelines
    MaxRuns = 2
    MaxSteps = 1
    MaxFailed = 1
SPECIFICATION GraphSpec
CHECK_DEADLOCK FALSE
INVARIANTS RunShown GraphDrawn
