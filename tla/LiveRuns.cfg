CONSTANTS
    MaxBuild = 2
    MaxQueue = 2
    MaxEnqueue = 2
    MaxCancels = 1
    MaxPauses = 0
    PageSize = 2
    AlreadyOpen = TRUE
    MaxFailures = 1
SPECIFICATION FairSpec
CHECK_DEADLOCK FALSE
INVARIANTS StaleOnlyIfShared CancelledGone
PROPERTIES StartedRunShown
