CONSTANTS
    MaxBuild = 1
    MaxQueue = 1
    MaxEnqueue = 2
    MaxCancels = 0
    MaxPauses = 1
    PageSize = 1
    AlreadyOpen = FALSE
    MaxFailures = 1
SPECIFICATION Spec
CHECK_DEADLOCK FALSE
INVARIANT PendingWhileFetching
PROPERTY EventsNeverDuplicate
