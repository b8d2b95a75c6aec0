SPECIFICATION Spec
CONSTANTS
  Editors = {e1, e2}
  Branches = {main, topic}
  Master = main
  Nobody = nobody
  Scms = {"git", "github", "bitbucket-server", "bitbucket-cloud"}
  MaxPushes = 1
  MaxFailures = 1
  MaxSaves = 2
  MaxIndexings = 1
INVARIANTS TypeOK CacheOnlyPublished
PROPERTIES BranchesKept OverwritesSeen SaveSettles
CHECK_DEADLOCK FALSE
