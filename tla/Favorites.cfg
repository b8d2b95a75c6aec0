SPECIFICATION Spec
CONSTANTS
  job = job
  branch = branch
  pipeline = pipeline
  None = None
  Jobs <- MCJobs
  Items <- MCItems
  JobOf <- MCJobOf
  MaxRuns = 1
  MaxActs = 3
  MaxFailures = 1
INVARIANTS
  NamesMatch
  CardsMatch
  StatesShown
SYMMETRY MCSymmetry
CHECK_DEADLOCK FALSE
