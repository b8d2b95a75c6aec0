SPECIFICATION Spec
CONSTANTS
  Flows <- MCFlows
  Orgs = {A, B}
  PagesOf <- MCPagesOf
  A = A
  B = B
  None = None
  MaxServers = 2
  MaxSelects = 2
  MaxSaves = 2
INVARIANTS
  StepsInOrder
  RepositoriesOfOrg
  KnowsWhereToGo
PROPERTY SaveSettles
CHECK_DEADLOCK FALSE
