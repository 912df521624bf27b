SPECIFICATION Spec
CONSTANTS
  c1 = c1
  c2 = c2
  Clients = {c1, c2}
  NoClient = NoClient
  Paths <- MCPaths
  Refs <- MCRefs
  Jobs <- MCMixedJobs
  MaxCalls = 3
  MaxCollections = 0
  MaxFaults = 2
  MaxInodes = 3
SYMMETRY ClientSymmetry
INVARIANT
  MarkerVouches
CHECK_DEADLOCK FALSE
