SPECIFICATION Spec
CONSTANTS
  c1 = c1
  c2 = c2
  Clients = {c1, c2}
  NoClient = NoClient
  Paths <- MCPaths
  Refs <- MCRefs
  Jobs <- MCJobs
  MaxCalls = 1
  MaxCollections = 2
  MaxFaults = 0
  MaxInodes = 2
SYMMETRY ClientSymmetry
INVARIANT
  RootedKept
CHECK_DEADLOCK FALSE
