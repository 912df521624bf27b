SPECIFICATION Spec
CONSTANTS
  c1 = c1
  c2 = c2
  Clients = {c1, c2}
  NoClient = NoClient
  Paths <- MCPaths
  Refs <- MCRefs
  Jobs <- MCJobs
  MaxCalls = 2
  MaxCollections = 1
  MaxFaults = 1
  MaxInodes = 2
SYMMETRY ClientSymmetry
INVARIANTS
  TypeOK
  RootedKept
  ValidComplete
  ValidClosed
  WriterAlone
  NoLockCycle
CHECK_DEADLOCK FALSE
