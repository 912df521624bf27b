SPECIFICATION SpecQuiet
CONSTANTS
  c1 = c1
  c2 = c2
  Clients = {c1, c2}
  NoClient = NoClient
  Paths <- MCPaths
  Refs <- MCRefs
  Jobs <- MCSeparateJobs
  MaxCalls = 2
  MaxCollections = 2
  MaxFaults = 1
  MaxInodes = 2
SYMMETRY ClientSymmetry
INVARIANTS
  TypeOK
  ProcInv
  LockInv
  RootInv
  ServerInv
  SweepInv
  ScanInv
  DeleteInv
  KeptInv
  KindInv
  DiskInv
  RootedKept
  ValidClosed
  WriterAlone
  NoLockCycle
CHECK_DEADLOCK FALSE
