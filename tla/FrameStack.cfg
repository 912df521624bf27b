\* Every interleaving of one evaluation's frames, with other evaluations
\* winning thunks and table entries.
SPECIFICATION Spec
CONSTANTS
  p1 = p1
  p2 = p2
  plain = plain
  file = file
  Path = {p1, p2}
  Plain = {plain}
  File = {file}
  OwnPath <- MCOwnPath
  MemoKey = MemoKey
  None = None
  MaxInputKeys = 3
  Uses <- MCUses
  OtherReads <- MCOtherReads
  MaxAccesses = 2
  MaxChildren = 3
  MaxFrames = 6
INVARIANT InternExact
PROPERTIES ImplementsSets FinishedStable
CHECK_DEADLOCK FALSE
