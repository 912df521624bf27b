\* The inductive invariant, on the instance of FrameStack with shorter stacks.
SPECIFICATION Spec
CONSTANTS
  p1 = p1
  p2 = p2
  plain = plain
  file = file
  Path = {p1, p2}
  Plain = {plain}
  File = {file}
  OwnPath <- MCOwnPath
  MemoKey = MemoKey
  None = None
  MaxInputKeys = 3
  Uses <- MCUses
  OtherReads <- MCOtherReads
  MaxAccesses = 2
  MaxChildren = 2
  MaxFrames = 6
INVARIANT FrameInv
CHECK_DEADLOCK FALSE
