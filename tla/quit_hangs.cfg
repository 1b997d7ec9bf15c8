SPECIFICATION FairSpec
CONSTANTS
  MaxReads = 2
  NumSlots = 1
  CmdCap = 5
  OutCap = 5
  FrameCap = 5
  CancelCap = 2
  TermCap = 3
  Ops <- ReadQuit
  Faults <- LeaveFaults
CHECK_DEADLOCK FALSE
PROPERTY QuitEndsConnection
