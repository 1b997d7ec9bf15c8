SPECIFICATION Spec
CONSTANTS
  MaxReads = 1
  NumSlots = 1
  CmdCap = 5
  OutCap = 5
  FrameCap = 5
  CancelCap = 2
  TermCap = 3
  Ops <- OneRead
  Faults <- NoFaults
CHECK_DEADLOCK FALSE
INVARIANT IdPrecedesFrames
