SPECIFICATION FairSpec
CONSTANTS
  MaxReads = 3
  NumSlots = 1
  CmdCap = 1
  OutCap = 1
  FrameCap = 1
  CancelCap = 1
  TermCap = 3
  Ops <- AnswerOps
  Faults <- NoFaults
CHECK_DEADLOCK FALSE
PROPERTIES EveryMessageAnswered CancelledIsReleased
