SPECIFICATION ScriptSpec
CONSTANTS
  MaxReads = 3
  NumSlots = 1
  CmdCap = 1
  OutCap = 1
  FrameCap = 1
  CancelCap = 1
  TermCap = 1
  Ops <- ScriptOps
  Faults <- ScriptFaults
CHECK_DEADLOCK FALSE
PROPERTY SessionEnds
