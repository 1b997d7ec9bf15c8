SPECIFICATION Spec
CONSTANTS
  MaxReads = 3
  NumSlots = 1
  CmdCap = 1
  OutCap = 1
  FrameCap = 1
  CancelCap = 2
  TermCap = 3
  Ops <- ReadOps
  Faults <- ReadFaults
CHECK_DEADLOCK FALSE
INVARIANTS ConnOpenWhileUsed MessagesInOrder ReusedIdIsQuiet ClosedStreamIsQuiet QuitIsLast TempFilesOwned
PROPERTIES AnswersInOrder BuffersIntact
