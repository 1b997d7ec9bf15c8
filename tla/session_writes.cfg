SPECIFICATION Spec
CONSTANTS
  MaxReads = 3
  NumSlots = 2
  CmdCap = 1
  OutCap = 1
  FrameCap = 1
  CancelCap = 2
  TermCap = 1
  Ops <- WriteOps
  Faults <- WriteFaults
CHECK_DEADLOCK FALSE
INVARIANTS TypeOK WaitCoversGoroutines TableMatchesStreams ClosedStreamIsQuiet TempFilesOwned
PROPERTY NothingStoredLate
