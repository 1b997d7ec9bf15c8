SPECIFICATION CpFairSpec
CONSTANTS
  MaxReads = 8
  NumSlots = 1
  CmdCap = 1
  OutCap = 1
  FrameCap = 1
  CancelCap = 1
  TermCap = 1
  Ops <- CpOps
  Faults <- CpFaults
  Blocks = 2
  MaxPolls = 3
  MaxBlobSize = 3
  MaxLen = 5
  Samples <- CpSamples
  Arriving <- CpArriving
  Nesting = 3
  Byte <- CpBytes
CHECK_DEADLOCK FALSE
INVARIANTS NoPartialUpload UploadEndsStored DownloadIsComplete ArrivesAsSent
INVARIANTS ReadsBack CutIsNoticed ComplaintIsOneMessage
PROPERTY CpEnds
