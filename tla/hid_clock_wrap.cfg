SPECIFICATION Spec
CONSTANTS
  NumSlots = 2
  CidMod = 3
  InitRoom = 1
  ContRoom = 2
  SeqMod = 2
  NonceSize = 1
  MaxLockTimeout = 1
  Byte <- Bytes
  CmdReports <- LongRequests
  ContReports <- AnyContinuations
  Responses <- SomeResponses
  ClockMod = 8
  RequestTimeout = 2
  SecondTicks = 1
  SupportsWink = FALSE
  StartClock = 4
  Horizon = 10
  MaxStall = 1
  UninitCids = {1}
  UninitSlots <- NoJunk
INVARIANTS
  CancelledIsExpired
