SPECIFICATION Spec
CONSTANTS
  NumSlots = 2
  CidMod = 3
  InitRoom = 1
  ContRoom = 2
  SeqMod = 2
  NonceSize = 1
  MaxLockTimeout = 1
  Byte <- Bytes
  CmdReports <- LongRequests
  ContReports <- AnyContinuations
  Responses <- SomeResponses
  ClockMod = 16
  RequestTimeout = 2
  SecondTicks = 1
  SupportsWink = FALSE
  StartClock = 0
  Horizon = 4
  MaxStall = 1
  UninitCids = {0}
  UninitSlots <- NoJunk
INVARIANTS
  OnePendingPerChannel
  CancelledIsExpired
  ReassemblySound
PROPERTIES
  ImplementsChannels
