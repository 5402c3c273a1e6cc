SPECIFICATION Spec
CONSTANTS
  NumSlots = 1
  CidMod = 3
  InitRoom = 1
  ContRoom = 2
  SeqMod = 2
  NonceSize = 1
  MaxLockTimeout = 1
  Byte <- Bytes
  CmdReports <- ShortRequests
  ContReports <- SomeContinuations
  Responses <- SomeResponses
  ClockMod = 16
  RequestTimeout = 2
  SecondTicks = 1
  SupportsWink = FALSE
  StartClock = 0
  Horizon = 4
  MaxStall = 1
  UninitCids = {1}
  UninitSlots <- NoJunk
INVARIANTS
  TypeOK
PROPERTIES
  LockNotStolen
  ImplementsChannels
