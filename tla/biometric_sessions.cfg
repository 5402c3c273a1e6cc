SPECIFICATION Spec
CONSTANTS
  Readers = {"r1"}
  Fingers = {"f1", "f2"}
  Buffers <- FiveBuffers
  Ops <- Calls
INVARIANTS
  TypeOK
  NoTemplateLeft
  FlagCoversThread
PROPERTIES
  RequestReturns
  ScannerGoesOff
  RetriesSucceed
CHECK_DEADLOCK FALSE
