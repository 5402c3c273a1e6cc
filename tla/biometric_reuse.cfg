SPECIFICATION Spec
CONSTANTS
  Readers = {"r1"}
  Fingers = {"f1"}
  Buffers <- FiveBuffers
  Ops <- Requests
INVARIANTS
  NewCaptureEachTime
CHECK_DEADLOCK FALSE
