SPECIFICATION Spec
CONSTANTS
  Callbacks <- ConfirmOrDismiss
  SpuriousWakeups = TRUE
INVARIANTS
  TypeOK
  ThreadPerNotification
PROPERTIES
  OneClickOneRequest
  CheckReturns
  QuietInTheEnd
CHECK_DEADLOCK FALSE
