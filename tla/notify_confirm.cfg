SPECIFICATION Spec
CONSTANTS
  Callbacks <- ConfirmOrDismiss
  SpuriousWakeups = FALSE
PROPERTIES
  ConfirmationIsSeen
CHECK_DEADLOCK FALSE
