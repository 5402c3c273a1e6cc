CONSTANTS
  RawRequests <- MCRawRequests
  HashSize = 1
  PublicKeySize = 2
  MaxHandleSize = 2
  PublicKeys <- MCPublicKeys
  Handles <- MCHandles
  Certificate <- MCCertificate
  IntSize = 2
  Numbers <- MCNumbers
  Counters = {0, 16909060}
  Leftovers <- MCLeftovers
  WordMod = 1000000
SPECIFICATION Spec
INVARIANT SignatureIsDER
CHECK_DEADLOCK FALSE
