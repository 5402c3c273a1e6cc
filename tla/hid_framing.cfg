SPECIFICATION Spec
CONSTANTS
  SeqMod = 4
  PacketSize = 5
  Commands <- PingAndMsg
  Payloads <- EveryLength
INVARIANTS
  TypeOK
  EveryByteInPlace
  HostGetsMessage
