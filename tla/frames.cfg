CONSTANTS
  Version = 1
  MaxPayload = 6
  Word = 16
  Statuses <- SmallStatuses
  Foreign <- BadFrames
  WriteBound = 3
  WireBound = 4
  crc32c <- Checksum
SPECIFICATION Spec
PROPERTIES ImplementsChannel  StatusArrives
