\* Every stream of seven bytes, cut in every way.
SPECIFICATION FairSpec
CONSTANTS
  Byte <- MCByte
  MaxOpcode = 1
  MaxPayload = 3
  Capacity = 4
  MaxSent = 7
INVARIANTS TypeOK DecodesStream
PROPERTY EveryPacketArrives
