\* Packets as large as the assertion in AddPacket allows.
SPECIFICATION Spec
CONSTANTS
  Capacity = 4
  MaxPacket = 4
  FlushTime <- MCFlushTime
  MaxTick = 2
  MaxPackets = 3
INVARIANT BufferFits
