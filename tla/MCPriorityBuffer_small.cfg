\* Packets of at most half a buffer: every packet queued by the service today.
SPECIFICATION FairSpec
CONSTANTS
  Capacity = 4
  MaxPacket = 2
  FlushTime <- MCFlushTime
  MaxTick = 2
  MaxPackets = 3
INVARIANTS TypeOK BufferFits StreamInOrder NoPacketWaitsTooLong
PROPERTY EveryPacketIsSent
